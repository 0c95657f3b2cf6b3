------------------------ MODULE RankingExport_proofs ------------------------
(***************************************************************************)
(* Theorems about RankingExport for any formats, competitors and bounds:   *)
(* its types, that an export of every slot, which nothing crosses, reads   *)
(* no cell that a row of the page does not have and divides by no total    *)
(* that is not read, and that such an export writes what the tables say.   *)
(* ExportInv is inductive: the two threads are in the maps, to change them *)
(* or to go through them, one at a time while quiet holds, and the columns *)
(* copied stay below the width of a row that shows every slot.             *)
(* SheetInv adds what the maps hold while the dialog fills                 *)
(* them; from it follow the rows, from the rows the cells of the sheet.    *)
(***************************************************************************)
EXTENDS RankingExport, FiniteSetTheorems, TLAPS

\* OnBnClickedBtnExport copies its cells from the columns of the slots the event
\* has, whatever the number of rounds and jump-offs.
LEMMA CopiedColumns ==
    ASSUME format \in Formats, NEW c \in DOMAIN Copied
    PROVE  Copied[c] \in 2..(4 + 2 * SlotCount)
<1>1. format.rounds \in 1..4 /\ format.jumpoffs \in 0..4 /\ format.differed \in BOOLEAN
  BY ExportAssumption
<1>2. SlotCount \in Nat /\ SlotCount = format.rounds + format.jumpoffs
  BY <1>1 DEF SlotCount
<1>3. c \in {STATUS_COL} \cup JumpoffCols \cup Round2Cols \cup Round1Cols
  BY DEF Copied, CopiedFrom
<1>4. CASE c = STATUS_COL
  BY <1>3, <1>4, <1>2 DEF Copied, CopiedFrom
<1>5. CASE c # STATUS_COL /\ c \in JumpoffCols
  <2>1. Copied[c] = c - JUMPOFF_COL + 2 * format.rounds + COL
    BY <1>3, <1>5 DEF Copied, CopiedFrom
  <2> QED BY <2>1, <1>5, <1>1, <1>2 DEF JumpoffCols, JUMPOFF_COL, COL
<1>6. CASE c # STATUS_COL /\ c \notin JumpoffCols /\ c \in Round2Cols
  <2>1. Copied[c] = c - ROUND2_COL + 2 + COL
    BY <1>3, <1>6 DEF Copied, CopiedFrom
  <2>2. format.rounds = 2 /\ c \in ROUND2_COL..(ROUND2_COL + 1)
    BY <1>6 DEF Round2Cols
  <2> QED BY <2>1, <2>2, <1>1, <1>2 DEF ROUND2_COL, COL
<1>7. CASE c # STATUS_COL /\ c \notin JumpoffCols /\ c \notin Round2Cols
  <2>1. Copied[c] = c - ROUND1_COL + COL
    BY <1>3, <1>7 DEF Copied, CopiedFrom
  <2>2. c \in ROUND1_COL..(ROUND1_COL + 1)
    BY <1>3, <1>7 DEF Round1Cols
  <2> QED BY <2>1, <2>2, <1>1, <1>2 DEF ROUND1_COL, COL
<1> QED BY <1>4, <1>5, <1>6, <1>7

\* Hence a row that shows every slot has them.
LEMMA ColumnsAreThere ==
    ASSUME format \in Formats, Displayed = SlotCount
    PROVE  ~ReadsBeyond
<1>1. SlotCount \in Nat
  BY ExportAssumption DEF SlotCount
<1>2. ASSUME NEW n PROVE Width(n) \in Nat /\ Width(n) >= 5 + 2 * SlotCount
  BY <1>1 DEF Width
<1> QED BY <1>1, <1>2, CopiedColumns DEF ReadsBeyond

-----------------------------------------------------------------------------
(* Types                                                                    *)

\* The slots are those of the event, and UpdateRanking reads no table beyond.
LEMMA SlotTypes ==
    ASSUME format \in Formats
    PROVE  /\ SlotCount \in Nat /\ SlotCount >= 1
           /\ TableCount \in 1..SlotCount
BY ExportAssumption DEF SlotCount, TableCount

\* What depends on the event only stays as it is.
LEMMA SameEvent ==
    ASSUME format' = format
    PROVE  /\ Slots' = Slots /\ Scores' = Scores /\ TableCount' = TableCount
           /\ SheetCols' = SheetCols /\ SlotCount' = SlotCount
BY DEF Slots, Scores, TableCount, SlotCount, SheetCols, ROUND2_COL

\* A thread that goes on keeps the type of the tasks.
LEMMA TaskGoesOn ==
    ASSUME TaskOK, format' = format, NEW t \in Threads, NEW p \in Pcs, NEW s \in Nat,
           s \in IF p = "fill" THEN 1..(TableCount + 1) ELSE {0},
           GoesTo(t, p, s)
    PROVE  /\ TaskOK'
           /\ task'[t].pc = p
           /\ \A u \in Threads \ {t} : task'[u] = task[u]
<1> DEFINE r == [pc |-> p, slot |-> s]
<1>1. r \in [pc : Pcs, slot : Nat] /\ r.pc = p /\ r.slot = s
  OBVIOUS
<1> HIDE DEF r
<1>2. task' = [task EXCEPT ![t] = r]
  BY DEF GoesTo, r
<1>3. /\ task' \in [Threads -> [pc : Pcs, slot : Nat]]
      /\ task'[t] = r
      /\ \A u \in Threads \ {t} : task'[u] = task[u]
  BY <1>1, <1>2 DEF TaskOK
<1>4. ASSUME NEW u \in Threads
      PROVE  task'[u].slot \in IF task'[u].pc = "fill" THEN 1..(TableCount' + 1) ELSE {0}
  BY <1>1, <1>3, SameEvent DEF TaskOK
<1> QED BY <1>1, <1>3, <1>4 DEF TaskOK

\* The cells of a row of the page, as far as they are copied.
LEMMA RowCells ==
    ASSUME NEW n, NEW c \in 2..(Width(n) - 1)
    PROVE  DOMAIN PageRow(n)[c] \subseteq 1..2
<1>1. PageRow(n)[c] =
        IF c = 2 THEN <<PageLabel(n)>>
        ELSE IF c < COL THEN Empty
        ELSE IF c < COL + 2 * Displayed THEN SlotCell((c - COL) \div 2 + 1, c, n)
        ELSE <<"total">>
  BY DEF PageRow
<1>2. ASSUME NEW s PROVE DOMAIN SlotCell(s, c, n) \subseteq 1..2
  BY DEF SlotCell, PointsCell, TimeCell, DiffCell, Empty
<1> QED BY <1>1, <1>2 DEF Empty

\* A row of the sheet after an export has the cells it had.
LEMMA PastedCells ==
    ASSUME NEW n \in Nums, NEW r, HasRow(n), ~ReadsBeyond, format \in Formats,
           loadedAt \in Nat,
           DOMAIN r = SheetCols, \A c \in SheetCols : DOMAIN r[c] \subseteq 1..2
    PROVE  /\ DOMAIN Pasted(n, r) = SheetCols
           /\ \A c \in SheetCols : DOMAIN Pasted(n, r)[c] \subseteq 1..2
<1> DEFINE from == Copied
           row == [c \in SheetCols |->
                     IF c \in DOMAIN from THEN PageRow(n)[from[c]] ELSE r[c]]
<1>1. Width(n) \in Nat
  BY ExportAssumption DEF Width, Displayed, Round, Jumpoff
<1>2. ASSUME NEW c \in DOMAIN Copied PROVE Copied[c] \in 2..(Width(n) - 1)
  <2>1. Copied[c] \in Nat /\ Copied[c] >= 2
    BY CopiedColumns
  <2>2. ~(Copied[c] >= Width(n))
    BY DEF ReadsBeyond
  <2> QED BY <1>1, <2>1, <2>2
<1>3. DOMAIN row = SheetCols /\ \A c \in SheetCols : DOMAIN row[c] \subseteq 1..2
  BY <1>2, RowCells
<1>4. Pasted(n, r) = Marked(row)
  BY DEF Pasted
<1> HIDE DEF row
<1> QED BY <1>3, <1>4 DEF Marked

\* The check box changes no more than two cells of a row.
LEMMA UnplacedCells ==
    ASSUME NEW r, DOMAIN r = SheetCols, \A c \in SheetCols : DOMAIN r[c] \subseteq 1..2
    PROVE  /\ DOMAIN Unplaced(r) = SheetCols
           /\ \A c \in SheetCols : DOMAIN Unplaced(r)[c] \subseteq 1..2
BY DEF Unplaced

-----------------------------------------------------------------------------
(* The invariant                                                            *)

LEMMA ExportInit == Init => ExportInv
<1> SUFFICES ASSUME Init PROVE ExportInv
  OBVIOUS
<1>1. SlotCount \in Nat /\ SlotCount >= 1
  BY SlotTypes DEF Init
<1>2. NoScores \in Scores
  BY DEF NoScores, Scores
<1>3. TaskOK /\ \A t \in Threads : task[t].pc = "idle"
  BY DEF Init, Idle, TaskOK, Pcs
<1>4. SheetOK
  BY DEF Init, SheetOK, Empty
<1>5. at \in Slots /\ loadedAt \in 1..at
  BY <1>1 DEF Init, Slots
<1>6. /\ hasTotal \in BOOLEAN /\ ragged \in BOOLEAN /\ quiet \in BOOLEAN
      /\ app \in {"runs", "ended", "crashed"}
  BY DEF Init
<1>7. TypeOK
  BY <1>2, <1>3, <1>4, <1>5, <1>6 DEF Init, TypeOK
<1> QED BY <1>3, <1>7
        DEF Init, ExportInv, Threads, QuietAlone, QuietTotal, Updating, CrashHasCause

\* Of the slots displayed only the event and the last Reload decide.
LEMMA SameDisplayed ==
    ASSUME UNCHANGED <<format, loadedAt>>
    PROVE  (Displayed # SlotCount)' <=> Displayed # SlotCount
BY DEF Displayed, SlotCount, Round, Jumpoff

\* What the step of a task has to keep, given the types of what it changes.
LEMMA TypesStay ==
    ASSUME TypeOK, format' = format, at' \in Slots, loadedAt' \in 1..at',
           tables' \in Scores, ranks' \in Scores, hasTotal' \in BOOLEAN,
           ragged' \in BOOLEAN, quiet' \in BOOLEAN, TaskOK', SheetOK',
           app' \in {"runs", "ended", "crashed"}
    PROVE  TypeOK'
BY SameEvent DEF TypeOK

LEMMA TaskStays == ASSUME TaskOK, UNCHANGED <<format, task>> PROVE TaskOK'
BY SameEvent DEF TaskOK

LEMMA SheetStays == ASSUME SheetOK, UNCHANGED <<format, sheet>> PROVE SheetOK'
BY SameEvent DEF SheetOK

\* The program is ended by a step that leaves everything else alone.
LEMMA ProgramEnds ==
    ASSUME ExportInv,
           UNCHANGED <<diskVars, memVars, taskVars, fileVars>>,
           app' \in {"ended", "crashed"},
           app' = "crashed" =>
               ~quiet \/ (task["ui"].pc = "read" /\ (Displayed # SlotCount \/ ragged))
    PROVE  ExportInv'
<1>1. TypeOK'
  BY TypesStay, TaskStays, SheetStays
     DEF ExportInv, TypeOK, diskVars, memVars, taskVars, fileVars
<1>2. QuietAlone' /\ QuietTotal' /\ CrashHasCause'
  BY SameDisplayed
     DEF ExportInv, QuietAlone, QuietTotal, CrashHasCause, Updating,
         diskVars, memVars, taskVars, fileVars
<1> QED BY <1>1, <1>2 DEF ExportInv

\* A thread in UpdateRanking goes on while the tables and the event stay.
LEMMA UpdateKeeps ==
    ASSUME ExportInv, app = "runs", NEW t \in Threads, Update(t) PROVE ExportInv'
<1> USE DEF ExportInv
<1>1. Threads = {"ui", "client"}
  BY DEF Threads
<1>2. CASE Clear(t)
  <2>2. /\ TaskOK' /\ task'[t].pc = "params"
        /\ \A u \in Threads \ {t} : task'[u] = task[u]
    BY <1>2, TaskGoesOn, SlotTypes DEF Clear, TypeOK, diskVars, Pcs
  <2>3. NoScores \in Scores
    BY DEF NoScores, Scores
  <2>4. TypeOK'
    BY <1>2, <2>2, <2>3, TypesStay, SheetStays DEF Clear, TypeOK, diskVars, fileVars
  <2>5. QuietAlone'
    BY <1>1, <1>2, <2>2 DEF Clear, QuietAlone, Updating
  <2>6. QuietTotal'
    BY <1>1, <1>2, <2>2
       DEF Clear, QuietTotal, QuietAlone, Updating, diskVars
  <2>7. CrashHasCause'
    BY <1>2 DEF Clear, CrashHasCause
  <2> QED BY <2>4, <2>5, <2>6, <2>7
<1>3. CASE ReadParams(t)
  <2>1. /\ TaskOK' /\ task'[t].pc = "fill"
        /\ \A u \in Threads \ {t} : task'[u] = task[u]
    BY <1>3, TaskGoesOn, SlotTypes DEF ReadParams, TypeOK, diskVars, Pcs
  <2>2. TypeOK'
    BY <1>3, <2>1, TypesStay, SheetStays DEF ReadParams, TypeOK, diskVars, fileVars
  <2>3. QuietAlone'
    BY <1>1, <1>3, <2>1 DEF ReadParams, QuietAlone, Updating
  <2>4. QuietTotal'
    BY <1>3 DEF ReadParams, QuietTotal, diskVars
  <2>5. CrashHasCause'
    BY <1>3 DEF ReadParams, CrashHasCause
  <2> QED BY <2>2, <2>3, <2>4, <2>5
<1>4. CASE UpdateThrows(t)
  <2>1. CASE t = "ui"
    BY <1>4, <2>1, ProgramEnds
       DEF UpdateThrows, taskVars, diskVars, memVars
  <2>2. CASE t # "ui"
    <3>1. GoesTo(t, "dead", 0) /\ UNCHANGED <<diskVars, memVars, quiet, fileVars, app>>
      BY <1>4, <2>2 DEF UpdateThrows
    <3>2. /\ TaskOK' /\ task'[t].pc = "dead"
          /\ \A u \in Threads \ {t} : task'[u] = task[u]
      BY <3>1, TaskGoesOn DEF TypeOK, diskVars, Pcs
    <3>3. TypeOK'
      BY <3>1, <3>2, TypesStay, SheetStays DEF TypeOK, diskVars, memVars, fileVars
    <3>4. QuietAlone'
      BY <1>1, <3>1, <3>2 DEF QuietAlone, Updating
    <3>5. QuietTotal'
      BY <3>1, <3>2 DEF QuietTotal, diskVars, memVars
    <3>6. CrashHasCause'
      BY <3>1, <1>4 DEF UpdateThrows, CrashHasCause
    <3> QED BY <3>3, <3>4, <3>5, <3>6
  <2> QED BY <2>1, <2>2
<1>5. CASE Fill(t)
  <2>1. task[t].slot \in 1..TableCount
    <3>1. task[t].slot \in 1..(TableCount + 1) /\ task[t].slot <= TableCount
      BY <1>5 DEF Fill, TypeOK, TaskOK
    <3> QED BY <3>1, SlotTypes DEF TypeOK
  <2>2. task[t].slot \in Slots /\ task[t].slot + 1 \in 1..(TableCount + 1)
    BY <2>1, SlotTypes DEF Slots, TypeOK
  <2>3. /\ TaskOK' /\ task'[t].pc = "fill"
        /\ \A u \in Threads \ {t} : task'[u] = task[u]
    BY <1>5, <2>2, TaskGoesOn DEF Fill, TypeOK, diskVars, Pcs
  <2>4. ranks' \in Scores
    BY <1>5, <2>2 DEF Fill, TypeOK, Scores
  <2>5. TypeOK'
    BY <1>5, <2>3, <2>4, TypesStay, SheetStays DEF Fill, TypeOK, diskVars, fileVars
  <2>6. QuietAlone'
    BY <1>1, <1>5, <2>3 DEF Fill, QuietAlone, Updating
  <2>7. QuietTotal'
    BY <1>5, <2>3 DEF Fill, QuietTotal, diskVars
  <2>8. CrashHasCause'
    BY <1>5 DEF Fill, CrashHasCause
  <2> QED BY <2>5, <2>6, <2>7, <2>8
<1>6. CASE FillDividesByZero(t)
  <2>1. ~quiet
    BY <1>6 DEF FillDividesByZero, Divides, QuietTotal
  <2>2. app' = "crashed" /\ UNCHANGED <<diskVars, memVars, taskVars, fileVars>>
    BY <1>6 DEF FillDividesByZero
  <2> HIDE DEF ExportInv
  <2> QED BY <2>1, <2>2, ProgramEnds
<1>7. CASE Filled(t) \/ FillFails(t)
  <2>1. GoesTo(t, "read", 0)
    BY <1>7 DEF Filled, FillFails, Returns
  <2>2. /\ UNCHANGED <<diskVars, memVars, fileVars, app>>
        /\ quiet' = quiet \/ quiet' = (quiet /\ t # "ui")
    BY <1>7 DEF Filled, FillFails
  <2>3. /\ TaskOK' /\ task'[t].pc = "read"
        /\ \A u \in Threads \ {t} : task'[u] = task[u]
    BY <2>1, <2>2, TaskGoesOn DEF TypeOK, diskVars, Pcs
  <2>4. quiet' \in BOOLEAN
    <3>1. quiet \in BOOLEAN
      BY DEF TypeOK
    <3> HIDE DEF ExportInv
    <3> QED BY <3>1, <2>2, Zenon
  <2>5. TypeOK'
    BY <2>2, <2>3, <2>4, TypesStay, SheetStays DEF TypeOK, diskVars, memVars, fileVars
  <2>6. quiet' => quiet
    BY <2>2
  <2>7. QuietAlone'
    <3>1. Updating(t)
      BY <1>7 DEF Filled, FillFails, Updating
    <3> QED BY <1>1, <3>1, <2>3, <2>6 DEF QuietAlone, Updating
  <2>8. QuietTotal'
    BY <2>2, <2>3, <2>6 DEF QuietTotal, diskVars, memVars
  <2>9. CrashHasCause'
    BY <2>2 DEF CrashHasCause
  <2> QED BY <2>5, <2>7, <2>8, <2>9
<1> QED BY <1>2, <1>3, <1>4, <1>5, <1>6, <1>7 DEF Update

\* The dialog's export: clicks, and what comes of the rows of the page.
LEMMA ExportKeeps == ASSUME ExportInv, Export PROVE ExportInv'
<1> USE DEF ExportInv
<1>1. "ui" \in Threads /\ Threads = {"ui", "client"}
  BY DEF Threads
<1>2. CASE ClickExport
  <2>1. /\ TaskOK' /\ task'["ui"].pc = "clear"
        /\ \A u \in Threads \ {"ui"} : task'[u] = task[u]
    BY <1>1, <1>2, TaskGoesOn DEF ClickExport, TypeOK, diskVars, Pcs
  <2>2. quiet' \in BOOLEAN /\ (quiet' <=> ~Updating("client"))
    BY <1>2 DEF ClickExport
  <2>3. loadedAt' \in 1..at'
    BY <1>2 DEF ClickExport, TypeOK, Slots, diskVars
  <2>4. TypeOK'
    BY <1>2, <2>1, <2>2, <2>3, TypesStay, SheetStays
       DEF ClickExport, TypeOK, diskVars, fileVars
  <2>5. QuietAlone'
    BY <1>1, <2>1, <2>2 DEF QuietAlone, Updating
  <2>6. QuietTotal'
    BY <1>1, <2>1, <2>2 DEF QuietTotal, Updating
  <2>7. CrashHasCause'
    BY <1>2 DEF ClickExport, CrashHasCause
  <2> QED BY <2>4, <2>5, <2>6, <2>7
<1>3. CASE ReloadFails
  BY <1>3, ProgramEnds DEF ReloadFails
<1>4. CASE Paste
  <2>1. /\ TaskOK' /\ task'["ui"].pc = "idle"
        /\ \A u \in Threads \ {"ui"} : task'[u] = task[u]
    BY <1>1, <1>4, TaskGoesOn DEF Paste, TypeOK, diskVars, Pcs
  <2>2. PICK dns \in BOOLEAN :
          sheet' = [n \in Nums |->
                      LET r == IF HasRow(n) THEN Pasted(n, sheet[n]) ELSE sheet[n] IN
                      IF dns THEN Unplaced(r) ELSE r]
    BY <1>4 DEF Paste
  <2>3. ASSUME NEW n \in Nums
        PROVE  /\ DOMAIN sheet'[n] = SheetCols
               /\ \A c \in SheetCols : DOMAIN sheet'[n][c] \subseteq 1..2
    <3> DEFINE r == IF HasRow(n) THEN Pasted(n, sheet[n]) ELSE sheet[n]
    <3>1. DOMAIN r = SheetCols /\ \A c \in SheetCols : DOMAIN r[c] \subseteq 1..2
      BY <1>4, PastedCells DEF Paste, TypeOK, SheetOK, Slots
    <3>2. sheet'[n] = IF dns THEN Unplaced(r) ELSE r
      BY <2>2
    <3> HIDE DEF r
    <3> QED BY <3>1, <3>2, UnplacedCells
  <2>4. SheetOK'
    BY <1>4, <2>3, SameEvent DEF Paste, SheetOK, diskVars
  <2>5. TypeOK'
    <3>1. ragged' \in BOOLEAN
      BY <1>4 DEF Paste, TypeOK
    <3> QED BY <1>4, <2>1, <2>4, <3>1, TypesStay DEF Paste, TypeOK, diskVars, memVars
  <2>6. QuietAlone'
    BY <1>1, <1>4, <2>1 DEF Paste, QuietAlone, Updating
  <2>7. QuietTotal'
    BY <1>4, <2>1 DEF Paste, QuietTotal, diskVars, memVars
  <2>8. CrashHasCause'
    BY <1>4 DEF Paste, CrashHasCause
  <2> QED BY <2>5, <2>6, <2>7, <2>8
<1>5. CASE WriteFails
  <2>1. /\ TaskOK' /\ task'["ui"].pc = "idle"
        /\ \A u \in Threads \ {"ui"} : task'[u] = task[u]
    BY <1>1, <1>5, TaskGoesOn DEF WriteFails, TypeOK, diskVars, Pcs
  <2>2. TypeOK'
    BY <1>5, <2>1, TypesStay, SheetStays
       DEF WriteFails, TypeOK, diskVars, memVars, fileVars
  <2>3. QuietAlone'
    BY <1>1, <1>5, <2>1 DEF WriteFails, QuietAlone, Updating
  <2>4. QuietTotal'
    BY <1>5, <2>1 DEF WriteFails, QuietTotal, diskVars, memVars
  <2>5. CrashHasCause'
    BY <1>5 DEF WriteFails, CrashHasCause
  <2> QED BY <2>2, <2>3, <2>4, <2>5
<1>6. CASE PasteFails
  <2>1. task["ui"].pc = "read" /\ (Displayed # SlotCount \/ ragged)
    BY <1>6, ColumnsAreThere DEF PasteFails, TypeOK
  <2> QED BY <1>6, <2>1, ProgramEnds DEF PasteFails
<1> QED BY <1>2, <1>3, <1>4, <1>5, <1>6 DEF Export

LEMMA ExportStep == ExportInv /\ [Next]_vars => ExportInv'
<1> SUFFICES ASSUME ExportInv, [Next]_vars PROVE ExportInv'
  OBVIOUS
<1> USE DEF ExportInv
<1>1. Threads = {"ui", "client"}
  BY DEF Threads
<1>2. CASE SendRanking
  <2>1. /\ TaskOK' /\ task'["client"].pc = "clear"
        /\ \A u \in Threads \ {"client"} : task'[u] = task[u]
    BY <1>1, <1>2, TaskGoesOn DEF SendRanking, TypeOK, diskVars, Pcs
  <2>2. quiet' <=> quiet /\ ~Updating("ui")
    BY <1>2 DEF SendRanking
  <2>3. quiet' \in BOOLEAN
    BY <1>2 DEF SendRanking
  <2>4. TypeOK'
    BY <1>2, <2>1, <2>3, TypesStay, SheetStays
       DEF SendRanking, TypeOK, diskVars, memVars, fileVars
  <2>5. QuietAlone'
    BY <1>1, <2>1, <2>2 DEF QuietAlone, Updating
  <2>6. QuietTotal'
    BY <1>1, <1>2, <2>1, <2>2 DEF SendRanking, QuietTotal, diskVars, memVars
  <2>7. CrashHasCause'
    BY <1>2 DEF SendRanking, CrashHasCause
  <2> QED BY <2>4, <2>5, <2>6, <2>7
<1>3. CASE \E t \in Threads : Update(t)
  <2>1. app = "runs"
    BY <1>3 DEF Update, Clear, ReadParams, UpdateThrows, Fill, FillDividesByZero,
                Filled, FillFails
  <2> QED BY <1>3, <2>1, UpdateKeeps
<1>4. CASE MapsRace
  <2>1. ~quiet
    BY <1>4 DEF MapsRace, QuietAlone
  <2>2. app' = "crashed" /\ UNCHANGED <<diskVars, memVars, taskVars, fileVars>>
    BY <1>4 DEF MapsRace
  <2> HIDE DEF ExportInv
  <2> QED BY <2>1, <2>2, ProgramEnds
<1>5. CASE Export
  BY <1>5, ExportKeeps
<1>6. CASE EnterResult
  <2>1. PICK s \in 1..at, n \in Nums, r \in Statuses :
          tables' = [tables EXCEPT ![s][n] = r]
    BY <1>6 DEF EnterResult
  <2>2. s \in Slots
    BY <2>1, SlotTypes DEF TypeOK, Slots
  <2>3. tables' \in Scores
    BY <2>1, <2>2 DEF TypeOK, Scores
  <2>4. quiet' \in BOOLEAN /\ (quiet' => quiet)
    BY <1>6 DEF EnterResult
  <2>5. TypeOK'
    BY <1>6, <2>3, <2>4, TypesStay, TaskStays, SheetStays
       DEF EnterResult, TypeOK, memVars, fileVars
  <2>6. QuietAlone' /\ QuietTotal' /\ CrashHasCause'
    BY <1>6, <2>4
       DEF EnterResult, QuietAlone, QuietTotal, CrashHasCause, Updating, memVars
  <2> QED BY <2>5, <2>6
<1>7. CASE NextSlot
  <2>1. at' \in Slots /\ loadedAt' \in 1..at'
    BY <1>7, SlotTypes DEF NextSlot, TypeOK, Slots, memVars
  <2>2. TypeOK'
    BY <1>7, <2>1, TypesStay, TaskStays, SheetStays
       DEF NextSlot, TypeOK, memVars, taskVars, fileVars
  <2>3. QuietAlone' /\ QuietTotal' /\ CrashHasCause'
    BY <1>7
       DEF NextSlot, QuietAlone, QuietTotal, CrashHasCause, Updating, memVars, taskVars
  <2> QED BY <2>2, <2>3
<1>8. CASE UNCHANGED vars
  <2>1. TypeOK'
    BY <1>8, TypesStay, TaskStays, SheetStays
       DEF vars, TypeOK, diskVars, memVars, taskVars, fileVars
  <2>2. QuietAlone' /\ QuietTotal' /\ CrashHasCause'
    BY <1>8, SameDisplayed
       DEF vars, diskVars, memVars, taskVars, fileVars, QuietAlone, QuietTotal,
           CrashHasCause, Updating
  <2> QED BY <2>1, <2>2
<1>9. CASE SendsRanking
  <2>1. /\ TaskOK' /\ task'["client"].pc = "idle"
        /\ \A u \in Threads \ {"client"} : task'[u] = task[u]
    BY <1>1, <1>9, TaskGoesOn DEF SendsRanking, TypeOK, diskVars, Pcs
  <2>2. TypeOK'
    BY <1>9, <2>1, TypesStay, SheetStays
       DEF SendsRanking, TypeOK, diskVars, memVars, fileVars
  <2>3. QuietAlone'
    BY <1>1, <1>9, <2>1 DEF SendsRanking, QuietAlone, Updating
  <2>4. QuietTotal'
    BY <1>9, <2>1 DEF SendsRanking, QuietTotal, diskVars, memVars
  <2>5. CrashHasCause'
    BY <1>9 DEF SendsRanking, CrashHasCause
  <2> QED BY <2>2, <2>3, <2>4, <2>5
<1> QED BY <1>2, <1>3, <1>4, <1>5, <1>6, <1>7, <1>8, <1>9 DEF Next

-----------------------------------------------------------------------------
\* The inductive invariant holds, for any formats, competitors and statuses and
\* any number of exports, updates and results.
THEOREM ExportInvariant == Spec => []ExportInv
BY ExportInit, ExportStep, PTL DEF Spec

\* UpdateRanking and the export keep the types of maps, tasks and sheet: no
\* thread reads a table the event does not have, and no cell is written that is
\* not one of the sheet's.
THEOREM ExportTypeCorrect == Spec => []TypeOK
<1>1. ExportInv => TypeOK
  BY DEF ExportInv
<1> QED BY <1>1, ExportInvariant, PTL

\* While neither thread changes the maps of UpdateRanking when the other is there
\* (SendRankingList goes through them after its update), the total of the judges
\* is not 0 when it divides; and an export of a page that displays every slot of
\* the event, to a file whose lines have the columns, reads no cell that is not
\* there in generateRanking or OnBnClickedBtnExport, whatever the rounds and
\* jump-offs.
THEOREM CrashesHaveCause == Spec => []CrashHasCause
<1>1. ExportInv => CrashHasCause
  BY DEF ExportInv
<1> QED BY <1>1, ExportInvariant, PTL

-----------------------------------------------------------------------------
(* The rows of the page                                                     *)

\* An event has eight slots at most, so the last of some of them exists.
LEMMA LargestSlot ==
    ASSUME NEW S, S \subseteq 1..8, S # {}
    PROVE  Largest(S) \in S /\ \A y \in S : y <= Largest(S)
<1>1. \E x \in S : \A y \in S : y <= x
  <2>1. CASE 8 \in S
    BY <2>1
  <2>2. CASE 8 \notin S /\ 7 \in S
    BY <2>2
  <2>3. CASE 8 \notin S /\ 7 \notin S /\ 6 \in S
    BY <2>3
  <2>4. CASE 8 \notin S /\ 7 \notin S /\ 6 \notin S /\ 5 \in S
    BY <2>4
  <2>5. CASE S \subseteq 1..4
    <3>1. CASE 4 \in S
      BY <3>1, <2>5
    <3>2. CASE 4 \notin S /\ 3 \in S
      BY <3>2, <2>5
    <3>3. CASE 4 \notin S /\ 3 \notin S /\ 2 \in S
      BY <3>3, <2>5
    <3>4. CASE S \subseteq {1}
      <4>1. 1 \in S /\ \A y \in S : y = 1
        BY <3>4
      <4> QED BY <4>1
    <3> QED BY <2>5, <3>1, <3>2, <3>3, <3>4
  <2> QED BY <2>1, <2>2, <2>3, <2>4, <2>5
<1> QED BY <1>1 DEF Largest

\* A number that is one of a set and not below any of it is its largest.
LEMMA LargestIs ==
    ASSUME NEW S, S \subseteq Nat, NEW x \in S, \A y \in S : y <= x
    PROVE  Largest(S) = x
<1>1. Largest(S) \in S /\ \A y \in S : y <= Largest(S)
  BY DEF Largest
<1>2. Largest(S) \in Nat /\ x \in Nat /\ x <= Largest(S) /\ Largest(S) <= x
  BY <1>1
<1> QED BY <1>2

\* What ExportAssumption says of the event.
LEMMA EventTypes ==
    ASSUME format \in Formats
    PROVE  /\ format.rounds \in 1..4 /\ format.jumpoffs \in 0..4
           /\ SlotCount = format.rounds + format.jumpoffs
           /\ SlotCount \in 1..8
           /\ TableCount \in 1..SlotCount
           /\ format.differed \in BOOLEAN /\ format.integrated \in BOOLEAN
BY ExportAssumption DEF SlotCount, TableCount

\* The page displays a slot at least.
LEMMA DisplayedType ==
    ASSUME TypeOK
    PROVE  Displayed \in Nat /\ Displayed >= 1
BY EventTypes DEF TypeOK, Slots, Displayed, Round, Jumpoff

\* If a competitor has an entry in the first map whenever it has one in another,
\* every competitor that a slot shows has a row: the list of the first slot is
\* the longest, and the rows before one's own are others' that are in it.
LEMMA ShownHasRow ==
    ASSUME TypeOK, Displayed <= SlotCount,
           \A s \in Slots, m \in Nums : ranks[s][m] # 0 => ranks[1][m] # 0,
           NEW n \in Nums, Shown(n) # {}
    PROVE  HasRow(n)
<1>1. Displayed \in 1..8 /\ SlotCount \in 1..8 /\ 1..Displayed \subseteq Slots
  BY DisplayedType, EventTypes DEF TypeOK, Slots
<1>2. ASSUME NEW s \in 1..Displayed
      PROVE  Ranked(s) \subseteq Ranked(1)
  BY <1>1 DEF Ranked
<1>3. IsFiniteSet(Ranked(1)) /\ Cardinality(Ranked(1)) \in Nat
  <2>1. Ranked(1) \in SUBSET Nums /\ IsFiniteSet(Nums)
    BY ExportAssumption DEF Ranked
  <2>2. IsFiniteSet(Ranked(1))
    BY <2>1, FS_Subset
  <2> QED BY <2>2, FS_CardinalityType
<1>4. ASSUME NEW s \in 1..Displayed
      PROVE  Cardinality(Ranked(s)) \in Nat /\ Cardinality(Ranked(s)) <= Cardinality(Ranked(1))
  <2>1. Ranked(s) \in SUBSET Ranked(1)
    BY <1>2
  <2>2. IsFiniteSet(Ranked(s)) /\ Cardinality(Ranked(s)) <= Cardinality(Ranked(1))
    BY <2>1, <1>3, FS_Subset
  <2> QED BY <2>2, FS_CardinalityType
<1>5. RiderCount = Cardinality(Ranked(1))
  <2> DEFINE C == {Cardinality(Ranked(s)) : s \in 1..Displayed}
  <2>1. 1 \in 1..Displayed
    BY <1>1
  <2>2. C \subseteq Nat /\ Cardinality(Ranked(1)) \in C
        /\ \A y \in C : y <= Cardinality(Ranked(1))
    BY <1>4, <2>1
  <2> HIDE DEF C
  <2>3. Largest(C) = Cardinality(Ranked(1))
    BY <2>2, LargestIs
  <2> QED BY <2>3 DEF RiderCount, C
<1>6. \A m \in Nums : Shown(m) # {} => m \in Ranked(1)
  BY <1>2 DEF Shown
<1> DEFINE B == {m \in Nums : Shown(m) # {} /\ Before(m, n)}
<1>7. ~Before(n, n)
  <2>1. Shown(n) \subseteq 1..8
    BY <1>1 DEF Shown
  <2>2. Largest(Shown(n)) \in Nat
    BY <2>1, LargestSlot
  <2>3. n \in Nat
    BY ExportAssumption
  <2> QED BY <2>2, <2>3 DEF Before
<1>8. B \in SUBSET (Ranked(1) \ {n})
  BY <1>6, <1>7
<1>9. n \in Ranked(1)
  BY <1>6
<1> HIDE DEF B
<1>10. /\ IsFiniteSet(Ranked(1) \ {n})
       /\ Cardinality(Ranked(1) \ {n}) = Cardinality(Ranked(1)) - 1
  BY <1>3, <1>9, FS_RemoveElement
<1>11. IsFiniteSet(B) /\ Cardinality(B) <= Cardinality(Ranked(1) \ {n})
  BY <1>8, <1>10, FS_Subset
<1>12. Cardinality(B) \in Nat
  BY <1>11, FS_CardinalityType
<1>13. Cardinality(B) < RiderCount
  BY <1>3, <1>5, <1>10, <1>11, <1>12
<1> QED BY <1>13 DEF HasRow, B

-----------------------------------------------------------------------------
(* What is in the maps when the dialog reads them                           *)

LEMMA SheetInit == Init => SheetInv
<1> SUFFICES ASSUME Init PROVE SheetInv
  OBVIOUS
<1>1. ExportInv
  BY ExportInit
<1>2. \A s \in Slots, n \in Nums : tables[s][n] = 0
  BY DEF Init, NoScores
<1>3. task["ui"].pc = "idle"
  BY DEF Init, Idle, Threads
<1> QED BY <1>1, <1>2, <1>3
        DEF SheetInv, ResultsNested, LoadedAll, MapsAsTables, Updating

\* Results are entered slot by slot.
LEMMA NestedKept == SheetInv /\ [Next]_vars => ResultsNested'
<1> SUFFICES ASSUME SheetInv, [Next]_vars PROVE ResultsNested'
  OBVIOUS
<1>0. TypeOK /\ ResultsNested
  BY DEF SheetInv, ExportInv
<1>1. CASE EnterResult
  <2>1. PICK s \in 1..at, n \in Nums, r \in Statuses :
          /\ tables[s][n] = 0 => s = at /\ \A u \in 1..(s - 1) : tables[u][n] # 0
          /\ tables' = [tables EXCEPT ![s][n] = r]
    BY <1>1 DEF EnterResult
  <2>2. /\ r # 0 /\ at \in Slots /\ at \in Nat /\ s \in Slots /\ s \in Nat
        /\ UNCHANGED <<format, at>>
    BY <1>0, <1>1, <2>1, EventTypes, ExportAssumption DEF TypeOK, Slots, EnterResult
  <2>3. Slots' = Slots /\ Slots \subseteq Nat
    BY <2>2, SameEvent DEF Slots
  <2>4. \A q \in Slots, m \in Nums :
          tables'[q][m] = IF q = s /\ m = n THEN r ELSE tables[q][m]
    BY <1>0, <2>1, <2>2 DEF TypeOK, Scores
  <2>5. \A u \in 1..s : u = s \/ tables[u][n] # 0
    <3>1. CASE tables[s][n] = 0
      <4>1. \A u \in 1..s : u = s \/ u \in 1..(s - 1)
        BY <2>2
      <4> QED BY <2>1, <3>1, <4>1
    <3>2. CASE tables[s][n] # 0
      BY <1>0, <2>2, <3>2 DEF ResultsNested
    <3> QED BY <3>1, <3>2
  <2>6. ASSUME NEW q \in Slots, NEW m \in Nums, tables'[q][m] # 0
        PROVE  q <= at /\ \A u \in 1..q : tables'[u][m] # 0
    <3>0. \A u \in 1..q : u \in Slots
      BY <1>0, EventTypes DEF TypeOK, Slots
    <3>1. CASE q = s /\ m = n
      BY <2>1, <2>2, <2>4, <2>5, <3>0, <3>1
    <3>2. CASE ~(q = s /\ m = n)
      <4>1. tables[q][m] # 0
        BY <2>4, <2>6, <3>2
      <4>2. q <= at /\ \A u \in 1..q : tables[u][m] # 0
        BY <1>0, <4>1 DEF ResultsNested
      <4> QED BY <2>2, <2>4, <3>0, <4>2
    <3> QED BY <3>1, <3>2
  <2> QED BY <2>2, <2>3, <2>6 DEF ResultsNested
<1>2. CASE NextSlot
  <2>1. at \in Nat /\ at' = at + 1 /\ UNCHANGED <<format, tables>> /\ Slots \subseteq Nat
    BY <1>0, <1>2, EventTypes DEF NextSlot, TypeOK, Slots
  <2>2. Slots' = Slots
    BY <2>1, SameEvent
  <2> QED BY <1>0, <2>1, <2>2 DEF ResultsNested
<1>3. CASE ~EnterResult /\ ~NextSlot
  <2>1. UNCHANGED diskVars
    BY <1>3 DEF Next, SendRanking, MapsRace, SendsRanking, Export, ClickExport, ReloadFails,
       Paste, WriteFails, PasteFails, Update, Clear, ReadParams, UpdateThrows, Fill, FillDividesByZero,
       Filled, FillFails, vars
  <2>2. UNCHANGED <<format, at, tables>>
    BY <2>1 DEF diskVars
  <2>3. Slots' = Slots
    BY <2>2, SameEvent
  <2> QED BY <1>0, <2>2, <2>3 DEF ResultsNested
<1> QED BY <1>1, <1>2, <1>3

\* While nothing crosses an export, the client thread makes no step in the maps.
LEMMA OnlyDialogReads ==
    ASSUME ExportInv, quiet, Updating("ui"), NEW t \in Threads, Update(t)
    PROVE  t = "ui"
BY DEF ExportInv, QuietAlone, Updating, Update, Clear, ReadParams, UpdateThrows, Fill,
       FillDividesByZero, Filled, FillFails, Threads

\* The steps that leave an export of the dialog and what it reads alone.
Aside ==
    /\ UNCHANGED <<format, tables, loadedAt>>
    /\ quiet' => quiet
    /\ task'["ui"] = task["ui"]
    /\ quiet' /\ Updating("ui") => ranks' = ranks

LEMMA AsideKeeps ==
    ASSUME SheetInv, Aside PROVE LoadedAll' /\ MapsAsTables'
<1>1. Slots' = Slots /\ TableCount' = TableCount
  BY SameEvent DEF Aside
<1>2. TablesRead' = TablesRead /\ Updating("ui")' = Updating("ui")
  BY <1>1 DEF Aside, TablesRead, Updating
<1>3. LoadedAll'
  BY <1>1, <1>2 DEF Aside, SheetInv, LoadedAll
<1>4. MapsAsTables'
  BY <1>1, <1>2 DEF Aside, SheetInv, MapsAsTables, Updating
<1> QED BY <1>3, <1>4

\* The dialog's own steps in UpdateRanking: table after table.
LEMMA DialogReads ==
    ASSUME SheetInv, Update("ui") PROVE LoadedAll' /\ MapsAsTables'
<1>0. /\ TypeOK /\ LoadedAll /\ MapsAsTables
      /\ "ui" \in Threads /\ TableCount \in Nat /\ TableCount \in 1..SlotCount
      /\ SlotCount \in 1..8
  BY EventTypes DEF SheetInv, ExportInv, TypeOK, Threads
<1>1. task \in [Threads -> [pc : Pcs, slot : Nat]]
  BY <1>0 DEF TypeOK, TaskOK
<1>2. CASE UpdateThrows("ui")
  BY <1>2, AsideKeeps DEF UpdateThrows, Aside, diskVars, memVars, taskVars
<1>3. CASE FillDividesByZero("ui")
  BY <1>3, AsideKeeps DEF FillDividesByZero, Aside, diskVars, memVars, taskVars
<1>4. CASE FillFails("ui")
  BY <1>4 DEF FillFails, LoadedAll, MapsAsTables
<1>5. ASSUME Clear("ui") \/ ReadParams("ui") \/ Fill("ui") \/ Filled("ui")
      PROVE  LoadedAll' /\ UNCHANGED <<format, tables, loadedAt, quiet>>
  <2>1. UNCHANGED <<format, tables, loadedAt, quiet>> /\ Updating("ui")
    BY <1>5 DEF Clear, ReadParams, Fill, Filled, Updating, diskVars, memVars
  <2>2. Slots' = Slots
    BY <2>1, SameEvent
  <2> QED BY <1>0, <2>1, <2>2 DEF LoadedAll
<1>6. CASE Clear("ui")
  <2>1. task' = [task EXCEPT !["ui"] = [pc |-> "params", slot |-> 0]]
    BY <1>6 DEF Clear, GoesTo
  <2>2. TablesRead' = {}
    BY <1>0, <1>1, <2>1 DEF TablesRead
  <2>3. Slots' = Slots /\ ranks' = [s \in Slots |-> [n \in Nums |-> 0]]
    BY <1>5, <1>6, SameEvent DEF Clear, NoScores
  <2>4. MapsAsTables'
    BY <2>2, <2>3 DEF MapsAsTables
  <2> QED BY <1>5, <1>6, <2>4
<1>7. CASE ReadParams("ui")
  <2>1. task' = [task EXCEPT !["ui"] = [pc |-> "fill", slot |-> 1]]
    BY <1>7 DEF ReadParams, GoesTo
  <2>2. TablesRead' = {} /\ TablesRead = {} /\ task["ui"].pc = "params"
    BY <1>0, <1>1, <1>7, <2>1 DEF TablesRead, ReadParams
  <2>3. Slots' = Slots /\ UNCHANGED <<ranks, quiet>>
    BY <1>5, <1>7, SameEvent DEF ReadParams
  <2>4. MapsAsTables'
    BY <1>0, <2>2, <2>3 DEF MapsAsTables
  <2> QED BY <1>5, <1>7, <2>4
<1>8. CASE Fill("ui")
  <2> DEFINE k == task["ui"].slot
  <2>1. k \in 1..TableCount /\ k \in Nat /\ task["ui"].pc = "fill"
    <3>1. k \in 1..(TableCount + 1) /\ k <= TableCount /\ task["ui"].pc = "fill"
      BY <1>0, <1>8 DEF Fill, TypeOK, TaskOK
    <3> QED BY <1>0, <3>1
  <2>2. task'["ui"].pc = "fill" /\ task'["ui"].slot = k + 1
    BY <1>0, <1>1, <1>8 DEF Fill, GoesTo
  <2>3. ranks' = [ranks EXCEPT ![k] = tables[k]]
    BY <1>8 DEF Fill
  <2> HIDE DEF k
  <2>4. \A s : s \in TablesRead' <=> s \in TablesRead \/ s = k
    <3>1. TablesRead = 1..(k - 1) /\ TablesRead' = 1..((k + 1) - 1)
      BY <2>1, <2>2 DEF TablesRead, k
    <3> QED BY <2>1, <3>1
  <2>5. Slots' = Slots /\ UNCHANGED <<tables, quiet>>
    BY <1>5, <1>8, SameEvent
  <2>6. k \in Slots /\ ranks \in Scores
    BY <1>0, <2>1 DEF Slots, TypeOK
  <2>7. ASSUME quiet, NEW s \in Slots
        PROVE  ranks'[s] = IF s \in TablesRead' THEN tables[s] ELSE [n \in Nums |-> 0]
    <3>1. ranks[s] = IF s \in TablesRead THEN tables[s] ELSE [n \in Nums |-> 0]
      BY <1>0, <2>1, <2>7 DEF MapsAsTables
    <3>2. ranks'[s] = IF s = k THEN tables[s] ELSE ranks[s]
      BY <2>3, <2>6 DEF Scores
    <3> QED BY <2>4, <3>1, <3>2
  <2>8. MapsAsTables'
    BY <2>5, <2>7 DEF MapsAsTables
  <2> QED BY <1>5, <1>8, <2>8
<1>9. CASE Filled("ui")
  <2>1. /\ task["ui"].pc = "fill" /\ task["ui"].slot = TableCount + 1
    <3>1. /\ task["ui"].slot \in 1..(TableCount + 1) /\ task["ui"].slot > TableCount
          /\ task["ui"].pc = "fill"
      BY <1>0, <1>9 DEF Filled, TypeOK, TaskOK
    <3> QED BY <1>0, <3>1
  <2>2. task'["ui"].pc = "read"
    BY <1>0, <1>1, <1>9 DEF Filled, Returns, GoesTo
  <2>3. UNCHANGED <<format, tables, ranks, quiet>> /\ Slots' = Slots /\ TableCount' = TableCount
    BY <1>5, <1>9, SameEvent DEF Filled, memVars
  <2>4. TablesRead' = TablesRead
    BY <1>0, <2>1, <2>2, <2>3 DEF TablesRead
  <2>5. MapsAsTables'
    BY <1>0, <2>1, <2>3, <2>4 DEF MapsAsTables
  <2> QED BY <1>5, <1>9, <2>5
<1> QED BY <1>2, <1>3, <1>4, <1>6, <1>7, <1>8, <1>9 DEF Update

LEMMA MapsKept == SheetInv /\ [Next]_vars => LoadedAll' /\ MapsAsTables'
<1> SUFFICES ASSUME SheetInv, [Next]_vars PROVE LoadedAll' /\ MapsAsTables'
  OBVIOUS
<1>0. /\ ExportInv /\ ResultsNested
      /\ Threads = {"ui", "client"} /\ task \in [Threads -> [pc : Pcs, slot : Nat]]
  BY DEF SheetInv, ExportInv, TypeOK, TaskOK, Threads
<1>1. CASE SendRanking
  <2>1. Aside
    BY <1>0, <1>1 DEF Aside, SendRanking, GoesTo, diskVars, memVars
  <2> QED BY <2>1, AsideKeeps
<1>2. CASE Update("ui")
  BY <1>2, DialogReads
<1>3. CASE Update("client")
  <2>1. ~(quiet /\ Updating("ui"))
    BY <1>0, <1>3, OnlyDialogReads
  <2>2. UNCHANGED <<format, tables, loadedAt>> /\ (quiet' => quiet)
    <3>1. CASE Clear("client") \/ ReadParams("client") \/ Fill("client")
      BY <3>1 DEF Clear, ReadParams, Fill, diskVars
    <3>2. CASE UpdateThrows("client") \/ FillDividesByZero("client")
      BY <3>2 DEF UpdateThrows, FillDividesByZero, diskVars, memVars, taskVars
    <3>3. CASE Filled("client")
      BY <3>3 DEF Filled, diskVars, memVars
    <3>4. CASE FillFails("client")
      BY <3>4 DEF FillFails, diskVars, memVars
    <3> QED BY <1>3, <3>1, <3>2, <3>3, <3>4 DEF Update
  <2>3. task'["ui"] = task["ui"]
    <3>1. CASE Clear("client") \/ ReadParams("client") \/ Fill("client")
      BY <1>0, <3>1 DEF Clear, ReadParams, Fill, GoesTo
    <3>2. CASE UpdateThrows("client") \/ FillDividesByZero("client")
      BY <1>0, <3>2 DEF UpdateThrows, FillDividesByZero, taskVars, GoesTo
    <3>3. CASE Filled("client") \/ FillFails("client")
      BY <1>0, <3>3 DEF Filled, FillFails, Returns, GoesTo
    <3> QED BY <1>3, <3>1, <3>2, <3>3 DEF Update
  <2>4. Aside
    BY <2>1, <2>2, <2>3 DEF Aside
  <2> QED BY <2>4, AsideKeeps
<1>4. CASE MapsRace
  BY <1>4, AsideKeeps DEF MapsRace, Aside, diskVars, memVars, taskVars
<1>5. CASE ClickExport
  <2>1. /\ loadedAt' = at /\ UNCHANGED <<format, tables>>
        /\ task'["ui"].pc = "clear"
    BY <1>0, <1>5 DEF ClickExport, GoesTo, diskVars
  <2>2. Slots' = Slots
    BY <2>1, SameEvent
  <2>3. LoadedAll'
    BY <1>0, <2>1, <2>2 DEF LoadedAll, ResultsNested
  <2>4. MapsAsTables'
    BY <2>1 DEF MapsAsTables
  <2> QED BY <2>3, <2>4
<1>6. CASE ReloadFails \/ PasteFails
  BY <1>6, AsideKeeps DEF ReloadFails, PasteFails, Aside, diskVars, memVars, taskVars
<1>7. CASE Paste \/ WriteFails
  <2>1. task'["ui"].pc = "idle"
    BY <1>0, <1>7 DEF Paste, WriteFails, GoesTo
  <2> QED BY <2>1 DEF LoadedAll, MapsAsTables, Updating
<1>8. CASE EnterResult
  <2>1. quiet' => task'["ui"].pc = "idle"
    BY <1>8 DEF EnterResult
  <2> QED BY <2>1 DEF LoadedAll, MapsAsTables, Updating
<1>9. CASE NextSlot
  BY <1>9, AsideKeeps DEF NextSlot, Aside, memVars, taskVars
<1>10. CASE UNCHANGED vars
  BY <1>10, AsideKeeps DEF vars, Aside, diskVars, memVars, taskVars
<1>11. CASE SendsRanking
  <2>1. Aside
    BY <1>0, <1>11 DEF Aside, SendsRanking, GoesTo, diskVars, memVars
  <2> QED BY <2>1, AsideKeeps
<1> QED BY <1>0, <1>1, <1>2, <1>3, <1>4, <1>5, <1>6, <1>7, <1>8, <1>9, <1>10, <1>11
        DEF Next, Export

\* The inductive invariant of the export: what is in the maps while nothing
\* crosses it.
THEOREM SheetInvariant == Spec => []SheetInv
<1>1. SheetInv /\ [Next]_vars => SheetInv'
  BY ExportStep, NestedKept, MapsKept DEF SheetInv
<1> QED BY SheetInit, <1>1, PTL DEF Spec

-----------------------------------------------------------------------------
(* What the export writes                                                   *)

\* The maps an export that nothing crossed has read.
MapsRead ==
    /\ TypeOK /\ ResultsNested
    /\ \A s \in Slots, n \in Nums :
          /\ tables[s][n] # 0 => s <= loadedAt
          /\ ranks[s][n] = IF s \in 1..TableCount THEN tables[s][n] ELSE 0

LEMMA ReadAll ==
    ASSUME SheetInv, quiet, task["ui"].pc = "read"
    PROVE  MapsRead
<1>1. Updating("ui") /\ TablesRead = 1..TableCount
  BY DEF Updating, TablesRead
<1>2. \A s \in Slots :
        ranks[s] = IF s \in 1..TableCount THEN tables[s] ELSE [n \in Nums |-> 0]
  BY <1>1 DEF SheetInv, MapsAsTables
<1>3. \A s \in Slots, n \in Nums : tables[s][n] # 0 => s <= loadedAt
  BY <1>1 DEF SheetInv, LoadedAll
<1> QED BY <1>2, <1>3 DEF MapsRead, SheetInv, ExportInv

\* The numbers the page makes its rows of.
LEMMA EventNumbers ==
    ASSUME MapsRead
    PROVE  /\ format.rounds \in 1..4 /\ format.jumpoffs \in 0..4
           /\ SlotCount = format.rounds + format.jumpoffs
           /\ SlotCount \in 1..8 /\ Slots = 1..SlotCount
           /\ TableCount \in 1..SlotCount
           /\ format.differed \in BOOLEAN /\ format.integrated \in BOOLEAN
           /\ Displayed \in Nat /\ Displayed >= 1
           /\ loadedAt \in 1..SlotCount
BY EventTypes, DisplayedType DEF MapsRead, TypeOK, Slots

\* A competitor with a result is displayed, and has a row.
LEMMA ResultHasRow ==
    ASSUME MapsRead, ~ReadsBeyond, NEW n \in Nums, Results(n) # {}
    PROVE  HasRow(n)
<1>0. /\ Displayed <= SlotCount /\ Slots = 1..SlotCount /\ TableCount \in 1..SlotCount
      /\ SlotCount \in 1..8 /\ Displayed \in Nat /\ Displayed >= 1
  BY EventNumbers DEF ReadsBeyond
<1>1. \A s \in Slots, m \in Nums : ranks[s][m] # 0 => ranks[1][m] # 0
  <2> SUFFICES ASSUME NEW s \in Slots, NEW m \in Nums, ranks[s][m] # 0
               PROVE  ranks[1][m] # 0
    OBVIOUS
  <2>1. tables[s][m] # 0 /\ 1 \in 1..s /\ 1 \in Slots /\ 1 \in 1..TableCount
    BY <1>0 DEF MapsRead
  <2>2. tables[1][m] # 0
    BY <2>1 DEF MapsRead, ResultsNested
  <2> QED BY <2>1, <2>2 DEF MapsRead
<1>2. ranks[1][n] # 0
  <2>1. PICK s \in 1..TableCount : tables[s][n] # 0
    BY DEF Results
  <2>2. s \in Slots /\ 1 \in 1..s /\ 1 \in Slots /\ 1 \in 1..TableCount
    BY <1>0
  <2>3. tables[1][n] # 0
    BY <2>1, <2>2 DEF MapsRead, ResultsNested
  <2> QED BY <2>2, <2>3 DEF MapsRead
<1>3. 1 \in Shown(n)
  BY <1>0, <1>2 DEF Shown, Ranked
<1> QED BY <1>0, <1>1, <1>3, ShownHasRow DEF MapsRead

\* No cell is read beyond a row, so every slot with columns in the sheet is
\* displayed: an export in the middle of the event would ask for more.
LEMMA WrittenDisplayed ==
    ASSUME MapsRead, ~ReadsBeyond, NEW n \in Nums, HasRow(n), Written # {}
    PROVE  Displayed = SlotCount
<1>0. /\ Displayed <= SlotCount /\ Displayed \in Nat /\ Displayed >= 1
      /\ format.rounds \in 1..4 /\ format.jumpoffs \in 0..4
      /\ SlotCount = format.rounds + format.jumpoffs
      /\ Slots = 1..SlotCount /\ SlotCount \in 1..8
  BY EventNumbers DEF ReadsBeyond
<1>1. \A c \in DOMAIN Copied : ~(Copied[c] >= Width(n))
  BY DEF ReadsBeyond
<1>2. CASE format.jumpoffs > 0
  <2>1. PICK c \in Nat : c = 13 + 2 * format.jumpoffs
    BY <1>0
  <2>2. c \in JumpoffCols /\ c # STATUS_COL
    BY <1>0, <1>2, <2>1 DEF JumpoffCols, JUMPOFF_COL, STATUS_COL
  <2>3. c \in DOMAIN Copied /\ Copied[c] = 4 + 2 * SlotCount
    <3>1. c \in DOMAIN Copied /\ Copied[c] = c - 14 + 2 * format.rounds + 5
      BY <2>2 DEF Copied, CopiedFrom, JUMPOFF_COL, COL
    <3>2. \A r, j, q \in Nat : q = 13 + 2 * j => q - 14 + 2 * r + 5 = 4 + 2 * (r + j)
      OBVIOUS
    <3>3. format.rounds \in Nat /\ format.jumpoffs \in Nat
      BY <1>0
    <3>4. c - 14 + 2 * format.rounds + 5 = 4 + 2 * (format.rounds + format.jumpoffs)
      BY <2>1, <3>2, <3>3
    <3> QED BY <1>0, <3>1, <3>4
  <2>4. Width(n) \in Nat /\ Width(n) <= 6 + 2 * Displayed
    BY <1>0, <1>2 DEF Width
  <2>5. ~(4 + 2 * SlotCount >= Width(n))
    BY <1>1, <2>3
  <2> QED BY <1>0, <2>4, <2>5
<1>3. CASE format.jumpoffs = 0 /\ format.rounds = 1
  BY <1>0, <1>3
<1>4. CASE format.jumpoffs = 0 /\ format.rounds = 2
  <2> DEFINE c == ROUND2_COL + 1
  <2>1. c \in Round2Cols /\ c \notin JumpoffCols /\ c # STATUS_COL
    BY <1>0, <1>4 DEF JumpoffCols, JUMPOFF_COL, STATUS_COL, Round2Cols, ROUND2_COL
  <2>2. c \in DOMAIN Copied /\ Copied[c] = c - ROUND2_COL + 2 + COL
    BY <2>1 DEF Copied, CopiedFrom
  <2>3. Copied[c] = 8
    BY <2>2 DEF ROUND2_COL, COL
  <2>4. Displayed = 1 => Width(n) <= 8 /\ Width(n) \in Nat
    BY <1>0, <1>4 DEF Width
  <2>5. ~(8 >= Width(n))
    BY <1>1, <2>2, <2>3
  <2> QED BY <1>0, <1>4, <2>4, <2>5
<1>5. CASE format.jumpoffs = 0 /\ format.rounds > 2
  BY <1>0, <1>5 DEF Written
<1> QED BY <1>0, <1>2, <1>3, <1>4, <1>5

\* So the page displays all there is of a competitor that has a row.
LEMMA ShowsResultsOnly ==
    ASSUME MapsRead, ~ReadsBeyond, NEW n \in Nums, HasRow(n)
    PROVE  Shown(n) = Results(n) /\ Results(n) \subseteq 1..8
<1>0. /\ Displayed <= SlotCount /\ Displayed \in Nat /\ Displayed >= 1
      /\ format.rounds \in 1..4 /\ format.jumpoffs \in 0..4
      /\ SlotCount = format.rounds + format.jumpoffs
      /\ Slots = 1..SlotCount /\ SlotCount \in 1..8 /\ TableCount \in 1..SlotCount
      /\ loadedAt \in 1..SlotCount
  BY EventNumbers DEF ReadsBeyond
<1>1. \A s \in Results(n) : s \in Slots /\ s \in Nat /\ s <= loadedAt
  BY <1>0 DEF Results, MapsRead
<1>2. \A s \in Results(n) : s <= Displayed
  <2>1. CASE Written # {}
    <3>1. Displayed = SlotCount
      BY <2>1, WrittenDisplayed
    <3> QED BY <1>0, <1>1, <3>1
  <2>2. CASE Written = {}
    <3>1. format.jumpoffs = 0 /\ SlotCount = format.rounds
      <4>1. Slots # {}
        BY <1>0
      <4>2. ~(format.rounds <= 2)
        BY <2>2, <4>1 DEF Written
      <4>3. format.jumpoffs > 0 => SlotCount \in Written
        BY <1>0, <4>2 DEF Written
      <4> QED BY <1>0, <2>2, <4>3
    <3>2. Displayed >= loadedAt
      BY <1>0, <3>1 DEF Displayed, Round, Jumpoff
    <3> QED BY <1>0, <1>1, <3>2
  <2> QED BY <2>1, <2>2
<1>3. \A s \in 1..Displayed : s \in Slots /\ (ranks[s][n] # 0 <=> s \in Results(n))
  BY <1>0 DEF Results, MapsRead
<1>4. Shown(n) = {s \in 1..Displayed : s \in Results(n)}
  BY <1>3 DEF Shown, Ranked
<1>5. Results(n) \subseteq 1..Displayed
  BY <1>0, <1>1, <1>2 DEF Results
<1>6. Results(n) \subseteq 1..8
  BY <1>0, <1>1
<1> QED BY <1>4, <1>5, <1>6

\* The two columns of a slot in the sheet are copied from its two in the row.
LEMMA SlotColumns ==
    ASSUME MapsRead, Displayed = SlotCount, NEW s \in Written
    PROVE  /\ s \in Slots /\ ColumnOf(s) \in 9..20
           /\ \A k \in {0, 1} :
                 /\ ColumnOf(s) + k \in SheetCols \cap DOMAIN Copied
                 /\ Copied[ColumnOf(s) + k] = 3 + 2 * s + k
<1>0. /\ format.rounds \in Nat /\ format.rounds \in 1..4
      /\ format.jumpoffs \in Nat /\ format.jumpoffs \in 0..4
      /\ SlotCount = format.rounds + format.jumpoffs /\ Slots = 1..SlotCount
      /\ format.differed \in BOOLEAN
  BY EventNumbers
<1>1. s \in Slots /\ s \in Nat /\ s >= 1 /\ s <= SlotCount
  BY <1>0 DEF Written
<1>2. format.differed => format.jumpoffs = 0
  BY <1>0 DEF Displayed
<1>3. CASE s > format.rounds
  <2>1. \A j, q, p \in Nat : p > q /\ p <= q + j /\ j <= 4 =>
            /\ 14 + 2 * (p - q - 1) \in 14..20
            /\ 14 + 2 * (p - q - 1) + 1 <= 14 + 2 * j - 1
            /\ \A k \in {0, 1} :
                  (14 + 2 * (p - q - 1) + k) - 14 + 2 * q + 5 = 3 + 2 * p + k
    OBVIOUS
  <2>2. PICK c : c = 14 + 2 * (s - format.rounds - 1)
    OBVIOUS
  <2>3. /\ ColumnOf(s) = c /\ c \in 14..20 /\ c + 1 <= 14 + 2 * format.jumpoffs - 1
        /\ \A k \in {0, 1} : (c + k) - 14 + 2 * format.rounds + 5 = 3 + 2 * s + k
    <3>1. ColumnOf(s) = 14 + 2 * (s - format.rounds - 1)
      <4>1. s # 1 /\ ~(s = 2 /\ s <= format.rounds)
        BY <1>0, <1>1, <1>3
      <4> QED BY <1>3, <4>1, Zenon DEF ColumnOf
    <3>2. s > format.rounds /\ s <= format.rounds + format.jumpoffs /\ format.jumpoffs <= 4
      BY <1>0, <1>1, <1>3
    <3>3. /\ 14 + 2 * (s - format.rounds - 1) \in 14..20
          /\ 14 + 2 * (s - format.rounds - 1) + 1 <= 14 + 2 * format.jumpoffs - 1
          /\ \A k \in {0, 1} :
                (14 + 2 * (s - format.rounds - 1) + k) - 14 + 2 * format.rounds + 5 =
                  3 + 2 * s + k
      BY <1>0, <1>1, <2>1, <3>2
    <3> QED BY <2>2, <3>1, <3>3
  <2>4. ASSUME NEW k \in {0, 1}
        PROVE  c + k \in JumpoffCols /\ c + k # STATUS_COL
    <3>1. c \in Nat /\ c >= 14 /\ c + 1 <= 14 + 2 * format.jumpoffs - 1
      BY <2>3
    <3>2. c + k \in Nat /\ c + k >= 14 /\ c + k <= 14 + 2 * format.jumpoffs - 1
      BY <1>0, <3>1
    <3> QED BY <1>0, <3>2 DEF JumpoffCols, JUMPOFF_COL, STATUS_COL
  <2>5. ASSUME NEW k \in {0, 1}
        PROVE  /\ c + k \in SheetCols \cap DOMAIN Copied
               /\ Copied[c + k] = (c + k) - 14 + 2 * format.rounds + 5
    BY <2>4 DEF Copied, CopiedFrom, SheetCols, JumpoffCols, JUMPOFF_COL, COL
  <2> QED BY <1>1, <2>3, <2>5
<1>4. CASE ~(s > format.rounds) /\ s = 1
  <2>1. ColumnOf(s) = 9 /\ format.rounds \in {1, 2}
    BY <1>0, <1>4 DEF ColumnOf, Written
  <2>2. ASSUME NEW k \in {0, 1}
        PROVE  /\ 9 + k \in Round1Cols /\ 9 + k # STATUS_COL
               /\ 9 + k \notin JumpoffCols /\ 9 + k \notin Round2Cols
    BY <1>0, <2>1 DEF Round1Cols, JumpoffCols, Round2Cols, ROUND1_COL, ROUND2_COL,
                      STATUS_COL, JUMPOFF_COL
  <2>3. ASSUME NEW k \in {0, 1}
        PROVE  /\ 9 + k \in SheetCols \cap DOMAIN Copied
               /\ Copied[9 + k] = (9 + k) - 9 + 5
    BY <2>2 DEF Copied, CopiedFrom, SheetCols, ROUND1_COL, COL
  <2> QED BY <1>1, <1>4, <2>1, <2>3
<1>5. CASE ~(s > format.rounds) /\ s # 1
  <2>1. s = 2 /\ format.rounds = 2 /\ ColumnOf(s) = ROUND2_COL
    BY <1>0, <1>1, <1>5 DEF ColumnOf, Written, ROUND2_COL
  <2>2. ROUND2_COL \in {12, 14} /\ (ROUND2_COL = 14 => format.jumpoffs = 0)
    BY <1>2 DEF ROUND2_COL
  <2>3. ASSUME NEW k \in {0, 1}
        PROVE  /\ ROUND2_COL + k \in Round2Cols /\ ROUND2_COL + k # STATUS_COL
               /\ ROUND2_COL + k \notin JumpoffCols
    BY <1>0, <2>1, <2>2 DEF Round2Cols, JumpoffCols, STATUS_COL, JUMPOFF_COL
  <2>4. ASSUME NEW k \in {0, 1}
        PROVE  /\ ROUND2_COL + k \in SheetCols \cap DOMAIN Copied
               /\ Copied[ROUND2_COL + k] = (ROUND2_COL + k) - ROUND2_COL + 2 + 5
    BY <2>3 DEF Copied, CopiedFrom, SheetCols, COL
  <2> QED BY <1>1, <2>1, <2>2, <2>4
<1> QED BY <1>3, <1>4, <1>5

\* A column copied, but for the two of the marks, holds the cell of the row.
LEMMA PastedCell ==
    ASSUME NEW n \in Nums, NEW r, NEW c \in SheetCols \cap DOMAIN Copied,
           c \notin {HC_COL, NONSTARTER_COL}
    PROVE  Pasted(n, r)[c] = PageRow(n)[Copied[c]]
<1> DEFINE from == Copied
           row == [q \in SheetCols |->
                     IF q \in DOMAIN from THEN PageRow(n)[from[q]] ELSE r[q]]
<1>1. row[c] = PageRow(n)[Copied[c]]
  OBVIOUS
<1>2. Pasted(n, r) = Marked(row)
  BY DEF Pasted
<1>3. DOMAIN row = SheetCols
  OBVIOUS
<1> HIDE DEF row
<1> QED BY <1>1, <1>2, <1>3 DEF Marked

\* What slot s shows in the row of a competitor stands at its place in the sheet.
LEMMA SlotPasted ==
    ASSUME MapsRead, ~ReadsBeyond, NEW n \in Nums, HasRow(n), NEW r, NEW s \in Written
    PROVE  \A k \in {0, 1} : Pasted(n, r)[ColumnOf(s) + k] = SlotCell(s, 3 + 2 * s + k, n)
<1>1. Displayed = SlotCount
  BY WrittenDisplayed
<1>2. s \in Nat /\ s >= 1 /\ s <= SlotCount /\ SlotCount \in Nat
  BY <1>1, SlotColumns, EventNumbers
<1> SUFFICES ASSUME NEW k \in {0, 1}
             PROVE  Pasted(n, r)[ColumnOf(s) + k] = SlotCell(s, 3 + 2 * s + k, n)
  OBVIOUS
<1>3. /\ ColumnOf(s) + k \in SheetCols \cap DOMAIN Copied
      /\ Copied[ColumnOf(s) + k] = 3 + 2 * s + k
      /\ ColumnOf(s) + k \notin {HC_COL, NONSTARTER_COL}
  <2>1. ColumnOf(s) \in 9..20
    BY <1>1, SlotColumns
  <2>2. ColumnOf(s) + k \notin {HC_COL, NONSTARTER_COL}
    BY <2>1 DEF HC_COL, NONSTARTER_COL
  <2> QED BY <1>1, <2>2, SlotColumns
<1>4. Pasted(n, r)[ColumnOf(s) + k] = PageRow(n)[3 + 2 * s + k]
  BY <1>3, PastedCell
<1> DEFINE c == 3 + 2 * s + k
<1>5. c \in Nat /\ c >= 5 /\ c < 5 + 2 * SlotCount
  BY <1>2
<1>6. (c - 5) \div 2 + 1 = s
  BY <1>2
<1>7. Width(n) \in Nat /\ Width(n) >= 5 + 2 * SlotCount
  BY <1>1, <1>2 DEF Width
<1> HIDE DEF c
<1>8. c \in 2..(Width(n) - 1)
  BY <1>2, <1>5, <1>7
<1>9. PageRow(n)[c] = SlotCell((c - COL) \div 2 + 1, c, n)
  BY <1>1, <1>2, <1>5, <1>8 DEF PageRow, COL
<1>10. PageRow(n)[c] = SlotCell(s, c, n)
  BY <1>6, <1>9 DEF COL
<1> QED BY <1>4, <1>10 DEF c

\* The values of the cells.
LEMMA SlotShows ==
    ASSUME MapsRead, NEW n \in Nums, Shown(n) = Results(n), NEW s \in Slots
    PROVE  IF s \in Results(n)
           THEN /\ SlotCell(s, 3 + 2 * s, n) =
                     IF tables[s][n] = 1 THEN <<"points", s>> ELSE Empty
                /\ SlotCell(s, 4 + 2 * s, n) =
                     IF tables[s][n] = 1 \/ format.discipline = 3
                     THEN <<"time", s>> ELSE Empty
           ELSE /\ s - 1 \in format.optimum \/ SlotCell(s, 3 + 2 * s, n) = Empty
                /\ SlotCell(s, 4 + 2 * s, n) = Empty
<1>1. s \in Nat
  BY EventNumbers
<1>2. (3 + 2 * s) % 2 = 1 /\ (4 + 2 * s) % 2 = 0
  BY <1>1
<1> DEFINE odd == 3 + 2 * s
           even == 4 + 2 * s
<1>3. odd % 2 = 1 /\ even % 2 = 0
  BY <1>2
<1> HIDE DEF odd, even
<1>4. CASE s \in Results(n)
  <2>1. s \in 1..TableCount /\ ranks[s][n] = tables[s][n] /\ tables[s][n] # 0
    BY <1>4 DEF Results, MapsRead
  <2>2. tables[s][n] \in 1..7
    BY <2>1, ExportAssumption DEF MapsRead, TypeOK, Scores
  <2>3. Eliminated(s, n) <=> tables[s][n] # 1
    BY <2>1, <2>2 DEF Eliminated
  <2>4. SlotCell(s, odd, n) = PointsCell(s, n) /\ SlotCell(s, even, n) = TimeCell(s, n)
    BY <1>3, <1>4 DEF SlotCell
  <2> QED BY <1>4, <2>3, <2>4 DEF PointsCell, TimeCell, odd, even
<1>5. CASE s \notin Results(n)
  <2>1. SlotCell(s, even, n) = Empty
    BY <1>3, <1>5 DEF SlotCell
  <2>2. s - 1 \in format.optimum \/ SlotCell(s, odd, n) = Empty
    BY <1>3, <1>5 DEF SlotCell
  <2> QED BY <1>5, <2>1, <2>2 DEF odd, even
<1> QED BY <1>4, <1>5

\* The status of the sheet is that of the last result, and it is one.
LEMMA StatusPasted ==
    ASSUME MapsRead, ~ReadsBeyond, NEW n \in Nums, HasRow(n), NEW r,
           Shown(n) = Results(n), Results(n) \subseteq 1..8, Results(n) # {}
    PROVE  /\ Pasted(n, r)[STATUS_COL] = <<Labels[Final(n)]>>
           /\ Final(n) \in 1..7
<1>1. Largest(Results(n)) \in Results(n)
  BY LargestSlot
<1>2. /\ ranks[Largest(Results(n))][n] = Final(n)
      /\ Final(n) \in 1..7
  <2> DEFINE l == Largest(Results(n))
  <2>1. l \in 1..TableCount /\ l \in Slots /\ tables[l][n] # 0
    BY <1>1, EventNumbers DEF Results
  <2> HIDE DEF l
  <2>2. ranks[l][n] = tables[l][n] /\ tables[l][n] \in 1..7
    BY <2>1, ExportAssumption DEF MapsRead, TypeOK, Scores
  <2> QED BY <2>2 DEF l, Final
<1>3. Width(n) \in Nat /\ Width(n) > 2
  BY EventNumbers DEF Width
<1>4. PageRow(n)[2] = <<PageLabel(n)>>
  BY <1>3 DEF PageRow
<1>5. PageLabel(n) = Labels[Final(n)]
  BY <1>2 DEF PageLabel
<1>6. /\ STATUS_COL \in SheetCols \cap DOMAIN Copied /\ Copied[STATUS_COL] = 2
      /\ STATUS_COL \notin {HC_COL, NONSTARTER_COL}
  BY DEF Copied, CopiedFrom, SheetCols, STATUS_COL, HC_COL, NONSTARTER_COL
<1>7. Pasted(n, r)[STATUS_COL] = PageRow(n)[2]
  BY <1>6, PastedCell
<1> QED BY <1>2, <1>4, <1>5, <1>7

\* A status of a competitor who did not start or was out of competition is
\* marked.
LEMMA MarksPasted ==
    ASSUME NEW n \in Nums, NEW r, NEW k \in 1..7,
           Pasted(n, r)[STATUS_COL] = <<Labels[k]>>
    PROVE  /\ k \in {2, 3} => Pasted(n, r)[NONSTARTER_COL] = <<"ns">>
           /\ k = 6 => Pasted(n, r)[HC_COL] = <<"hc">>
<1> DEFINE from == Copied
           row == [q \in SheetCols |->
                     IF q \in DOMAIN from THEN PageRow(n)[from[q]] ELSE r[q]]
<1>1. Pasted(n, r) = Marked(row)
  BY DEF Pasted
<1>2. DOMAIN row = SheetCols
  OBVIOUS
<1> HIDE DEF row
<1>3. {STATUS_COL, HC_COL, NONSTARTER_COL} \subseteq SheetCols
  BY DEF SheetCols
<1>4. Marked(row)[STATUS_COL] = row[STATUS_COL]
  BY <1>2, <1>3 DEF Marked, STATUS_COL, HC_COL, NONSTARTER_COL
<1>5. row[STATUS_COL] = <<Labels[k]>>
  BY <1>1, <1>4
<1>6. CASE k \in {2, 3}
  <2>1. row[STATUS_COL] \in {<<"DNS">>, <<"NPR">>}
    BY <1>5, <1>6 DEF Labels
  <2>2. Marked(row) = [row EXCEPT ![NONSTARTER_COL] = <<"ns">>]
    <3>1. row[STATUS_COL] # <<"HC">>
      BY <2>1
    <3> QED BY <2>1, <3>1 DEF Marked
  <2> QED BY <1>1, <1>2, <1>3, <1>6, <2>2
<1>7. CASE k = 6
  <2>1. row[STATUS_COL] = <<"HC">>
    BY <1>5, <1>7 DEF Labels
  <2>2. Marked(row) = [row EXCEPT ![HC_COL] = <<"hc">>]
    <3>1. row[STATUS_COL] \notin {<<"DNS">>, <<"NPR">>}
      BY <2>1
    <3> QED BY <2>1, <3>1 DEF Marked
  <2> QED BY <1>1, <1>2, <1>3, <1>7, <2>2
<1> QED BY <1>6, <1>7

\* The row of the sheet of a competitor who has a result shows it.
LEMMA RowShows ==
    ASSUME MapsRead, ~ReadsBeyond, NEW n \in Nums, Results(n) # {}, NEW r
    PROVE  /\ HasRow(n)
           /\ ShowsResults(n, Pasted(n, r))
           /\ Unplaced(Pasted(n, r)) = Pasted(n, r)
<1>1. HasRow(n)
  BY ResultHasRow
<1>2. Shown(n) = Results(n) /\ Results(n) \subseteq 1..8
  BY <1>1, ShowsResultsOnly
<1> DEFINE row == Pasted(n, r)
<1>3. row[STATUS_COL] = <<Labels[Final(n)]>> /\ Final(n) \in 1..7
  BY <1>1, <1>2, StatusPasted
<1>4. /\ Final(n) \in {2, 3} => row[NONSTARTER_COL] = <<"ns">>
      /\ Final(n) = 6 => row[HC_COL] = <<"hc">>
  BY <1>3, MarksPasted
<1>5. ASSUME NEW s \in Written
      PROVE  /\ s \in Slots
             /\ row[ColumnOf(s)] = SlotCell(s, 3 + 2 * s, n)
             /\ row[ColumnOf(s) + 1] = SlotCell(s, 4 + 2 * s, n)
  <2>1. \A k \in {0, 1} : row[ColumnOf(s) + k] = SlotCell(s, 3 + 2 * s + k, n)
    BY <1>1, SlotPasted
  <2>2. s \in Slots /\ ColumnOf(s) \in 9..20
    BY <1>1, WrittenDisplayed, SlotColumns
  <2>3. s \in Nat
    BY <2>2, EventNumbers
  <2>4. ColumnOf(s) + 0 = ColumnOf(s) /\ 3 + 2 * s + 0 = 3 + 2 * s /\ 3 + 2 * s + 1 = 4 + 2 * s
    BY <2>2, <2>3
  <2>5. row[ColumnOf(s) + 0] = SlotCell(s, 3 + 2 * s + 0, n)
    BY <2>1
  <2>6. row[ColumnOf(s) + 1] = SlotCell(s, 3 + 2 * s + 1, n)
    BY <2>1
  <2> HIDE DEF row
  <2> QED BY <2>2, <2>4, <2>5, <2>6
<1>6. Unplaced(row) = row
  BY <1>3 DEF Unplaced, Empty
<1>7. \A s \in Slots :
           IF s \in Results(n)
           THEN /\ SlotCell(s, 3 + 2 * s, n) =
                     IF tables[s][n] = 1 THEN <<"points", s>> ELSE Empty
                /\ SlotCell(s, 4 + 2 * s, n) =
                     IF tables[s][n] = 1 \/ format.discipline = 3
                     THEN <<"time", s>> ELSE Empty
           ELSE /\ s - 1 \in format.optimum \/ SlotCell(s, 3 + 2 * s, n) = Empty
                /\ SlotCell(s, 4 + 2 * s, n) = Empty
  BY <1>2, SlotShows
<1> HIDE DEF row
<1>8. ShowsResults(n, row)
  BY <1>3, <1>4, <1>5, <1>7 DEF ShowsResults
<1> QED BY <1>1, <1>6, <1>8 DEF row

\* A competitor without one is in no list of the page.
LEMMA NoResultNoRow ==
    ASSUME MapsRead, ~ReadsBeyond, NEW n \in Nums, Results(n) = {}
    PROVE  ~HasRow(n)
<1>1. /\ Displayed <= SlotCount /\ Slots = 1..SlotCount
      /\ SlotCount \in 1..8 /\ Displayed \in Nat
  BY EventNumbers DEF ReadsBeyond
<1>2. \A s \in 1..Displayed : ranks[s][n] = 0
  BY <1>1 DEF MapsRead, Results
<1> QED BY <1>2 DEF HasRow, Shown, Ranked

\* An export that nothing crossed, and that could read every table, writes into
\* the lines of the competitors what the tables say: every competitor with a result
\* has its points and times in the columns of their slots, the status of the last
\* one and its mark, and no other line is changed but for the "DNS" of the check
\* box; for every event, and whatever exports and corrections came before
\* (generateRanking of ranking.html, OnBnClickedBtnExport).  The file not being
\* truncated, a longer sheet may leave text behind these lines.
THEOREM SheetShowsTables == Spec => SheetAsTables
<1> DEFINE Step ==
      quiet /\ Paste =>
          \A n \in Nums :
             IF Results(n) # {} THEN ShowsResults(n, sheet'[n])
             ELSE sheet'[n] \in {sheet[n], Unplaced(sheet[n])}
<1>1. SheetInv => Step
  <2> SUFFICES ASSUME SheetInv, quiet, Paste, NEW n \in Nums
               PROVE  IF Results(n) # {} THEN ShowsResults(n, sheet'[n])
                      ELSE sheet'[n] \in {sheet[n], Unplaced(sheet[n])}
    OBVIOUS
  <2>1. MapsRead
    BY ReadAll DEF Paste
  <2>2. ~ReadsBeyond
    BY DEF Paste
  <2>3. PICK r : /\ r = IF HasRow(n) THEN Pasted(n, sheet[n]) ELSE sheet[n]
                 /\ sheet'[n] \in {r, Unplaced(r)}
    BY DEF Paste
  <2>4. CASE Results(n) # {}
    <3>1. r = Pasted(n, sheet[n]) /\ ShowsResults(n, r) /\ Unplaced(r) = r
      BY <2>1, <2>2, <2>3, <2>4, RowShows
    <3> QED BY <2>3, <2>4, <3>1
  <2>5. CASE Results(n) = {}
    BY <2>1, <2>2, <2>3, <2>5, NoResultNoRow
  <2> QED BY <2>4, <2>5
<1> QED BY <1>1, SheetInvariant, PTL DEF Spec, SheetAsTables
=============================================================================
