--------------------------- MODULE RankingExport ---------------------------
(***************************************************************************)
(* The export of the ranking to the organiser's sheet: UpdateRanking reads *)
(* the result tables into maps that the UI thread (OnBnClickedBtnExport)   *)
(* and the client thread (TI0) share without a lock, the page makes rows   *)
(* of them (generateRanking of ranking.html) and the dialog copies cells   *)
(* of the rows to fixed columns of the sheet.  The event stays loaded: the *)
(* other folder or discipline the user may choose is EquestreDb's.         *)
(*                                                                         *)
(* A slot is a round or a jump-off, in the order of the page: the rounds   *)
(* first.  Of a result only its status is kept; points and times are known *)
(* by the slot they are of.  Columns of rows and sheet are the code's.     *)
(***************************************************************************)
EXTENDS Naturals, Sequences, FiniteSets

CONSTANTS
    Formats,       \* parameters an event may have
    Nums,          \* numbers of the competitors, all in the sheet
    Statuses,      \* C_STATUS of a result: 1 is OK, 2 and more eliminate
    MaxExports,    \* bound on exports
    MaxUpdates,    \* bound on rankings the client thread sends
    MaxResults     \* MaxResults[f]: bound on results entered or corrected

ASSUME ExportAssumption ==
    /\ \A f \in Formats :
          /\ f.discipline \in {0, 2, 3} /\ f.rounds \in 1..4 /\ f.jumpoffs \in 0..4
          /\ f.differed \in BOOLEAN /\ f.integrated \in BOOLEAN
          /\ f.optimum \subseteq 1..(f.rounds + f.jumpoffs)
    /\ Nums \subseteq Nat /\ IsFiniteSet(Nums)
    /\ Statuses \subseteq 1..7
    /\ MaxExports \in Nat /\ MaxUpdates \in Nat /\ MaxResults \in [Formats -> Nat]

VARIABLES
    format,        \* parameters of the event
    at,            \* slot in progress: the ROUND and JUMPOFF parameters
    tables,        \* tables[s][n]: C_STATUS of n in slot s, 0 without a result
    ranks,         \* m_roundRanks and m_jumpoffRanks, by slot
    hasTotal,      \* m_dressageJudgeScoreTotal is not 0
    loadedAt,      \* m_round and m_jumpoff of the last Reload
    task,          \* task[t]: where thread t is, and the slot it reads next
    sheet,         \* sheet[n][c]: cell of the organiser's file
    ragged,        \* a line of the file may lack columns an export uses: one
                   \* of the organiser, or the rest of a longer sheet behind it
    app,           \* the program runs, was ended by an exception, or crashed
    quiet,         \* ghost: nothing crossed the last export, if there was one,
                   \* and every table was read
    exports, updates, results   \* counters of the bounds

diskVars == <<format, at, tables, results>>
memVars  == <<ranks, hasTotal, loadedAt>>
taskVars == <<task, quiet, exports, updates>>
fileVars == <<sheet, ragged>>
vars == <<diskVars, memVars, taskVars, fileVars, app>>

-----------------------------------------------------------------------------
Threads == {"ui", "client"}
Other(t) == CHOOSE u \in Threads : u # t

SlotCount == format.rounds + format.jumpoffs
Slots == 1..SlotCount

\* ROUND and JUMPOFF of Online.scdb while slot s is in progress.
Round(s) == IF s <= format.rounds THEN s ELSE 0
Jumpoff(s) == IF s <= format.rounds THEN 0 ELSE s - format.rounds

\* Tables UpdateRanking reads: cross and dressage have one.
TableCount == IF format.discipline = 0 THEN SlotCount ELSE 1

NoScores == [s \in Slots |-> [n \in Nums |-> 0]]

Labels == <<"OK", "NPR", "DNS", "RET", "DNF", "HC", "Disqual">>

\* Cells: nothing, a label, or the points or the time of a slot.
Empty == <<>>

ROUND1_COL == 9
STATUS_COL == 11
ROUND2_COL == IF format.differed THEN 14 ELSE 12
JUMPOFF_COL == 14
HC_COL == 22
NONSTARTER_COL == 23
COL == 5

\* Columns of the sheet an export may write.
SheetCols ==
    {STATUS_COL, HC_COL, NONSTARTER_COL}
    \cup JUMPOFF_COL..(JUMPOFF_COL + 2 * format.jumpoffs - 1)
    \cup {c + k : c \in {ROUND1_COL, ROUND2_COL}, k \in {0, 1}}

Idle == [pc |-> "idle", slot |-> 0]
Updating(t) == task[t].pc \in {"clear", "params", "fill", "read"}

Init ==
    /\ format \in Formats
    /\ at = 1
    /\ tables = NoScores
    /\ ranks = NoScores /\ hasTotal = FALSE /\ loadedAt = 1
    /\ task = [t \in Threads |-> Idle]
    /\ sheet = [n \in Nums |-> [c \in SheetCols |-> Empty]]
    /\ ragged \in BOOLEAN
    /\ app = "runs" /\ quiet = TRUE
    /\ exports = 0 /\ updates = 0 /\ results = 0

-----------------------------------------------------------------------------
(* UpdateRanking, by either thread                                          *)

GoesTo(t, pc, s) == task' = [task EXCEPT ![t] = [pc |-> pc, slot |-> s]]

\* TI0: SendRankingList by the client thread.
SendRanking ==
    /\ app = "runs" /\ task["client"].pc = "idle"
    /\ updates < MaxUpdates
    /\ updates' = updates + 1
    /\ GoesTo("client", "clear", 0)
    /\ quiet' = (quiet /\ ~Updating("ui"))
    /\ UNCHANGED <<diskVars, memVars, exports, fileVars, app>>

\* The total of the judges is reset and the maps are cleared.
Clear(t) ==
    /\ app = "runs" /\ task[t].pc = "clear"
    /\ hasTotal' = FALSE
    /\ ranks' = NoScores
    /\ GoesTo(t, "params", 0)
    /\ UNCHANGED <<diskVars, loadedAt, quiet, exports, updates, fileVars, app>>

\* The parameters of the event are read; in dressage the total of the judges,
\* which is never 0, is one of them.
ReadParams(t) ==
    /\ app = "runs" /\ task[t].pc = "params"
    /\ hasTotal' = (format.discipline = 3)
    /\ GoesTo(t, "fill", 1)
    /\ UNCHANGED <<diskVars, ranks, loadedAt, quiet, exports, updates,
                   fileVars, app>>

\* A file cannot be opened or a parameter read, outside the try block: nobody
\* catches it on either thread.
UpdateThrows(t) ==
    /\ app = "runs" /\ task[t].pc \in {"clear", "params"}
    /\ IF t = "ui" THEN app' = "ended" /\ UNCHANGED task
                   ELSE GoesTo(t, "dead", 0) /\ UNCHANGED app
    /\ UNCHANGED <<diskVars, memVars, quiet, exports, updates, fileVars>>

\* The percentages of the judges are divided by their total.
Divides(s) == format.discipline = 3 /\ \E n \in Nums : tables[s][n] # 0

\* The next table.
Fill(t) ==
    /\ app = "runs" /\ task[t].pc = "fill" /\ task[t].slot <= TableCount
    /\ Divides(task[t].slot) => hasTotal
    /\ ranks' = [ranks EXCEPT ![task[t].slot] = tables[task[t].slot]]
    /\ GoesTo(t, "fill", task[t].slot + 1)
    /\ UNCHANGED <<diskVars, hasTotal, loadedAt, quiet, exports, updates,
                   fileVars, app>>

\* The other thread reset the total meanwhile: a division by zero.
FillDividesByZero(t) ==
    /\ app = "runs" /\ task[t].pc = "fill" /\ task[t].slot <= TableCount
    /\ Divides(task[t].slot) /\ ~hasTotal
    /\ app' = "crashed"
    /\ UNCHANGED <<diskVars, memVars, taskVars, fileVars>>

\* Mutant of Returns: the count of the tables read is not reset.
ReturnsCounting(t) == task' = [task EXCEPT ![t].pc = "read"]

\* UpdateRanking is over; its caller goes through the maps.
Returns(t) == GoesTo(t, "read", 0)

\* The last table was read.
Filled(t) ==
    /\ app = "runs" /\ task[t].pc = "fill" /\ task[t].slot > TableCount
    /\ Returns(t)
    /\ UNCHANGED <<diskVars, memVars, quiet, exports, updates, fileVars, app>>

\* A table cannot be read: the exception is caught and the rest stay empty.
FillFails(t) ==
    /\ app = "runs" /\ task[t].pc = "fill" /\ task[t].slot <= TableCount
    /\ Returns(t)
    /\ quiet' = (quiet /\ t # "ui")
    /\ UNCHANGED <<diskVars, memVars, exports, updates, fileVars, app>>

\* SendRankingList went through the maps and sent its message.
SendsRanking ==
    /\ app = "runs" /\ task["client"].pc = "read"
    /\ GoesTo("client", "idle", 0)
    /\ UNCHANGED <<diskVars, memVars, quiet, exports, updates, fileVars, app>>

\* A thread changes the maps the other one changes or goes through: undefined,
\* and it may end the program.
MapsRace ==
    /\ app = "runs" /\ Updating("ui") /\ Updating("client")
    /\ \E t \in Threads : task[t].pc # "read"
    /\ app' = "crashed"
    /\ UNCHANGED <<diskVars, memVars, taskVars, fileVars>>

Update(t) ==
    \/ Clear(t) \/ ReadParams(t) \/ UpdateThrows(t)
    \/ Fill(t) \/ FillDividesByZero(t) \/ Filled(t)
    \/ FillFails(t)

-----------------------------------------------------------------------------
(* generateRanking: the rows of the page                                    *)

\* Number of slots the page displays.  The two phases of an integrated event
\* are its round and its first jump-off, whatever is in progress.
Displayed ==
    IF format.differed THEN format.rounds
    ELSE IF format.integrated THEN format.rounds + 1
    ELSE IF Round(loadedAt) # 0 THEN Round(loadedAt)
    ELSE format.rounds + Jumpoff(loadedAt)

\* Those of slot s that have a result, and the slots that show one of n.
Ranked(s) == {n \in Nums : ranks[s][n] # 0}
Shown(n) == {s \in 1..Displayed : n \in Ranked(s)}

Largest(S) == CHOOSE x \in S : \A y \in S : y <= x

\* Mutant of RiderCount: the last slot displayed decides.
RiderCountOfLast == Cardinality(Ranked(Displayed))

\* The page has as many rows as the longest list displayed.
RiderCount == Largest({Cardinality(Ranked(s)) : s \in 1..Displayed})

\* The numbers are collected from the last slot to the first, by number.
Before(m, n) ==
    LET i == Largest(Shown(m)) j == Largest(Shown(n)) IN
    i > j \/ (i = j /\ m < n)

HasRow(n) ==
    /\ Shown(n) # {}
    /\ Cardinality({m \in Nums : Shown(m) # {} /\ Before(m, n)}) < RiderCount

Eliminated(s, n) == ranks[s][n] > 1

\* Every slot writes the label: the last one displayed stays.
PageLabel(n) == Labels[ranks[Largest(Shown(n))][n]]

PointsCell(s, n) == IF Eliminated(s, n) THEN Empty ELSE <<"points", s>>

\* In dressage the time is the percentage, written in any case.
TimeCell(s, n) ==
    IF Eliminated(s, n) /\ format.discipline # 3 THEN Empty ELSE <<"time", s>>

\* A slot of the optimum time writes its difference into the next points.
DiffCell(s, n) == IF Eliminated(s, n) THEN Empty ELSE <<"difference", s>>

\* Columns the row of n has: two by slot displayed, and what is written beyond.
Width(n) ==
    LET d == Displayed IN
    5 + 2 * d + (IF d >= 2 /\ format.jumpoffs = 0 THEN 2
                 ELSE IF \/ Round(loadedAt) > 1 /\ ~format.integrated
                         \/ d \in format.optimum /\ d \in Shown(n)
                 THEN 1 ELSE 0)

\* Column c of the row of n that slot s of the page writes.
SlotCell(s, c, n) ==
    CASE s \in Shown(n) /\ c % 2 = 1 -> PointsCell(s, n)
      [] s \in Shown(n) /\ c % 2 = 0 -> TimeCell(s, n)
      [] s \notin Shown(n) /\ c % 2 = 1 /\ s - 1 \in Shown(n) \cap format.optimum
                              -> DiffCell(s - 1, n)
      [] OTHER -> Empty

\* The row of n, from its label on (the export reads nothing before it); what
\* stands beyond the slots displayed is not read.
PageRow(n) ==
    [c \in 2..(Width(n) - 1) |->
        IF c = 2 THEN <<PageLabel(n)>>
        ELSE IF c < COL THEN Empty
        ELSE IF c < COL + 2 * Displayed THEN SlotCell((c - COL) \div 2 + 1, c, n)
        ELSE <<"total">>]

-----------------------------------------------------------------------------
(* OnBnClickedBtnExport                                                     *)

\* The columns of the sheet the slots are copied to, two by slot.  Three rounds
\* and more are not copied.
JumpoffCols == JUMPOFF_COL..(JUMPOFF_COL + 2 * format.jumpoffs - 1)
Round2Cols == IF format.rounds = 2 THEN ROUND2_COL..(ROUND2_COL + 1) ELSE {}
Round1Cols == IF format.rounds \in {1, 2} THEN ROUND1_COL..(ROUND1_COL + 1) ELSE {}

\* The column of the row that is copied into each column of the sheet, when the
\* slots of a row begin at column first.  Where two meet (a differed event with
\* jump-offs) the one copied last, the jump-off, stays.
CopiedFrom(first) ==
    [c \in {STATUS_COL} \cup JumpoffCols \cup Round2Cols \cup Round1Cols |->
        IF c = STATUS_COL THEN 2
        ELSE IF c \in JumpoffCols THEN c - JUMPOFF_COL + 2 * format.rounds + first
        ELSE IF c \in Round2Cols THEN c - ROUND2_COL + 2 + first
        ELSE c - ROUND1_COL + first]

\* Mutant of Copied: the columns of the row are counted from 1.
CopiedFromOne == CopiedFrom(COL + 1)

Copied == CopiedFrom(COL)

\* The marks are set and never cleared.
Marked(row) ==
    CASE row[STATUS_COL] \in {<<"DNS">>, <<"NPR">>} -> [row EXCEPT ![NONSTARTER_COL] = <<"ns">>]
      [] row[STATUS_COL] = <<"HC">> -> [row EXCEPT ![HC_COL] = <<"hc">>]
      [] OTHER -> row

\* Row r of the sheet after the cells of n were copied.
Pasted(n, r) ==
    LET from == Copied
        row == PageRow(n)
    IN  Marked([c \in SheetCols |-> IF c \in DOMAIN from THEN row[from[c]] ELSE r[c]])

\* "Set DNS(ns) to all with no Status".
Unplaced(r) ==
    IF r[STATUS_COL] = Empty
    THEN [r EXCEPT ![NONSTARTER_COL] = <<"ns">>, ![STATUS_COL] = <<"DNS">>]
    ELSE r

\* The sheet is read, then GetRankingList reloads the database.
ClickExport ==
    /\ app = "runs" /\ task["ui"].pc = "idle"
    /\ exports < MaxExports
    /\ exports' = exports + 1
    /\ loadedAt' = at
    /\ quiet' = ~Updating("client")
    /\ GoesTo("ui", "clear", 0)
    /\ UNCHANGED <<diskVars, ranks, hasTotal, updates, fileVars, app>>

\* Nothing is loaded: the page is given an empty text, and the exception of the
\* parser leaves the handler.
ReloadFails ==
    /\ app = "runs" /\ task["ui"].pc = "idle"
    /\ exports < MaxExports
    /\ app' = "ended"
    /\ UNCHANGED <<diskVars, memVars, taskVars, fileVars>>

\* The page is asked for a slot that is not there, or a cell is read beyond a row.
ReadsBeyond ==
    \/ Displayed > SlotCount
    \/ \E n \in Nums : HasRow(n) /\ \E c \in DOMAIN Copied : Copied[c] >= Width(n)

\* The file is not truncated.  The text of a row may get shorter where a cell
\* had one: the wording of points and times is not modelled, labels and marks
\* are the same as long as they do not change.
Shortens(n, r) ==
    HasRow(n) /\ \E c \in SheetCols :
        /\ sheet[n][c] # Empty
        /\ c \notin {STATUS_COL, HC_COL, NONSTARTER_COL} \/ r[c] # sheet[n][c]

\* The maps are read, the page makes its rows, their cells are copied and the
\* sheet is written.
Paste ==
    /\ app = "runs" /\ task["ui"].pc = "read"
    /\ ~ReadsBeyond
    /\ \E dns \in BOOLEAN :
          sheet' = [n \in Nums |->
                      LET r == IF HasRow(n) THEN Pasted(n, sheet[n]) ELSE sheet[n] IN
                      IF dns THEN Unplaced(r) ELSE r]
    /\ \/ ragged' = ragged
       \/ ragged' = TRUE /\ \E n \in Nums : Shortens(n, sheet'[n])
    /\ GoesTo("ui", "idle", 0)
    /\ UNCHANGED <<diskVars, memVars, quiet, exports, updates, app>>

\* The file cannot be opened to write: a message, and it stays as it is.
WriteFails ==
    /\ app = "runs" /\ task["ui"].pc = "read"
    /\ ~ReadsBeyond
    /\ GoesTo("ui", "idle", 0)
    /\ UNCHANGED <<diskVars, memVars, quiet, exports, updates, fileVars, app>>

\* Nor does anything check that a line of the file has the columns copied to, or
\* those of the check box.
PasteFails ==
    /\ app = "runs" /\ task["ui"].pc = "read"
    /\ ReadsBeyond \/ ragged
    /\ app' = "crashed"
    /\ UNCHANGED <<diskVars, memVars, taskVars, fileVars>>

Export == ClickExport \/ ReloadFails \/ Paste \/ WriteFails \/ PasteFails

-----------------------------------------------------------------------------
(* The competition program, as long as there is a program to read its tables *)

\* A result is entered, of a competitor who has one in every slot before, or
\* corrected.
EnterResult ==
    /\ app = "runs"
    /\ results < MaxResults[format]
    /\ results' = results + 1
    /\ \E s \in 1..at, n \in Nums, r \in Statuses :
          /\ tables[s][n] # r
          /\ tables[s][n] = 0 => s = at /\ \A u \in 1..(s - 1) : tables[u][n] # 0
          /\ tables' = [tables EXCEPT ![s][n] = r]
    /\ quiet' = (quiet /\ task["ui"].pc = "idle")
    /\ UNCHANGED <<format, at, memVars, task, exports, updates, fileVars, app>>

NextSlot ==
    /\ app = "runs"
    /\ at < SlotCount
    /\ at' = at + 1
    /\ UNCHANGED <<format, tables, results, memVars, taskVars, fileVars, app>>

-----------------------------------------------------------------------------
Next ==
    \/ SendRanking
    \/ \E t \in Threads : Update(t)
    \/ SendsRanking \/ MapsRace
    \/ Export
    \/ EnterResult \/ NextSlot

Spec == Init /\ [][Next]_vars

-----------------------------------------------------------------------------
(* Properties                                                               *)

Pcs == {"idle", "clear", "params", "fill", "read", "dead"}

Scores == [Slots -> [Nums -> {0} \cup Statuses]]

\* A thread has a table to read next exactly while it fills the maps.
TaskOK ==
    /\ task \in [Threads -> [pc : Pcs, slot : Nat]]
    /\ \A t \in Threads :
          task[t].slot \in IF task[t].pc = "fill" THEN 1..(TableCount + 1) ELSE {0}

\* Every cell is empty or of one or two words.
SheetOK ==
    \A n \in Nums :
       /\ DOMAIN sheet[n] = SheetCols
       /\ \A c \in SheetCols : DOMAIN sheet[n][c] \subseteq 1..2

\* The variables have their types, the maps hold no slot the event does not
\* have, and the sheet no cell the export does not write.
TypeOK ==
    /\ format \in Formats
    /\ at \in Slots /\ loadedAt \in 1..at
    /\ tables \in Scores /\ ranks \in Scores
    /\ hasTotal \in BOOLEAN /\ ragged \in BOOLEAN /\ quiet \in BOOLEAN
    /\ TaskOK /\ SheetOK
    /\ app \in {"runs", "ended", "crashed"}

\* Slots of which the sheet has columns.
Written == IF format.rounds <= 2 THEN Slots ELSE (format.rounds + 1)..SlotCount

\* First of the two columns of slot s in the sheet.
ColumnOf(s) ==
    CASE s > format.rounds -> 14 + 2 * (s - format.rounds - 1)
      [] s = 1 -> 9
      [] s = 2 /\ s <= format.rounds -> IF format.differed THEN 14 ELSE 12

\* Results of n in the tables, and the one that counts.
Results(n) == {s \in 1..TableCount : tables[s][n] # 0}
Final(n) == tables[Largest(Results(n))][n]

\* What the sheet has to show of n: its results at their place, the status of
\* the last one, and the mark of that status.  The points cell behind a slot
\* without points of its own may hold the difference to the optimum time.
ShowsResults(n, r) ==
    /\ \A s \in Written :
          LET c == ColumnOf(s) IN
          IF s \in Results(n)
          THEN /\ r[c] = IF tables[s][n] = 1 THEN <<"points", s>> ELSE Empty
               /\ r[c + 1] = IF tables[s][n] = 1 \/ format.discipline = 3
                             THEN <<"time", s>> ELSE Empty
          ELSE /\ s - 1 \in format.optimum \/ r[c] = Empty
               /\ r[c + 1] = Empty
    /\ r[STATUS_COL] = <<Labels[Final(n)]>>
    /\ Final(n) \in {2, 3} => r[NONSTARTER_COL] = <<"ns">>
    /\ Final(n) = 6 => r[HC_COL] = <<"hc">>

\* What an export that nothing crossed, and that could read every table, writes
\* into the lines of the competitors is what the tables say, in the columns of
\* the sheet, whatever exports and corrections came before: every competitor with
\* a result has it, and no other line is changed but for the "DNS" of the check
\* box.  Nothing is said of what a longer sheet leaves behind these lines.
SheetAsTables ==
    [][ quiet /\ Paste =>
          \A n \in Nums :
             IF Results(n) # {} THEN ShowsResults(n, sheet'[n])
             ELSE sheet'[n] \in {sheet[n], Unplaced(sheet[n])} ]_vars

\* The program crashes in the maps only if one thread changed them while the
\* other was there.  It crashes over the sheet only if the page displays fewer
\* or more slots than the event has (an export before the last slot asks for
\* cells that no row has), or the file has a line that lacks columns.
CrashHasCause ==
    app = "crashed" =>
        \/ ~quiet
        \/ task["ui"].pc = "read" /\ (Displayed # SlotCount \/ ragged)

\* --- Parts of the inductive invariant behind the theorems of RankingExport_proofs

\* While nothing crosses an export only one thread is in the maps.
QuietAlone == quiet => ~(Updating("ui") /\ Updating("client"))

\* A thread alone in the maps has read the total it divides by.
QuietTotal ==
    quiet /\ format.discipline = 3 =>
        \A t \in Threads : task[t].pc = "fill" => hasTotal

ExportInv == TypeOK /\ QuietAlone /\ QuietTotal /\ CrashHasCause

\* A competitor has a result in a slot only after one in every slot before, and
\* none in a slot that has not begun.
ResultsNested ==
    \A s \in Slots, n \in Nums :
        tables[s][n] # 0 => s <= at /\ \A u \in 1..s : tables[u][n] # 0

\* No slot has begun, for an export that nothing crosses, since its Reload.
LoadedAll ==
    quiet /\ Updating("ui") =>
        \A s \in Slots, n \in Nums : tables[s][n] # 0 => s <= loadedAt

\* The tables the dialog's UpdateRanking has read.
TablesRead ==
    IF task["ui"].pc = "fill" THEN 1..(task["ui"].slot - 1)
    ELSE IF task["ui"].pc = "read" THEN 1..TableCount
    ELSE {}

\* The maps hold what these tables hold, and nothing else.
MapsAsTables ==
    quiet /\ task["ui"].pc \in {"params", "fill", "read"} =>
        \A s \in Slots :
            ranks[s] = IF s \in TablesRead THEN tables[s] ELSE [n \in Nums |-> 0]

SheetInv == ExportInv /\ ResultsNested /\ LoadedAll /\ MapsAsTables
=============================================================================
