------------------------- MODULE ExcelReport_proofs -------------------------
(***************************************************************************)
(* For every set of specs and every size of a sheet: the audit tells the   *)
(* truth about errors, but for guarded divisions by a literal 0, and one   *)
(* rewrite of what it asks for is enough.                                  *)
(*                                                                         *)
(* What has a value has the one that Excel shows: that follows from        *)
(* contents and divisors alone, which Excel's save leaves as they are; the *)
(* tools save no values; and an edit is followed by Excel's save.  What an *)
(* audit flags is either in its report or kept back for a reason that a    *)
(* rewrite does not take away.                                             *)
(***************************************************************************)
EXTENDS ExcelReport, TLAPS

Divisors == Places \cup Literals
Contents == Int \cup {Header, Text, Formula, None}
Cell     == [content : Contents, by : Divisors, cached : {None, Error, Text, 1, -1}]
Cells    == [Places -> Cell]
Sheets   == [name : STRING, cells : Cells]

\* The values of a sheet are those that Excel would show, or absent.
NoneStale(cells) ==
  \A p \in Formulas(cells) : cells[p].cached \in {None, Shown(cells, p)}

\* No cell has a value.
Unsaved(cells) == \A p \in Places : cells[p].cached = None

\* The inductive invariant.
IInv ==
  /\ \A i \in DOMAIN file : file[i] \in Sheets
  /\ \A i \in DOMAIN file : NoneStale(file[i].cells)

\* After an audit without errors: what is flagged in a sheet was reported and has not
\* been rewritten, or the sheet is one whose candidates do not count.
Stands(i) ==
  \/ \A p \in Flagged(file[i].cells) : <<i, p>> \in report.candidates \ fixed
  \/ file[i].name = "chart"
  \/ /\ file[i].name = "raw" /\ Formulas(file[i].cells) = {}
     /\ \A p \in Places : <<i, p>> \notin report.candidates

ReportStands ==
  report # None /\ report.overall # "FAIL" => \A i \in DOMAIN file : Stands(i)

-----------------------------------------------------------------------------
(* What is done to the cells of a sheet.                                   *)

\* A cell without a value is not stale.
LEMMA UnsavedIsNotStale ==
  ASSUME NEW cells, Unsaved(cells)
  PROVE  NoneStale(cells)
BY DEF Unsaved, NoneStale, Formulas

LEMMA LiteralsDiffer ==
  /\ Bracketed # NoPlace /\ Zero # NoPlace
  /\ Guarded \notin {NoPlace, Zero, Bracketed}
BY DEF NoPlace, Zero, Bracketed, Guarded

\* A formula shows a number's sign, an error or an empty text.
LEMMA ShownType ==
  ASSUME NEW cells, NEW p, cells[p].content = Formula
  PROVE  Shown(cells, p) \in {Error, Text, 1, -1}
BY DEF Shown, Sign

\* What is shown depends on contents and divisors only.
LEMMA ShownAgrees ==
  ASSUME NEW a \in Cells, NEW b \in Cells, NEW p \in Places,
         \A q \in Places : a[q].content = b[q].content /\ a[q].by = b[q].by
  PROVE  Shown(a, p) = Shown(b, p)
<1>1. CASE a[p].by \in Places
  BY <1>1 DEF Shown
<1>2. CASE a[p].by \in Literals
  BY <1>2 DEF Shown, Literals
<1>3. a[p].by \in Divisors
  BY DEF Cells, Cell
<1> QED BY <1>1, <1>2, <1>3 DEF Divisors

\* Excel's save: every formula has the value that is shown.
LEMMA RecalculatedCells ==
  ASSUME NEW cells \in Cells
  PROVE  Recalculated(cells) \in Cells /\ NoneStale(Recalculated(cells))
<1> DEFINE new == Recalculated(cells)
<1>1. \A p \in Places :
        new[p] = IF cells[p].content = Formula
                   THEN [cells[p] EXCEPT !.cached = Shown(cells, p)] ELSE cells[p]
  BY DEF Recalculated
<1>2. ASSUME NEW p \in Places PROVE new[p] \in Cell
  <2>1. cells[p] \in Cell
    BY DEF Cells
  <2>2. CASE cells[p].content = Formula
    <3>1. Shown(cells, p) \in {None, Error, Text, 1, -1}
      BY <2>2, ShownType
    <3>2. new[p] = [cells[p] EXCEPT !.cached = Shown(cells, p)]
      BY <1>1, <2>2
    <3> HIDE DEF new
    <3> QED BY <2>1, <3>1, <3>2 DEF Cell
  <2>3. CASE cells[p].content # Formula
    BY <1>1, <2>1, <2>3
  <2> QED BY <2>2, <2>3
<1>3. new \in Cells
  BY <1>2 DEF Cells, Recalculated
<1>4. \A q \in Places : new[q].content = cells[q].content /\ new[q].by = cells[q].by
  BY <1>1 DEF Cells, Cell
<1>5. ASSUME NEW p \in Formulas(new)
      PROVE  new[p].cached = Shown(new, p)
  <2>1. p \in Places /\ cells[p].content = Formula
    BY <1>4 DEF Formulas
  <2>2. new[p].cached = Shown(cells, p)
    BY <1>1, <2>1 DEF Cells, Cell
  <2>3. Shown(new, p) = Shown(cells, p)
    BY <1>3, <1>4, <2>1, ShownAgrees
  <2> QED BY <2>2, <2>3
<1> QED BY <1>3, <1>5 DEF NoneStale

\* openpyxl's save: no value is left.
LEMMA SavedCells ==
  ASSUME NEW cells \in Cells
  PROVE  SavedByTool(cells) \in Cells /\ NoneStale(SavedByTool(cells))
<1>1. SavedByTool(cells) \in Cells
  BY DEF SavedByTool, Cells, Cell
<1>2. Unsaved(SavedByTool(cells))
  BY DEF SavedByTool, Cells, Cell, Unsaved
<1> QED BY <1>1, <1>2, UnsavedIsNotStale

LEMMA StaticType ==
  ASSUME NEW x \in Contents
  PROVE  Static(x) \in Cell /\ Static(x).cached = None
BY DEF Static, Cell, Divisors, Literals

LEMMA ComputedType ==
  ASSUME NEW d \in Divisors
  PROVE  Computed(d) \in Cell /\ Computed(d).cached = None
BY DEF Computed, Cell, Contents

\* Headers, rows and formulas of a spec are cells without values.
LEMMA TableCells ==
  ASSUME NEW s \in SheetSpec
  PROVE  Table(s) \in Cells /\ Unsaved(Table(s))
<1> SUFFICES ASSUME NEW p \in Places
             PROVE  Table(s)[p] \in Cell /\ Table(s)[p].cached = None
  BY DEF Table, Cells, Unsaved
<1>1. CASE \E f \in s.formulas : f.cell = p
  <2> DEFINE f == CHOOSE g \in s.formulas : g.cell = p
  <2>1. f \in s.formulas
    BY <1>1
  <2>2. f.by \in Divisors
    BY <2>1 DEF SheetSpec, Divisors
  <2>3. Table(s)[p] = Computed(f.by)
    BY <1>1 DEF Table
  <2> QED BY <2>2, <2>3, ComputedType
<1>2. CASE /\ ~\E f \in s.formulas : f.cell = p
           /\ p[1] - FirstDataRow + 1 \in DOMAIN s.rows
           /\ s.rows[p[1] - FirstDataRow + 1][p[2]] # None
  <2> DEFINE i == p[1] - FirstDataRow + 1
  <2>1. s.rows[i] \in [1..MaxCol -> Int \cup {Text, None}]
    <3>1. s.rows \in Seq([1..MaxCol -> Int \cup {Text, None}])
      BY DEF SheetSpec
    <3> HIDE DEF i
    <3>2. i \in DOMAIN s.rows
      BY <1>2 DEF i
    <3> QED BY <3>1, <3>2
  <2>2. p[2] \in 1..MaxCol
    BY DEF Places
  <2>3. s.rows[i][p[2]] \in Contents
    BY <2>1, <2>2 DEF Contents
  <2>4. Table(s)[p] = Static(s.rows[i][p[2]])
    BY <1>2 DEF Table
  <2> QED BY <2>3, <2>4, StaticType
<1>3. CASE /\ ~\E f \in s.formulas : f.cell = p
           /\ ~(/\ p[1] - FirstDataRow + 1 \in DOMAIN s.rows
                /\ s.rows[p[1] - FirstDataRow + 1][p[2]] # None)
  <2>1. Table(s)[p] \in {Static(Header), Static(None)}
    BY <1>3 DEF Table, Blank
  <2>2. Header \in Contents /\ None \in Contents
    BY DEF Contents
  <2> QED BY <2>1, <2>2, StaticType
<1> QED BY <1>1, <1>2, <1>3

\* The title moves cells, and adds one.
LEMMA TitledCells ==
  ASSUME NEW cells \in Cells, Unsaved(cells)
  PROVE  Titled(cells) \in Cells /\ Unsaved(Titled(cells))
<1> SUFFICES ASSUME NEW p \in Places
             PROVE  Titled(cells)[p] \in Cell /\ Titled(cells)[p].cached = None
  BY DEF Titled, Cells, Unsaved
<1>1. CASE p[1] = 1
  <2>1. Titled(cells)[p] \in {Static(Text), Static(None)}
    BY <1>1 DEF Titled, Blank
  <2>2. Text \in Contents /\ None \in Contents
    BY DEF Contents
  <2> QED BY <2>1, <2>2, StaticType
<1>2. CASE p[1] # 1
  <2>1. p # <<1, 1>>
    BY <1>2
  <2>2. Titled(cells)[p] = cells[<<p[1] - 1, p[2]>>]
    BY <1>2, <2>1 DEF Titled
  <2>3. <<p[1] - 1, p[2]>> \in Places
    BY <1>2, SpecAssumption DEF Places
  <2> QED BY <2>2, <2>3 DEF Cells, Unsaved
<1> QED BY <1>1, <1>2

\* excel_build writes cells, and no values.
LEMMA BuiltSheet ==
  ASSUME NEW s \in SheetSpec
  PROVE  BuildSheet(s) \in Sheets /\ NoneStale(BuildSheet(s).cells)
<1> DEFINE cells == IF s.title THEN Titled(Table(s)) ELSE Table(s)
           new == IF s.summary = NoPlace THEN cells
                  ELSE [cells EXCEPT ![s.summary] = Static(Text)]
<1>1. cells \in Cells /\ Unsaved(cells)
  BY TableCells, TitledCells
<1>2. Text \in Contents
  BY DEF Contents
<1>3. new \in Cells /\ Unsaved(new)
  <2> HIDE DEF cells
  <2>1. Static(Text) \in Cell /\ Static(Text).cached = None
    BY <1>2, StaticType
  <2> QED BY <1>1, <2>1 DEF Cells, Unsaved
<1>4. BuildSheet(s) = [name |-> s.name, cells |-> new]
  BY DEF BuildSheet
<1>5. s.name \in STRING
  BY DEF SheetSpec
<1> HIDE DEF new
<1> QED BY <1>3, <1>4, <1>5, UnsavedIsNotStale DEF Sheets

-----------------------------------------------------------------------------
(* The steps.                                                              *)

\* What replaces the cells of every sheet by good ones keeps the invariant.
LEMMA EachSheet ==
  ASSUME IInv, NEW new,
         file' = [i \in DOMAIN file |-> [file[i] EXCEPT !.cells = new[i]]],
         \A i \in DOMAIN file : new[i] \in Cells /\ NoneStale(new[i])
  PROVE  IInv'
<1>1. DOMAIN file' = DOMAIN file
  OBVIOUS
<1> SUFFICES ASSUME NEW i \in DOMAIN file
             PROVE  file'[i] \in Sheets /\ NoneStale(file'[i].cells)
  BY <1>1 DEF IInv
<1>2. file[i] \in Sheets
  BY DEF IInv
<1>3. file'[i] = [file[i] EXCEPT !.cells = new[i]]
  OBVIOUS
<1>4. file'[i] \in Sheets /\ file'[i].cells = new[i]
  BY <1>2, <1>3 DEF Sheets
<1> QED BY <1>4

LEMMA SheetCells ==
  ASSUME IInv, NEW i \in DOMAIN file
  PROVE  file[i].cells \in Cells
BY DEF IInv, Sheets

LEMMA BuildStep == ASSUME IInv, Build PROVE IInv'
<1>1. PICK s \in Specs : file' = [i \in DOMAIN s |-> BuildSheet(s[i])]
  BY DEF Build
<1>2. \A i \in DOMAIN s : s[i] \in SheetSpec
  BY SpecAssumption
<1>3. DOMAIN file' = DOMAIN s /\ \A i \in DOMAIN s : file'[i] = BuildSheet(s[i])
  BY <1>1
<1> QED BY <1>2, <1>3, BuiltSheet DEF IInv

LEMMA AddChartsStep == ASSUME IInv, AddCharts PROVE IInv'
<1> DEFINE new == [i \in DOMAIN file |-> SavedByTool(file[i].cells)]
<1>1. file' = [i \in DOMAIN file |-> [file[i] EXCEPT !.cells = new[i]]]
  BY DEF AddCharts
<1>2. \A i \in DOMAIN file : new[i] \in Cells /\ NoneStale(new[i])
  BY SheetCells, SavedCells
<1> HIDE DEF new
<1> QED BY <1>1, <1>2, EachSheet

LEMMA RewriteStep == ASSUME IInv, Rewrite PROVE IInv'
<1>1. PICK places \in SUBSET (report.candidates \ fixed) \ {{}}, d \in Literals :
        file' = [i \in DOMAIN file |->
                   [file[i] EXCEPT !.cells =
                      SavedByTool([p \in Places |-> IF <<i, p>> \in places
                                                      THEN Computed(d) ELSE @[p]])]]
  BY Zenon DEF Rewrite
<1> DEFINE cells == [i \in DOMAIN file |->
                       [p \in Places |-> IF <<i, p>> \in places
                                           THEN Computed(d) ELSE file[i].cells[p]]]
           new == [i \in DOMAIN file |-> SavedByTool(cells[i])]
<1>2. file' = [i \in DOMAIN file |-> [file[i] EXCEPT !.cells = new[i]]]
  BY <1>1
<1>3. Computed(d) \in Cell
  BY ComputedType DEF Divisors, Literals
<1>4. \A i \in DOMAIN file : cells[i] \in Cells
  BY <1>3, SheetCells DEF Cells
<1>5. \A i \in DOMAIN file : new[i] \in Cells /\ NoneStale(new[i])
  <2> HIDE DEF cells
  <2> QED BY <1>4, SavedCells
<1> HIDE DEF new
<1> QED BY <1>2, <1>5, EachSheet

LEMMA RecalculateStep == ASSUME IInv, Recalculate PROVE IInv'
<1> DEFINE new == [i \in DOMAIN file |-> Recalculated(file[i].cells)]
<1>1. file' = [i \in DOMAIN file |-> [file[i] EXCEPT !.cells = new[i]]]
  BY DEF Recalculate
<1>2. \A i \in DOMAIN file : new[i] \in Cells /\ NoneStale(new[i])
  BY SheetCells, RecalculatedCells
<1> HIDE DEF new
<1> QED BY <1>1, <1>2, EachSheet

LEMMA EditStep == ASSUME IInv, Edit PROVE IInv'
<1>1. PICK i \in DOMAIN file, n \in Numbers :
        \E p \in {q \in Statics(file[i].cells) : file[i].cells[q].content \notin {Header, Text, n}} :
          file' = [j \in DOMAIN file |->
                     [file[j] EXCEPT !.cells =
                        Recalculated(IF i = j THEN [@ EXCEPT ![p] = Static(n)] ELSE @)]]
  BY Zenon DEF Edit
<1>2. PICK p :
        file' = [j \in DOMAIN file |->
                   [file[j] EXCEPT !.cells =
                      Recalculated(IF i = j THEN [@ EXCEPT ![p] = Static(n)] ELSE @)]]
  BY <1>1, Zenon
<1> DEFINE cells == [j \in DOMAIN file |->
                       IF i = j THEN [file[j].cells EXCEPT ![p] = Static(n)]
                                ELSE file[j].cells]
           new == [j \in DOMAIN file |-> Recalculated(cells[j])]
<1>3. file' = [j \in DOMAIN file |-> [file[j] EXCEPT !.cells = new[j]]]
  BY <1>2
<1>4. Static(n) \in Cell
  BY SpecAssumption, StaticType DEF Contents
<1>5. \A j \in DOMAIN file : cells[j] \in Cells
  BY <1>4, SheetCells DEF Cells
<1>6. \A j \in DOMAIN file : new[j] \in Cells /\ NoneStale(new[j])
  <2> HIDE DEF cells
  <2> QED BY <1>5, RecalculatedCells
<1> HIDE DEF new
<1> QED BY <1>3, <1>6, EachSheet

\* An audit, a summary and a stutter leave the file alone.
LEMMA FileUnchanged == ASSUME IInv, UNCHANGED file PROVE IInv'
BY DEF IInv, NoneStale, Formulas, Shown

LEMMA InitIInv == Init => IInv
BY DEF Init, IInv

LEMMA NextIInv == IInv /\ [Next]_vars => IInv'
<1> SUFFICES ASSUME IInv, [Next]_vars PROVE IInv'
  OBVIOUS
<1>1. CASE Build
  BY <1>1, BuildStep
<1>2. CASE AddCharts
  BY <1>2, AddChartsStep
<1>3. CASE Summarise
  BY <1>3, FileUnchanged DEF Summarise
<1>4. CASE Audit
  BY <1>4, FileUnchanged DEF Audit
<1>5. CASE Rewrite
  BY <1>5, RewriteStep
<1>6. CASE Recalculate
  BY <1>6, RecalculateStep
<1>7. CASE Edit
  BY <1>7, EditStep
<1>8. CASE UNCHANGED vars
  BY <1>8, FileUnchanged DEF vars
<1> QED BY <1>1, <1>2, <1>3, <1>4, <1>5, <1>6, <1>7, <1>8 DEF Next

-----------------------------------------------------------------------------
(* The audit.                                                              *)

LEMMA ErrorIsNoContent ==
  Error \notin Contents
BY SpecAssumption DEF Contents

\* The audit's errors are shown, but for guarded divisions, and what is shown as an error
\* is found if everything has a value.
LEMMA ErrorsShow ==
  ASSUME NEW cells \in Cells, NoneStale(cells)
  PROVE  /\ \A p \in Errors(cells) : Shown(cells, p) = Error \/ cells[p].by = Guarded
         /\ (\A q \in Formulas(cells) : cells[q].cached # None) =>
              \A p \in Places : Shown(cells, p) = Error => p \in Errors(cells)
<1>1. ASSUME NEW p \in Errors(cells), cells[p].by # Guarded PROVE Shown(cells, p) = Error
  <2>1. p \in Formulas(cells) /\ cells[p].content = Formula
    BY <1>1 DEF Errors, Formulas
  <2>2. CASE cells[p].by = Zero
    BY <2>1, <2>2, LiteralsDiffer DEF Shown
  <2>3. CASE cells[p].cached = Error
    BY <2>1, <2>3, SpecAssumption DEF NoneStale
  <2>4. QED BY <1>1, <2>2, <2>3 DEF Errors, DividesByZero
<1>2. ASSUME NEW p \in Places, Shown(cells, p) = Error,
             \A q \in Formulas(cells) : cells[q].cached # None
      PROVE  p \in Errors(cells)
  <2>1. cells[p].content \in Contents
    BY DEF Cells, Cell
  <2>2. cells[p].content = Formula
    BY <1>2, <2>1, ErrorIsNoContent DEF Shown
  <2>3. p \in Formulas(cells)
    BY <2>2 DEF Formulas
  <2>4. QED BY <1>2, <2>3 DEF NoneStale, Errors
<1>3. QED BY <1>1, <1>2

\* An error decides the verdict of its sheet.
LEMMA VerdictIs ==
  ASSUME NEW sheet
  PROVE  /\ Verdict(sheet) = "has_errors" <=> Errors(sheet.cells) # {}
         /\ Verdict(sheet) \in {"review_calc", "review_generic"} =>
              /\ sheet.name # "chart"
              /\ ~(sheet.name = "raw" /\ Formulas(sheet.cells) = {})
         /\ \/ Verdict(sheet) \in {"has_errors", "review_calc", "review_generic"}
            \/ sheet.name = "chart"
            \/ sheet.name = "raw" /\ Formulas(sheet.cells) = {}
            \/ Flagged(sheet.cells) = {}
BY DEF Verdict

\* Only an audit reports something new.
LEMMA NewReport ==
  ASSUME [Next]_vars, report' # report, report' # None PROVE Audit
BY DEF Next, vars, Build, AddCharts, Summarise, Rewrite, Recalculate, Edit

\* The audit fails only for errors that Excel shows and for guarded divisions by a
\* literal 0, and for every error of a workbook that Excel has computed.
THEOREM AuditTellsTheTruth == Spec => AuditIsRight
<1>1. ASSUME IInv, [Next]_vars, report' # report, report' # None
      PROVE  /\ report'.overall = "FAIL" => ShowsError \/ Has(Guarded)
             /\ report'.overall # "FAIL" /\ Fresh => ~ShowsError
  <2>1. report'.overall = Overall
    BY <1>1, NewReport DEF Audit
  <2>2. Overall = "FAIL" <=> \E i \in DOMAIN file : Errors(file[i].cells) # {}
    BY VerdictIs DEF Overall
  <2>3. \A i \in DOMAIN file : file[i].cells \in Cells /\ NoneStale(file[i].cells)
    BY <1>1, SheetCells DEF IInv
  <2>4. ASSUME NEW i \in DOMAIN file, NEW p \in Errors(file[i].cells)
        PROVE  ShowsError \/ Has(Guarded)
    <3>1. p \in Places /\ p \in Formulas(file[i].cells)
      BY <2>4 DEF Errors, Formulas
    <3>2. Shown(file[i].cells, p) = Error \/ file[i].cells[p].by = Guarded
      BY <2>3, <2>4, ErrorsShow
    <3>3. QED BY <3>1, <3>2 DEF ShowsError, Has
  <2>5. ASSUME Fresh, ShowsError
        PROVE  \E i \in DOMAIN file : Errors(file[i].cells) # {}
    BY <2>3, <2>5, ErrorsShow DEF Fresh, ShowsError
  <2>6. QED BY <2>1, <2>2, <2>4, <2>5
<1>2. IInv /\ [Next]_vars =>
        [report' # report /\ report' # None =>
           /\ report'.overall = "FAIL" => ShowsError \/ Has(Guarded)
           /\ report'.overall # "FAIL" /\ Fresh => ~ShowsError]_vars
  BY <1>1
<1>3. QED BY InitIInv, NextIInv, <1>2, PTL DEF Spec, AuditIsRight

-----------------------------------------------------------------------------
(* The rewrite.                                                            *)

\* What is flagged follows from contents alone.
LEMMA FlagsAgree ==
  ASSUME NEW a, NEW b, \A q \in Places : a[q].content = b[q].content
  PROVE  Formulas(a) = Formulas(b) /\ Flagged(a) = Flagged(b)
<1>1. Formulas(a) = Formulas(b) /\ Statics(a) = Statics(b)
  BY DEF Formulas, Statics
<1>2. Large(a) = Large(b)
  BY <1>1 DEF Large, Statics
<1>3. QED BY <1>1, <1>2 DEF Flagged

\* The cells b are the cells a with formulas written over the places P.
Rewritten(a, b, P) ==
  \A q \in Places : b[q].content = IF q \in P THEN Formula ELSE a[q].content

\* More formulas, less that is flagged.
LEMMA FlagsShrink ==
  ASSUME NEW a, NEW b, NEW P, Rewritten(a, b, P)
  PROVE  Flagged(b) \subseteq Flagged(a) \ P
<1>1. Statics(b) \subseteq Statics(a) \ P /\ Formulas(a) \subseteq Formulas(b)
  BY DEF Statics, Formulas, Rewritten
<1>2. Large(b) \subseteq Large(a) \ P
  <2>1. Large(b) \subseteq Statics(b) /\ Large(a) \subseteq Statics(a)
    BY DEF Large
  <2>2. ASSUME NEW q \in Large(b) PROVE q \in Large(a) \ P
    <3>1. q \in Statics(a) /\ q \notin P /\ q \in Places
      BY <1>1, <2>1 DEF Statics
    <3>2. b[q].content = a[q].content
      BY <3>1 DEF Rewritten
    <3>3. QED BY <3>1, <3>2 DEF Large
  <2>3. QED BY <2>2
<1>3. \A p : Near(p, Formulas(a)) => Near(p, Formulas(b))
  BY <1>1 DEF Near
<1>4. QED BY <1>2, <1>3 DEF Flagged

\* Saves leave contents alone.
LEMMA SavesKeep ==
  ASSUME NEW cells \in Cells, NEW p \in Places
  PROVE  /\ SavedByTool(cells)[p].content = cells[p].content
         /\ Recalculated(cells)[p].content = cells[p].content
BY DEF SavedByTool, Recalculated, Cells, Cell

\* A step that keeps what is flagged, and what was reported.
LEMMA StandsKept ==
  ASSUME IInv, ReportStands, UNCHANGED <<report, fixed>>,
         DOMAIN file' = DOMAIN file,
         \A i \in DOMAIN file :
           /\ file'[i].name = file[i].name
           /\ \A p \in Places : file'[i].cells[p].content = file[i].cells[p].content
  PROVE  ReportStands'
<1>1. \A i \in DOMAIN file : /\ Formulas(file'[i].cells) = Formulas(file[i].cells)
                             /\ Flagged(file'[i].cells) = Flagged(file[i].cells)
  BY FlagsAgree
<1>2. QED BY <1>1 DEF ReportStands, Stands

LEMMA CellsReplaced ==
  ASSUME IInv, NEW new,
         file' = [i \in DOMAIN file |-> [file[i] EXCEPT !.cells = new[i]]]
  PROVE  /\ DOMAIN file' = DOMAIN file
         /\ \A i \in DOMAIN file : file'[i].name = file[i].name /\ file'[i].cells = new[i]
BY DEF IInv, Sheets

LEMMA AuditStands ==
  ASSUME Audit PROVE ReportStands'
<1>1. PICK w : /\ w = report' /\ w.overall = Overall /\ w.candidates = Candidates
               /\ fixed' = {} /\ UNCHANGED file
  BY DEF Audit
<1>2. ASSUME Overall # "FAIL", NEW i \in DOMAIN file
      PROVE  Stands(i)'
  <2>1. Verdict(file[i]) # "has_errors"
    BY <1>2 DEF Overall
  <2>2. \A p : <<i, p>> \in Candidates <=>
          /\ Verdict(file[i]) \in {"review_calc", "review_generic"}
          /\ p \in Flagged(file[i].cells)
    BY DEF Candidates
  <2>3. CASE Verdict(file[i]) \in {"review_calc", "review_generic"}
    BY <1>1, <2>2, <2>3 DEF Stands
  <2>4. CASE Verdict(file[i]) \notin {"review_calc", "review_generic"}
    <3>1. \A p \in Places : <<i, p>> \notin Candidates
      BY <2>2, <2>4
    <3>2. \/ file[i].name = "chart"
          \/ file[i].name = "raw" /\ Formulas(file[i].cells) = {}
          \/ Flagged(file[i].cells) = {}
      BY <2>1, <2>4, VerdictIs
    <3>3. QED BY <1>1, <3>1, <3>2 DEF Stands
  <2>5. QED BY <2>3, <2>4
<1>3. QED BY <1>1, <1>2 DEF ReportStands

LEMMA RewriteStands ==
  ASSUME IInv, ReportStands, Rewrite PROVE ReportStands'
<1>1. PICK places \in SUBSET (report.candidates \ fixed) \ {{}}, d \in Literals :
        /\ file' = [i \in DOMAIN file |->
                      [file[i] EXCEPT !.cells =
                         SavedByTool([p \in Places |-> IF <<i, p>> \in places
                                                         THEN Computed(d) ELSE @[p]])]]
        /\ fixed' = fixed \cup places
  BY Zenon DEF Rewrite
<1> DEFINE cells == [i \in DOMAIN file |->
                       [p \in Places |-> IF <<i, p>> \in places
                                           THEN Computed(d) ELSE file[i].cells[p]]]
           new == [i \in DOMAIN file |-> SavedByTool(cells[i])]
<1>2. file' = [i \in DOMAIN file |-> [file[i] EXCEPT !.cells = new[i]]]
  BY <1>1
<1>3. UNCHANGED report
  BY DEF Rewrite
<1>4. \A i \in DOMAIN file : \A p \in Places :
        new[i][p].content = IF <<i, p>> \in places THEN Formula ELSE file[i].cells[p].content
  <2>1. Computed(d) \in Cell /\ Computed(d).content = Formula
    BY ComputedType DEF Divisors, Literals, Computed
  <2>2. \A i \in DOMAIN file : cells[i] \in Cells
    BY <2>1, SheetCells DEF Cells
  <2>3. \A i \in DOMAIN file : \A p \in Places :
          cells[i][p].content = IF <<i, p>> \in places THEN Formula
                                                       ELSE file[i].cells[p].content
    BY <2>1
  <2> HIDE DEF cells
  <2>4. \A i \in DOMAIN file : \A p \in Places : new[i][p].content = cells[i][p].content
    BY <2>2, SavesKeep
  <2> HIDE DEF new
  <2>5. QED BY <2>3, <2>4
<1> HIDE DEF new, cells
<1>5. /\ DOMAIN file' = DOMAIN file
      /\ \A i \in DOMAIN file : file'[i].name = file[i].name /\ file'[i].cells = new[i]
  BY <1>2, CellsReplaced
<1>6. ASSUME NEW i \in DOMAIN file, Stands(i) PROVE Stands(i)'
  <2> DEFINE P == {p \in Places : <<i, p>> \in places}
  <2>1. Flagged(new[i]) \subseteq Flagged(file[i].cells) \ P
    <3>1. PICK a, b, Q : a = file[i].cells /\ b = new[i] /\ Q = P
      OBVIOUS
    <3>2. Rewritten(a, b, Q)
      BY <1>4, <3>1 DEF Rewritten
    <3>3. Flagged(b) \subseteq Flagged(a) \ Q
      BY <3>2, FlagsShrink
    <3>4. QED BY <3>1, <3>3
  <2>2. Flagged(new[i]) \subseteq Places
    BY DEF Flagged, Large, Statics
  <2>3. CASE \A p \in Flagged(file[i].cells) : <<i, p>> \in report.candidates \ fixed
    BY <1>1, <1>3, <1>5, <2>1, <2>2, <2>3 DEF Stands
  <2>4. CASE file[i].name = "chart"
    BY <1>5, <2>4 DEF Stands
  <2>5. CASE /\ file[i].name = "raw" /\ Formulas(file[i].cells) = {}
             /\ \A p \in Places : <<i, p>> \notin report.candidates
    <3>1. \A p \in Places : <<i, p>> \notin places
      BY <1>1, <2>5
    <3>2. Formulas(new[i]) = Formulas(file[i].cells)
      BY <1>4, <3>1, FlagsAgree
    <3>3. QED BY <1>3, <1>5, <2>5, <3>2 DEF Stands
  <2>6. QED BY <1>6, <2>3, <2>4, <2>5 DEF Stands
<1>7. QED BY <1>3, <1>5, <1>6 DEF ReportStands

LEMMA NextStands == IInv /\ ReportStands /\ [Next]_vars => ReportStands'
<1> SUFFICES ASSUME IInv, ReportStands, [Next]_vars PROVE ReportStands'
  OBVIOUS
<1>1. CASE Build \/ Edit
  BY <1>1 DEF Build, Edit, ReportStands
<1>2. CASE AddCharts
  <2> DEFINE new == [i \in DOMAIN file |-> SavedByTool(file[i].cells)]
  <2>1. /\ file' = [i \in DOMAIN file |-> [file[i] EXCEPT !.cells = new[i]]]
        /\ UNCHANGED <<report, fixed>>
    BY <1>2 DEF AddCharts
  <2>2. \A i \in DOMAIN file : \A p \in Places : new[i][p].content = file[i].cells[p].content
    BY SheetCells, SavesKeep
  <2> HIDE DEF new
  <2>3. DOMAIN file' = DOMAIN file
    BY <2>1, CellsReplaced
  <2>4. \A i \in DOMAIN file :
          /\ file'[i].name = file[i].name
          /\ \A p \in Places : file'[i].cells[p].content = file[i].cells[p].content
    <3>1. \A i \in DOMAIN file : file'[i].name = file[i].name /\ file'[i].cells = new[i]
      BY <2>1, CellsReplaced
    <3>2. QED BY <2>2, <3>1
  <2>5. QED BY <2>1, <2>3, <2>4, StandsKept
<1>3. CASE Recalculate
  <2> DEFINE new == [i \in DOMAIN file |-> Recalculated(file[i].cells)]
  <2>1. /\ file' = [i \in DOMAIN file |-> [file[i] EXCEPT !.cells = new[i]]]
        /\ UNCHANGED <<report, fixed>>
    BY <1>3 DEF Recalculate
  <2>2. \A i \in DOMAIN file : \A p \in Places : new[i][p].content = file[i].cells[p].content
    BY SheetCells, SavesKeep
  <2> HIDE DEF new
  <2>3. DOMAIN file' = DOMAIN file
    BY <2>1, CellsReplaced
  <2>4. \A i \in DOMAIN file :
          /\ file'[i].name = file[i].name
          /\ \A p \in Places : file'[i].cells[p].content = file[i].cells[p].content
    <3>1. \A i \in DOMAIN file : file'[i].name = file[i].name /\ file'[i].cells = new[i]
      BY <2>1, CellsReplaced
    <3>2. QED BY <2>2, <3>1
  <2>5. QED BY <2>1, <2>3, <2>4, StandsKept
<1>4. CASE Audit
  BY <1>4, AuditStands
<1>5. CASE Rewrite
  BY <1>5, RewriteStands
<1>6. CASE Summarise \/ UNCHANGED vars
  BY <1>6, StandsKept DEF Summarise, vars
<1>7. QED BY <1>1, <1>2, <1>3, <1>4, <1>5, <1>6 DEF Next

\* One rewrite is enough: after an audit without errors, whatever was rewritten,
\* saved and recalculated, the next audit flags only what was reported and left.
THEOREM OneRewriteIsEnough == Spec => RewriteRevealsNothing
<1>1. ASSUME IInv, ReportStands, [Next]_vars, report # None, report' # None,
             report' # report, report.overall # "FAIL"
      PROVE  report'.candidates \subseteq report.candidates \ fixed
  <2>1. report'.candidates = Candidates
    BY <1>1, NewReport DEF Audit
  <2>2. ASSUME NEW x \in Candidates PROVE x \in report.candidates \ fixed
    <3>1. PICK i \in DOMAIN file :
            /\ Verdict(file[i]) \in {"review_calc", "review_generic"}
            /\ x \in {<<i, p>> : p \in Flagged(file[i].cells)}
      BY DEF Candidates
    <3>2. PICK p \in Flagged(file[i].cells) : x = <<i, p>>
      BY <3>1
    <3>3. Stands(i)
      BY <1>1 DEF ReportStands
    <3>4. QED BY <3>1, <3>2, <3>3, VerdictIs DEF Stands
  <2>3. QED BY <2>1, <2>2
<1>2. IInv /\ ReportStands /\ [Next]_vars =>
        [report # None /\ report' # None /\ report' # report /\ report.overall # "FAIL" =>
           report'.candidates \subseteq report.candidates \ fixed]_vars
  BY <1>1
<1>3. Init => ReportStands
  BY DEF Init, ReportStands
<1>4. QED BY InitIInv, NextIInv, NextStands, <1>2, <1>3, PTL DEF Spec, RewriteRevealsNothing
=============================================================================
