---------------------------- MODULE ExcelReport ----------------------------
(***************************************************************************)
(* The excel-master skill's tools on one workbook: excel_build.py,         *)
(* excel_chart.py, excel_summary.py and excel_audit.py, called in whatever *)
(* order by an agent that may also rewrite what the audit flagged, while   *)
(* the user may open the workbook in Excel.                                *)
(*                                                                         *)
(* openpyxl writes formulas and never computes them: a formula has a       *)
(* cached value only from Excel's last save on, and loses it whenever a    *)
(* tool saves.  The audit's errors and the summary's numbers are read from *)
(* cached values.                                                          *)
(*                                                                         *)
(* A text is Header or Text, a number stands for itself, and a formula is  *)
(* known by what it divides by: the cell "by", a literal 0 as in x/0       *)
(* (Zero), x/(0) (Bracketed) or IFERROR(x/0,"") (Guarded), or nothing that *)
(* could fail (NoPlace).  Of a formula's number only the sign is kept.     *)
(***************************************************************************)
EXTENDS Integers, Sequences, FiniteSetsExt

CONSTANTS
  Specs,      \* build specs: sequences of sheet specs
  MaxRow, MaxCol,
  Numbers,    \* what a user may type over a number
  SampleN,    \* summary: --sample
  NotesMax,   \* audit: up to so many candidates are only notes (5)
  MaxWrites,  \* bound of the model: changes of the workbook
  Header, Text, Formula, Error, None

Places  == (1..MaxRow) \X (1..MaxCol)
NoPlace == <<0, 0>>
Zero      == <<0, 1>>
Bracketed == <<0, 2>>
Guarded   == <<0, 3>>
Literals  == {NoPlace, Zero, Bracketed, Guarded}

\* A spec's sheets: rows of numbers and texts, formulas and where they divide by.
SheetSpec ==
  [name : STRING, title : BOOLEAN, rows : Seq([1..MaxCol -> Int \cup {Text, None}]),
   formulas : SUBSET [cell : Places, by : Places \cup Literals],
   summary  : Places \cup {NoPlace}]

ASSUME SpecAssumption ==
  /\ MaxRow \in Nat /\ MaxCol \in Nat
  /\ Specs \subseteq Seq(SheetSpec)
  /\ Numbers \subseteq Int
  /\ Error \notin Int \cup {Header, Text, Formula, None}

VARIABLES
  spec,     \* the spec the workbook was built from
  file,     \* the workbook: a sequence of sheets
  report,   \* the audit's last verdict on it
  fixed,    \* places rewritten since that report
  summary,  \* the last summary
  writes    \* changes so far

vars == <<spec, file, report, fixed, summary, writes>>

Static(x)   == [content |-> x, by |-> NoPlace, cached |-> None]
Computed(d) == [content |-> Formula, by |-> d, cached |-> None]
Blank       == Static(None)

Init ==
  /\ spec = <<>> /\ file = <<>> /\ report = None /\ fixed = {} /\ summary = None
  /\ writes = 0

-----------------------------------------------------------------------------
(* Excel and openpyxl.                                                     *)

Sign(n) == IF n > 0 THEN 1 ELSE -1

\* What Excel shows for the cell at p, where a formula divides only by a cell that
\* holds no such formula.
Shown(cells, p) ==
  LET c == cells[p]
      divisor == cells[c.by]
  IN IF c.content # Formula THEN c.content
     ELSE CASE c.by = NoPlace -> 1
            [] c.by \in {Zero, Bracketed} -> Error
            [] c.by = Guarded -> Text
            [] OTHER ->
                 CASE divisor.content \in {None, Header, Text, 0} -> Error
                   [] divisor.content = Formula ->
                        IF divisor.by = NoPlace THEN 1 ELSE Error
                   [] OTHER -> Sign(divisor.content)

\* Excel saves what it shows.
Recalculated(cells) ==
  [p \in Places |-> IF cells[p].content = Formula
                      THEN [cells[p] EXCEPT !.cached = Shown(cells, p)] ELSE cells[p]]

\* wb.save(): formulas without values.
SavedByTool(cells) == [p \in Places |-> [cells[p] EXCEPT !.cached = None]]

\* What load_workbook(data_only=True) reads.
Read(c) == IF c.content = Formula THEN c.cached ELSE c.content

\* max_row
LastRow(cells) == Max({p[1] : p \in {q \in Places : cells[q].content # None}} \cup {0})

-----------------------------------------------------------------------------
(* excel_build.                                                            *)

\* Mutant: the rows start in the row of the headers.
FirstDataRowOff == 1

\* Headers are in row 1.
FirstDataRow == 2

\* Headers, rows and then formulas.
Table(s) ==
  [p \in Places |->
     IF \E f \in s.formulas : f.cell = p
       THEN Computed((CHOOSE f \in s.formulas : f.cell = p).by)
     ELSE IF p[1] - FirstDataRow + 1 \in DOMAIN s.rows
               /\ s.rows[p[1] - FirstDataRow + 1][p[2]] # None
       THEN Static(s.rows[p[1] - FirstDataRow + 1][p[2]])
     ELSE IF p[1] = 1 THEN Static(Header) ELSE Blank]

\* The title is inserted above: cells move down, and formulas go on referring to
\* the places they were written with.
Titled(cells) ==
  [p \in Places |-> IF p = <<1, 1>> THEN Static(Text)
                    ELSE IF p[1] = 1 THEN Blank ELSE cells[<<p[1] - 1, p[2]>>]]

\* write_sheet; the summary's text goes to the place the spec gives, last.
BuildSheet(s) ==
  LET cells == IF s.title THEN Titled(Table(s)) ELSE Table(s) IN
  [name  |-> s.name,
   cells |-> IF s.summary = NoPlace THEN cells
             ELSE [cells EXCEPT ![s.summary] = Static(Text)]]

Build ==
  /\ writes < MaxWrites
  /\ \E s \in Specs :
       /\ spec' = s
       /\ file' = [i \in DOMAIN s |-> BuildSheet(s[i])]
  /\ report' = None /\ fixed' = {} /\ summary' = None
  /\ writes' = writes + 1

\* excel_chart: charts change no cell, but the workbook is loaded and saved.
AddCharts ==
  /\ file # <<>> /\ writes < MaxWrites
  /\ file' = [i \in DOMAIN file |-> [file[i] EXCEPT !.cells = SavedByTool(@)]]
  /\ writes' = writes + 1
  /\ UNCHANGED <<spec, report, fixed, summary>>

-----------------------------------------------------------------------------
(* excel_summary.                                                          *)

\* Mutant: the row below the headers is taken for part of them.
SampledLate(cells) == 3..Min({LastRow(cells), 1 + SampleN})

\* The rows that are looked at: the first SampleN below the headers.
Sampled(cells) == 2..Min({LastRow(cells), 1 + SampleN})

\* summarize_column.  The growth rate is (last/first)**(1/years) - 1: of a negative
\* ratio and more than one year a complex number, which round() does not take.
Column(cells, c) ==
  LET nums  == {r \in Sampled(cells) : Read(cells[<<r, c>>]) \notin {None, Header, Text, Error}}
      at(r) == Read(cells[<<r, c>>])
      years == Max(nums) - Min(nums)
  IN [label |-> Read(cells[<<1, c>>]),
      count |-> Cardinality(nums),
      cagr  |-> IF Cardinality(nums) < 2 THEN "none"
                ELSE IF at(Min(nums)) <= 0 THEN "none"
                ELSE IF at(Max(nums)) < 0 /\ years > 1 THEN "TypeError" ELSE "rate"]

\* summarize_sheet
SummaryOf(sheet) ==
  IF LastRow(sheet.cells) < 2 THEN <<>>
  ELSE [c \in 1..MaxCol |-> Column(sheet.cells, c)]

\* One column that raises leaves the caller without any output.
Summarise ==
  /\ file # <<>>
  /\ LET all == [i \in DOMAIN file |-> SummaryOf(file[i])]
         Raises == \E i \in DOMAIN all : \E c \in DOMAIN all[i] : all[i][c].cagr = "TypeError"
     IN summary' = IF Raises THEN None ELSE all
  /\ UNCHANGED <<spec, file, report, fixed, writes>>

-----------------------------------------------------------------------------
(* excel_audit.                                                            *)

\* _is_static_div_by_zero: "/0", without a digit or a point after it.
DividesByZero(c) == c.by \in {Zero, Guarded}

\* Formulas, static values and errors of a sheet (_walk_sheet).
Formulas(cells) == {p \in Places : cells[p].content = Formula}
Statics(cells)  == {p \in Places : cells[p].content \notin {Formula, None}}
Errors(cells)   == {p \in Formulas(cells) : cells[p].cached = Error \/ DividesByZero(cells[p])}

Near(p, S) == \E q \in S : q[2] = p[2] /\ q[1] - p[1] \in -2..2 \ {0}

Large(cells) == {p \in Statics(cells) : cells[p].content \notin {Header, Text}
                                          /\ cells[p].content > 100}

\* Mutant: the loop ends with the first cell it flags.
FlagFirst(cells) ==
  {p \in Large(cells) : /\ ~Near(p, Formulas(cells))
                        /\ \A q \in Large(cells) : p[1] < q[1] \/ (p[1] = q[1] /\ p[2] <= q[2])}

\* _flag_large_static_cells
Flagged(cells) == {p \in Large(cells) : ~Near(p, Formulas(cells))}

FewFormulas(cells) ==
  LET f == Cardinality(Formulas(cells))  s == Cardinality(Statics(cells)) IN
  s > 0 /\ 10 * f < 3 * (f + s)

\* Mutant: chart sheets are skipped before anything else.
VerdictByName(sheet) ==
  IF sheet.name = "chart" THEN "skip_chart"
  ELSE IF Errors(sheet.cells) # {} THEN "has_errors"
  ELSE IF sheet.name = "raw" /\ Formulas(sheet.cells) = {} THEN "raw_layer"
  ELSE IF sheet.name = "calc" /\ FewFormulas(sheet.cells) THEN "review_calc"
  ELSE IF Flagged(sheet.cells) # {} THEN "review_generic" ELSE "ok"

\* _classify_sheet: the first rule that applies.
Verdict(sheet) ==
  IF Errors(sheet.cells) # {} THEN "has_errors"
  ELSE IF sheet.name = "chart" THEN "skip_chart"
  ELSE IF sheet.name = "raw" /\ Formulas(sheet.cells) = {} THEN "raw_layer"
  ELSE IF sheet.name = "calc" /\ FewFormulas(sheet.cells) THEN "review_calc"
  ELSE IF Flagged(sheet.cells) # {} THEN "review_generic" ELSE "ok"

\* The candidates of a workbook: <<sheet, place>>.  Errors in a sheet hide them.
Candidates ==
  UNION {{<<i, p>> : p \in Flagged(file[i].cells)} :
           i \in {j \in DOMAIN file : Verdict(file[j]) \in {"review_calc", "review_generic"}}}

\* The exit code is 2 for FAIL and NEEDS_REVIEW.
Overall ==
  IF \E i \in DOMAIN file : Verdict(file[i]) = "has_errors" THEN "FAIL"
  ELSE IF Candidates = {} THEN "PASS"
  ELSE IF Cardinality(Candidates) <= NotesMax THEN "PASS_WITH_NOTES" ELSE "NEEDS_REVIEW"

Audit ==
  /\ file # <<>>
  /\ report' = [overall |-> Overall, candidates |-> Candidates]
  /\ fixed' = {}
  /\ UNCHANGED <<spec, file, summary, writes>>

-----------------------------------------------------------------------------
(* The agent and the user.                                                 *)

\* The agent writes formulas over some of the candidates, with openpyxl.
Rewrite ==
  /\ writes < MaxWrites /\ report # None
  /\ \E places \in SUBSET (report.candidates \ fixed) \ {{}}, d \in Literals :
       /\ file' = [i \in DOMAIN file |->
                     [file[i] EXCEPT !.cells =
                        SavedByTool([p \in Places |-> IF <<i, p>> \in places
                                                        THEN Computed(d) ELSE @[p]])]]
       /\ fixed' = fixed \cup places
  /\ writes' = writes + 1
  /\ UNCHANGED <<spec, report, summary>>

\* The user opens the workbook in Excel and saves it...
Recalculate ==
  /\ file # <<>>
  /\ file' = [i \in DOMAIN file |-> [file[i] EXCEPT !.cells = Recalculated(@)]]
  /\ UNCHANGED <<spec, report, fixed, summary, writes>>

\* ...or changes a number first.  What was reported is of another workbook then.
Edit ==
  /\ writes < MaxWrites
  /\ \E i \in DOMAIN file, n \in Numbers :
       \E p \in {q \in Statics(file[i].cells) : file[i].cells[q].content \notin {Header, Text, n}} :
         file' = [j \in DOMAIN file |->
                    [file[j] EXCEPT !.cells =
                       Recalculated(IF i = j THEN [@ EXCEPT ![p] = Static(n)] ELSE @)]]
  /\ report' = None /\ fixed' = {}
  /\ writes' = writes + 1
  /\ UNCHANGED <<spec, summary>>

Next == Build \/ AddCharts \/ Summarise \/ Audit \/ Rewrite \/ Recalculate \/ Edit

Spec == Init /\ [][Next]_vars

-----------------------------------------------------------------------------
(* Properties.                                                             *)

ShowsError == \E i \in DOMAIN file, p \in Places : Shown(file[i].cells, p) = Error

\* Excel has computed the whole workbook since a tool saved it.
Fresh == \A i \in DOMAIN file : \A p \in Formulas(file[i].cells) : file[i].cells[p].cached # None

Has(by) == \E i \in DOMAIN file : \E p \in Formulas(file[i].cells) : file[i].cells[p].by = by

\* The audit fails for errors, in sheets of whatever name: FAIL means that Excel shows
\* one, or that a division by a literal 0 is guarded, and anything else that Excel shows
\* none, if it has computed the workbook.
AuditIsRight ==
  [][report' # report /\ report' # None =>
       /\ report'.overall = "FAIL" => ShowsError \/ Has(Guarded)
       /\ report'.overall # "FAIL" /\ Fresh => ~ShowsError]_vars

\* The verdict's reason: so many Excel error cells (#DIV/0! and the like) were found,
\* and have to be repaired.
FailMeansError ==
  [][report' # report /\ report' # None /\ report'.overall = "FAIL" => ShowsError]_vars

\* _is_static_div_by_zero: obvious static division by zero, such as =B5/0 and =A1/(0), is
\* detected in the formula, before anyone has computed it.
StaticZeroIsFound ==
  [][report' # report /\ report' # None /\ report'.overall # "FAIL" =>
       ~Has(Zero) /\ ~Has(Bracketed)]_vars

\* One rewrite is enough: after an audit without errors, an audit of the rewritten
\* workbook flags nothing new, so what is still flagged was left static on purpose.
\* (After one with errors it may: a sheet's errors hide its candidates.)
RewriteRevealsNothing ==
  [][report # None /\ report' # None /\ report' # report /\ report.overall # "FAIL" =>
       report'.candidates \subseteq report.candidates \ fixed]_vars

\* A summary of an untitled sheet that Excel has computed covers what was built:
\* its columns have their headers, and every row that shows a number counts.
SummaryCoversTheData ==
  [][summary' # summary /\ summary' # None =>
       \A i \in DOMAIN file : \A c \in DOMAIN summary'[i] :
         LET cells == file[i].cells
             rows  == 1..Len(spec[i].rows)
         IN ~spec[i].title /\ Len(spec[i].rows) <= SampleN
               /\ (\A p \in Formulas(cells) : cells[p].cached # None) =>
              /\ summary'[i][c].label = Header
              /\ summary'[i][c].count =
                   Cardinality({r \in rows :
                                  Shown(cells, <<r + 1, c>>) \notin {None, Header, Text, Error}})]_vars
=============================================================================
