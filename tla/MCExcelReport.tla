--------------------------- MODULE MCExcelReport ---------------------------
(* TLC instances of ExcelReport.                                           *)
EXTENDS ExcelReport

Ratio(r, d) == [cell |-> <<r, 2>>, by |-> <<d, 1>>]

Sheet(n, rs) == [name |-> n, title |-> FALSE, rows |-> rs, formulas |-> {}, summary |-> NoPlace]

\* A raw sheet with a computed column, of which the first row divides by nothing,
\* and a sheet of totals that should be formulas; a chart sheet with a formula; a
\* titled sheet with a summary; a column that ends in a loss; and literal zeros.
AllSpecs ==
  {<<[Sheet("raw", <<<<0, None>>, <<50, None>>>>) EXCEPT
         !.formulas = {Ratio(2, 2), Ratio(3, 3)}],
     Sheet("calc", <<<<200, 500>>, <<Text, 300>>>>)>>,
   <<[Sheet("chart", <<<<50, None>>>>) EXCEPT !.formulas = {Ratio(2, 2)}],
     Sheet("raw", <<<<200, 200>>>>)>>,
   <<[Sheet("calc", <<<<50, None>>, <<200, None>>>>) EXCEPT
         !.title = TRUE, !.formulas = {Ratio(2, 2), Ratio(3, 3)}, !.summary = <<5, 1>>]>>,
   <<Sheet("other", <<<<50, 200>>, <<200, 50>>, <<-50, 200>>>>)>>,
   <<[Sheet("calc", <<<<50, None>>, <<200, None>>>>) EXCEPT
         !.formulas = {[cell |-> <<2, 2>>, by |-> Guarded], [cell |-> <<3, 2>>, by |-> Bracketed]}]>>}
=============================================================================
