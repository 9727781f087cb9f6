------------------------------ MODULE SkillLoop ------------------------------
(***************************************************************************)
(* run_loop.py of the skill-creator skill: split the eval set, evaluate    *)
(* the description on train and test queries together, let Claude improve  *)
(* it from the train results, and in the end return the description that   *)
(* did best on the test queries.  A report is rewritten after every        *)
(* iteration.  Nothing is persisted before the end: an exception anywhere  *)
(* ends the program without results.                                       *)
(***************************************************************************)
EXTENDS SkillEval, SequencesExt

CONSTANTS
  Setups,        \* eval sets with their --holdout in percent and --report
  Original,      \* the description to start from
  MaxIterations, \* --max-iterations
  Long           \* descriptions of more than 1024 characters

ASSUME LoopAssumption ==
  /\ \A u \in Setups :
       /\ u.set \in Seq(ToSet(u.set))
       /\ \A i \in DOMAIN u.set : u.set[i].should_trigger \in BOOLEAN
       /\ u.holdout \in 0..99 /\ u.report \in BOOLEAN
  /\ MaxIterations \in Nat \ {0}
  /\ Original \in Descriptions /\ Long \subseteq Descriptions

VARIABLES
  train_size,  \* all_queries begins with the train set
  reporting,   \* --report is not none
  phase,       \* where run_loop is
  iteration,
  current,     \* current_description
  history,     \* [description, train_results, test_results]
  report,      \* the report file: iterations shown, best row, refreshes itself
  output       \* what run_loop returned, or None

frozen   == <<eval_set, train_size, reporting>>
loopVars == <<train_size, reporting, phase, iteration, current, history, report, output>>
vars     == <<evalVars, loopVars>>

Phases == {"evaluate", "running", "report", "judge", "improve", "rewrite",
           "pick", "final", "finished", "crashed"}

test_size == Len(eval_set) - train_size
TrainQueries == {eval_set[i].query : i \in 1..train_size}

\* What the two evaluations of a history entry may be.
ResultSets == SUBSET [query : {eval_set[i].query : i \in DOMAIN eval_set},
                      should_trigger : BOOLEAN, passed : BOOLEAN]

TypeOK ==
  /\ EvalTypeOK
  /\ train_size \in 0..Len(eval_set)
  /\ phase \in Phases /\ iteration \in 1..MaxIterations /\ current \in Descriptions
  /\ Len(history) <= MaxIterations
  /\ \A h \in ToSet(history) :
       /\ h.description \in Descriptions
       /\ h.train_results \in ResultSets
       /\ h.test_results \in ResultSets \cup {None}
  /\ report.shown \in 0..Len(history) /\ report.refreshes \in BOOLEAN

-----------------------------------------------------------------------------
(* split_eval_set.                                                         *)

\* How many of n queries are held out.  The slice takes no more than there are.
TestCount(n, pct) ==
  LET k == IF (n * pct) \div 100 = 0 THEN 1 ELSE (n * pct) \div 100 IN
  IF k > n THEN n ELSE k

Indices(s, polarity) == {i \in DOMAIN s : s[i].should_trigger = polarity}

\* s[i] for the indices of I, those that should trigger first.  They were shuffled,
\* so the order has no meaning.
Picked(s, I) ==
  LET order == SetToSeq(I \cap Indices(s, TRUE)) \o SetToSeq(I \cap Indices(s, FALSE))
  IN [k \in DOMAIN order |-> s[order[k]]]

\* The shuffle decides which queries of either polarity are held out.
Splits(s, pct) ==
  IF pct = 0 THEN {[train |-> s, test |-> <<>>]} ELSE
  {[train |-> Picked(s, DOMAIN s \ T), test |-> Picked(s, T)] :
     T \in {T \in SUBSET DOMAIN s :
              \A b \in BOOLEAN : Cardinality(T \cap Indices(s, b))
                                   = TestCount(Cardinality(Indices(s, b)), pct)}}

Init ==
  \E u \in Setups : \E split \in Splits(u.set, u.holdout) :
    /\ EvalInit(split.train \o split.test, Original)
    /\ train_size = Len(split.train)
    /\ reporting = u.report
    /\ phase = "evaluate" /\ iteration = 1 /\ current = Original
    /\ history = <<>>
    /\ report = [shown |-> 0, best |-> 0, refreshes |-> TRUE]
    /\ output = None

-----------------------------------------------------------------------------
(* Scores.                                                                 *)

Passed(results) == IF results = None THEN 0
                   ELSE Cardinality({r \in results : r.passed})

\* train_summary: queries that did not pass.
Failed == {r \in Last(history).train_results : ~r.passed}

\* max(history, key = ...): the first of the best.
FirstBest(Score(_)) ==
  CHOOSE i \in DOMAIN history :
    /\ \A k \in DOMAIN history : Score(k) <= Score(i)
    /\ \A k \in 1..(i - 1) : Score(k) < Score(i)

TrainPassed(i) == Passed(history[i].train_results)
TestPassed(i)  == Passed(history[i].test_results)

\* Mutant: scored on what the description was improved from.
BestOnTrain == FirstBest(TrainPassed)

\* run_loop's choice: by test score when there is a test set.
Best == IF test_size > 0 THEN FirstBest(TestPassed) ELSE FirstBest(TrainPassed)

\* generate_html's choice of the row to highlight: by test score when the first
\* iteration has test results.
BestRow == IF history[1].test_results \in {None, {}}
             THEN FirstBest(TrainPassed) ELSE FirstBest(TestPassed)

\* aggregate_runs(test_results) iterates over None.
Renders == \A h \in ToSet(history) : h.test_results # None

Html(refreshes) == [shown |-> Len(history), best |-> BestRow, refreshes |-> refreshes]

-----------------------------------------------------------------------------
(* run_loop and main.                                                      *)

Goto(p) == phase' = p

Evaluate ==
  /\ phase = "evaluate"
  /\ Submit(current)
  /\ Goto("running")
  /\ UNCHANGED <<train_size, reporting, iteration, current, history, report, output>>

\* All futures are done: results by query, those of train queries apart.
Collect ==
  /\ phase = "running" /\ \A j \in Jobs : job[j] = "done"
  /\ \E results \in Results :
       LET train == {r \in results : r.query \in TrainQueries} IN
       history' = Append(history,
         [description |-> current, train_results |-> train,
          test_results |-> IF test_size > 0 THEN results \ train ELSE None])
  /\ Goto("report")
  /\ UNCHANGED <<evalVars, train_size, reporting, iteration, current, report, output>>

\* The live report, if there is one.
WriteReport ==
  /\ phase = "report"
  /\ IF reporting /\ ~Renders
       THEN Goto("crashed") /\ UNCHANGED report
       ELSE /\ Goto("judge")
            /\ report' = IF reporting THEN Html(TRUE) ELSE report
  /\ UNCHANGED <<evalVars, train_size, reporting, iteration, current, history, output>>

\* Mutant: the limit is looked at after the description was improved.
JudgeLate ==
  /\ phase = "judge"
  /\ Goto(IF Failed = {} THEN "pick" ELSE "improve")
  /\ UNCHANGED <<evalVars, train_size, reporting, iteration, current, history, report, output>>

Judge ==
  /\ phase = "judge"
  /\ Goto(IF Failed = {} \/ iteration = MaxIterations THEN "pick" ELSE "improve")
  /\ UNCHANGED <<evalVars, train_size, reporting, iteration, current, history, report, output>>

\* Mutant: the prompt is made from the history as it is.
PromptUnblinded ==
  {r.query : r \in UNION {h.train_results : h \in ToSet(history)}
               \cup UNION {h.test_results : h \in {g \in ToSet(history) : g.test_results # None}}}

\* The queries in the prompt: the failures, and the history without the keys that
\* start with test_.
PromptQueries == {r.query : r \in UNION {h.train_results : h \in ToSet(history)}}

\* The description claude returned is the next to be evaluated, unless the loop's
\* range is exhausted.
Improved(d) ==
  /\ current' = d
  /\ IF iteration < MaxIterations
       THEN iteration' = iteration + 1 /\ Goto("evaluate")
       ELSE UNCHANGED iteration /\ Goto("pick")

\* claude fails, or takes longer than five minutes: nothing catches that.
ClaudeFails == Goto("crashed") /\ UNCHANGED <<iteration, current>>

\* improve_description.
Improve ==
  /\ phase = "improve"
  /\ \/ ClaudeFails
     \/ \E d \in Descriptions \ Long : Improved(d)
     \/ Long # {} /\ Goto("rewrite") /\ UNCHANGED <<iteration, current>>
  /\ UNCHANGED <<evalVars, train_size, reporting, history, report, output>>

\* Mutant: the rewrite is not parsed, and there is no description.
RewriteUnparsed ==
  /\ phase = "rewrite"
  /\ ClaudeFails \/ Improved(None)
  /\ UNCHANGED <<evalVars, train_size, reporting, history, report, output>>

\* The safety net: one more call, whose answer is taken as it is.
Rewrite ==
  /\ phase = "rewrite"
  /\ ClaudeFails \/ \E d \in Descriptions : Improved(d)
  /\ UNCHANGED <<evalVars, train_size, reporting, history, report, output>>

Pick ==
  /\ phase = "pick"
  /\ output' = [best_description |-> history[Best].description,
                best_iteration |-> Best, final_description |-> current]
  /\ Goto("final")
  /\ UNCHANGED <<evalVars, train_size, reporting, iteration, current, history, report>>

\* main: results, then the report without the refresh.
FinalReport ==
  /\ phase = "final"
  /\ IF reporting /\ ~Renders
       THEN Goto("crashed") /\ UNCHANGED report
       ELSE /\ Goto("finished")
            /\ report' = IF reporting THEN Html(FALSE) ELSE report
  /\ UNCHANGED <<evalVars, train_size, reporting, iteration, current, history, output>>

LoopStep == \/ Evaluate \/ Collect \/ WriteReport \/ Judge
            \/ Improve \/ Rewrite \/ Pick \/ FinalReport

Next == LoopStep \/ (EvalNext /\ UNCHANGED loopVars)

Spec == Init /\ [][Next]_vars

\* Every worker process runs, and so does the loop: a query and a call to improve
\* have time limits.  claude itself need not ever do anything.
FairSpec ==
  /\ Spec
  /\ WF_vars(LoopStep)
  /\ \A i \in UNION {DOMAIN u.set : u \in Setups}, n \in 1..RunsPerQuery :
       WF_vars(<<i, n>> \in Jobs /\ Worker(<<i, n>>) /\ UNCHANGED loopVars)

-----------------------------------------------------------------------------
(* Properties.                                                             *)

\* A query counts as triggered only when its claude used the file of this very
\* job: neither the file of another worker, which names the same skill, nor one
\* that a broken pool left behind, with a description tested before.
NoFalseTrigger ==
  [][\A j \in Jobs : ~triggered[j] /\ triggered'[j] =>
       used[j] = OwnFile(j) /\ used[j].description = current]_vars

\* The user's commands directory is left as it was: unless a worker was killed,
\* the only files in it are those of queries that run.
CommandFilesAreTemporary ==
  ~broken => files = {OwnFile(j) : j \in {k \in Jobs : job[k] = "reads"}}

\* What decides in the end is never shown to the model that improves: no query
\* with a test result is in a prompt.
HeldOut ==
  phase \in {"improve", "rewrite"} =>
    \A h \in ToSet(history) : h.test_results # None =>
      PromptQueries \cap {r.query : r \in h.test_results} = {}

\* Whatever the outcome, the descriptions run_loop returns have been evaluated,
\* and no other did better on the queries held out.
BestIsMeasured ==
  output # None =>
    /\ \E h \in ToSet(history) : h.description = output.final_description
    /\ \A k \in DOMAIN history :
         test_size > 0 => TestPassed(k) <= TestPassed(output.best_iteration)

DistinctQueries ==
  \A i, k \in DOMAIN eval_set : eval_set[i].query = eval_set[k].query => i = k

\* The report highlights the iteration that run_loop returned, as long as no query
\* is in the set twice.
ReportAgrees ==
  phase = "finished" /\ reporting /\ DistinctQueries =>
    report.best = output.best_iteration /\ report.shown = Len(history)

\* Whatever claude does, the program ends.
Terminates == <>(phase \in {"finished", "crashed"})
=============================================================================
