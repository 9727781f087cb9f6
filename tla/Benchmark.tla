------------------------------ MODULE Benchmark ------------------------------
(***************************************************************************)
(* aggregate_benchmark.py, run at any time while an iteration is worked    *)
(* on.  It walks the tree one directory at a time, so what it lists and    *)
(* what it reads is of different moments, and writes benchmark.json.       *)
(*                                                                         *)
(* Of a grading only the pass rate is modelled, in whole units; the time   *)
(* and token statistics are computed in the same way.                      *)
(***************************************************************************)
EXTENDS Iteration

VARIABLES
  walk,      \* the script: directories still to be visited and results, or None
  benchmark  \* benchmark.json: results and delta, or None

scriptVars == <<walk, benchmark>>

ScriptInit == walk = None /\ benchmark = None

-----------------------------------------------------------------------------
(* load_run_results.                                                       *)

\* A directory is the beginning of the names of the runs in it.
Below(dir) == {r \in Runs : tree[r] # None /\ SubSeq(r, 1, Len(dir)) = dir}

\* The names that glob("eval-*"), iterdir() or glob("run-*") yields there.
Names(dir) == {r[Len(dir) + 1] : r \in Below(dir)} \ (IF Len(dir) = 1 THEN {} ELSE {0})

\* Mutant: iterdir() without sorted().
ChildrenUnsorted(dir) ==
  LET names == SetToSortSeq(Names(dir), LAMBDA a, b : a > b) IN
  [i \in DOMAIN names |-> Append(dir, names[i])]

\* sorted(...)
Children(dir) ==
  LET names == SetToSortSeq(Names(dir), LAMBDA a, b : a < b) IN
  [i \in DOMAIN names |-> Append(dir, names[i])]

ConfigIn(results, c) == \E i \in DOMAIN results : results[i].config = c

\* Mutant: every eval begins a config's list anew.
AddConfigAnew(results, c) ==
  Append(SelectSeq(results, LAMBDA x : x.config # c), [config |-> c, runs |-> <<>>])

\* A config is listed from its first directory with run directories on.
AddConfig(results, c) ==
  IF ConfigIn(results, c) THEN results ELSE Append(results, [config |-> c, runs |-> <<>>])

\* The result of a run, under its config: which run it is, and its pass rate.
AddRun(results, r, rate) ==
  [i \in DOMAIN results |->
     IF results[i].config = r[2]
       THEN [results[i] EXCEPT !.runs = Append(@, [run |-> r, rate |-> rate])]
       ELSE results[i]]

\* A run the script's globs reach, and the evals that have one of a config.
Globbed(r) == r[1] # 0 /\ r[3] # 0
EvalsWith(c) == {r[1] : r \in {q \in Runs : q[2] = c /\ Globbed(q) /\ tree[q] # None}}

StartWalk ==
  /\ walk = None
  /\ walk' = [todo |-> Children(<<>>), results |-> <<>>, graded |-> Graded,
              skilled |-> EvalsWith(1)]
  /\ UNCHANGED <<tree, benchmark>>

Ahead(depth) == walk # None /\ walk.todo # <<>> /\ Len(Head(walk.todo)) = depth

\* The next directory is done: what it contains comes before what is left.
Visited(inside, results) ==
  /\ walk' = [walk EXCEPT !.todo = inside \o Tail(@), !.results = results]
  /\ UNCHANGED <<tree, benchmark>>

VisitEval == Ahead(1) /\ Visited(Children(Head(walk.todo)), walk.results)

\* A directory without run directories is no config's.
VisitConfig ==
  /\ Ahead(2)
  /\ LET runs == Children(Head(walk.todo)) IN
     Visited(runs, IF runs = <<>> THEN walk.results
                   ELSE AddConfig(walk.results, Head(walk.todo)[2]))

\* The grading is read, if there is one that parses.
ReadRun ==
  /\ Ahead(3)
  /\ LET r == Head(walk.todo) IN
     Visited(<<>>, IF tree[r] \in Rates THEN AddRun(walk.results, r, tree[r])
                   ELSE walk.results)

-----------------------------------------------------------------------------
(* aggregate_results.                                                      *)

Total(runs) == FoldLeft(LAMBDA sum, x : sum + x.rate, 0, runs)

\* A mean is <<sum, count>>, and that of no runs is 0.
Mean(runs) == IF runs = <<>> THEN <<0, 1>> ELSE <<Total(runs), Len(runs)>>

\* The difference of the means of the first two configs in the results.
Delta(results) ==
  LET primary  == IF Len(results) >= 1 THEN Mean(results[1].runs) ELSE <<0, 1>>
      baseline == IF Len(results) >= 2 THEN Mean(results[2].runs) ELSE <<0, 1>>
  IN <<primary[1] * baseline[2] - baseline[1] * primary[2], primary[2] * baseline[2]>>

\* generate_benchmark, and benchmark.json.
WriteBenchmark ==
  /\ walk # None /\ walk.todo = <<>>
  /\ benchmark' = [results |-> walk.results, delta |-> Delta(walk.results)]
  /\ walk' = None
  /\ UNCHANGED tree

ScriptStep == StartWalk \/ VisitEval \/ VisitConfig \/ ReadRun \/ WriteBenchmark

-----------------------------------------------------------------------------
(* Properties.  (graded and skilled record what was there when the walk    *)
(* began: the script does not keep them.)                                  *)

\* The results of a config, wherever it is listed.
ResultsOf(results, c) == FlattenSeq([i \in DOMAIN results |->
                            IF results[i].config = c THEN results[i].runs ELSE <<>>])

\* However the graders write while the script walks: what was graded when it began is
\* counted, what is not graded when it ends is not, and every run is counted once,
\* under its own config and with its final rate.
EveryGradedRunCounts ==
  [][benchmark' # benchmark =>
       \A c \in {1, 2} :
         LET counted == ResultsOf(benchmark'.results, c) IN
         /\ \A i, j \in DOMAIN counted : counted[i].run = counted[j].run => i = j
         /\ \A x \in ToSet(counted) :
              x.run[2] = c /\ x.run \in Graded /\ x.rate = tree[x.run]
         /\ \A r \in walk.graded : r[2] = c /\ Globbed(r) =>
              \E x \in ToSet(counted) : x.run = r]_<<tree, scriptVars>>

\* The delta is that of the skill over its baseline, on what is counted, as long as the
\* first eval with any runs has had one with the skill from the beginning.
DeltaIsSkillMinusBaseline ==
  [][LET mean(c) == LET counted == ToSet(ResultsOf(benchmark'.results, c)) IN
                    IF counted = {} THEN <<0, 1>>
                    ELSE <<MapThenSumSet(LAMBDA x : x.rate, counted), Cardinality(counted)>>
     IN benchmark' # benchmark /\ walk.skilled # {}
          /\ (\A e \in EvalsWith(2) : \E d \in walk.skilled : d <= e) =>
        benchmark'.delta = <<mean(1)[1] * mean(2)[2] - mean(2)[1] * mean(1)[2],
                             mean(1)[2] * mean(2)[2]>>]_<<tree, scriptVars>>

\* SKILL.md: a run's outputs go to eval-<ID>/with_skill/outputs/, an eval's directory
\* has a descriptive name, the grading is in the run's directory, and the script's
\* benchmark.json has the pass rate of each configuration.
DocumentedRunsCount ==
  [][benchmark' # benchmark =>
       \A r \in walk.graded :
         \E x \in ToSet(ResultsOf(benchmark'.results, r[2])) : x.run = r]_<<tree, scriptVars>>
=============================================================================
