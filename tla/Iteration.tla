------------------------------ MODULE Iteration ------------------------------
(***************************************************************************)
(* The directory tree of one iteration of the skill-creator's evaluation,  *)
(* which the subagents that work on the runs and their graders fill, as    *)
(* the scripts use it: aggregate_benchmark.py (Benchmark) walks it and     *)
(* generate_review.py (SkillReview) shows its runs.                        *)
(*                                                                         *)
(* A run is <<eval, config, number>>.  Evals and run directories are       *)
(* numbered in the order of their names, and so are the configs:           *)
(* with_skill is 1 and without_skill 2.  Eval 0 is one whose directory is  *)
(* not called eval-*, and run 0 of a config lies in the config's directory *)
(* itself, without a run-* below it.                                       *)
(***************************************************************************)
EXTENDS Integers, Sequences, SequencesExt, FiniteSetsExt

CONSTANTS
  Runs,      \* runs that subagents may work on
  Rates,     \* pass rates a grader may give
  Trees,     \* trees to begin with
  Ungraded,  \* a run directory without grading.json
  Garbled,   \* ... with a grading.json that does not parse, or with half of one
  None

RunStates == {None, Ungraded, Garbled} \cup Rates

ASSUME IterationAssumption ==
  /\ Runs \subseteq Nat \X {1, 2} \X Nat /\ IsFiniteSet(Runs)
  /\ Rates \subseteq Nat
  /\ None \notin {Ungraded, Garbled} \cup Rates
  /\ Trees \subseteq [Runs -> RunStates]

VARIABLE tree  \* a run's directory: None, Ungraded, Garbled or its pass rate

\* A subagent has created its run directory and outputs/.
RunFinishes(r) ==
  /\ tree[r] = None
  /\ tree' = [tree EXCEPT ![r] = Ungraded]

\* grading.json: not all of it at first, or for good if it turns out not to be JSON.
Grade(r) ==
  /\ tree[r] \in {Ungraded, Garbled}
  /\ \E g \in Rates \cup {Garbled} : tree' = [tree EXCEPT ![r] = g]

\* What happens while subagents work on some of the runs.
SubagentStep(work) == \E r \in work : RunFinishes(r) \/ Grade(r)

Graded == {r \in Runs : tree[r] \in Rates}
=============================================================================
