------------------------------ MODULE Workspace ------------------------------
(***************************************************************************)
(* An iteration of a skill's evaluation as a whole: subagents that fill    *)
(* its tree, the script that aggregates it and the review of its runs.     *)
(* Script and review meet in the tree, which neither of them writes.       *)
(***************************************************************************)
EXTENDS SkillReview, Benchmark

WorkspaceInit == Init /\ ScriptInit

\* The script runs at any time.  As it reads nothing a page or the server writes, and
\* they nothing of its own, the model runs it where no page is open.
Aggregates == env.tabs = {}

WorkspaceNext ==
  \/ Next /\ UNCHANGED scriptVars
  \/ Aggregates /\ ScriptStep /\ UNCHANGED reviewVars

WorkspaceSpec ==
  WorkspaceInit /\ [][WorkspaceNext]_<<vars, scriptVars>> /\ Fairness
=============================================================================
