--------------------------- MODULE MCSkillReview ---------------------------
(* TLC instances of Workspace.                                             *)
EXTENDS Workspace

CONSTANT t1

\* An eval with and without the skill, one with it, and a run of that without any
\* run-* directory.
AllRuns == {<<1, 1, 1>>, <<1, 2, 1>>, <<2, 1, 1>>, <<2, 2, 0>>}

Nothing == [r \in AllRuns |-> None]
\* Two runs of the first eval, the one with the skill graded.
Started == [Nothing EXCEPT ![<<1, 1, 1>>] = 1, ![<<1, 2, 1>>] = Ungraded]
\* Only what the script does not find, graded.
Misplaced == [Nothing EXCEPT ![<<2, 2, 0>>] = 1]

AllTrees == {Started, Misplaced}

Review == [tree |-> Started, work |-> {}, tabs |-> {t1}, kills |-> FALSE,
           previous |-> FALSE, fails |-> FALSE, early |-> FALSE, reorder |-> FALSE]

\* No review, while everything is worked on; a review of what is there and of an
\* iteration that grows; with a previous iteration; with kills and writes that fail;
\* with a user who does not wait; with requests that overtake one another; and with
\* all of these but the growth and the previous iteration.
AllScenarios == {[Review EXCEPT !.tree = Misplaced, !.work = AllRuns, !.tabs = {}],
                 Review,
                 [Review EXCEPT !.work = {<<2, 1, 1>>}],
                 [Review EXCEPT !.previous = TRUE],
                 [Review EXCEPT !.kills = TRUE, !.fails = TRUE],
                 [Review EXCEPT !.early = TRUE],
                 [Review EXCEPT !.reorder = TRUE],
                 [Review EXCEPT !.kills = TRUE, !.fails = TRUE, !.early = TRUE, !.reorder = TRUE]}

\* A review in which Calm holds.
CalmReview == {Review}
=============================================================================
