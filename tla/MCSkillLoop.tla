---------------------------- MODULE MCSkillLoop ----------------------------
(* TLC instances of SkillLoop.                                             *)
EXTENDS SkillLoop

CONSTANTS q1, q2, q3

Yes(q) == [query |-> q, should_trigger |-> TRUE]
No(q)  == [query |-> q, should_trigger |-> FALSE]

Setup(s, pct, r) == [set |-> s, holdout |-> pct, report |-> r]

\* Two that should trigger and one that should not; one of either, so that nothing
\* is left to train on; a query that is in the set twice; and no holdout, with
\* and without a report.
AllSetups == {Setup(<<Yes(q1), Yes(q2), No(q3)>>, 40, TRUE),
              Setup(<<Yes(q1), No(q2)>>, 40, TRUE),
              Setup(<<Yes(q1), Yes(q1)>>, 40, TRUE),
              Setup(<<Yes(q1), No(q2)>>, 0, TRUE),
              Setup(<<Yes(q1), No(q2)>>, 0, FALSE)}
=============================================================================
