----------------------------- MODULE MCTaskTurn -----------------------------
(* TLC instances of TaskTurn.                                              *)
EXTENDS TaskTurn, TLC

\* Runtimes are interchangeable.
RuntimeSymm == Permutations(Runtimes)
=============================================================================
