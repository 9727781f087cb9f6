------------------------------ MODULE OneTurn ------------------------------
(***************************************************************************)
(* What the session lock promises a task: its prompts are served one after *)
(* the other, each by one turn at most, and a prompt that has been turned  *)
(* down, or that failed, never gets a turn afterwards.                     *)
(***************************************************************************)
CONSTANTS Prompts, None

VARIABLES
  current,  \* the prompt whose turn runs, or None
  spent     \* prompts that have had their turn, or will have none

vars == <<current, spent>>

\* Some prompts are never sent.
Init == current = None /\ spent \in SUBSET Prompts

Begin(p) ==
  /\ current = None /\ p \notin spent
  /\ current' = p /\ spent' = spent \cup {p}

GiveUp(p) ==
  /\ p \notin spent
  /\ spent' = spent \cup {p} /\ UNCHANGED current

\* The turn settles, or dies with its runtime.
End == current # None /\ current' = None /\ UNCHANGED spent

Next == End \/ \E p \in Prompts : Begin(p) \/ GiveUp(p)

Spec == Init /\ [][Next]_vars
=============================================================================
