------------------------- MODULE MCRuntimeRegistry -------------------------
(* TLC instances of RuntimeRegistry.                                       *)
EXTENDS RuntimeRegistry, TLC

CONSTANTS r1, r2

\* A small runtime with every fault beside a larger one that works.
Small  == r1 :> 1 @@ r2 :> 2
OneBad == r1 :> Fault @@ r2 :> {}
=============================================================================
