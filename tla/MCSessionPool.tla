--------------------------- MODULE MCSessionPool ---------------------------
(* TLC instances of SessionPool.                                           *)
EXTENDS SessionPool
=============================================================================
