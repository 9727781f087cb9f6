-------------------------- MODULE MCEventPipeline --------------------------
(* TLC instances of EventPipeline.                                         *)
EXTENDS EventPipeline

CONSTANTS runtime, handler

\* A runtime's stream alone, with connections that break, and with a reply of Redis
\* lost; and with a handler that synthesizes events meanwhile.
AllScenarios == {[active |-> {runtime}, breaks |-> 2, retries |-> 0],
                 [active |-> {runtime}, breaks |-> 1, retries |-> 1],
                 [active |-> {runtime, handler}, breaks |-> 1, retries |-> 0]}

\* A connection that never breaks, and no reply lost.
OneConnection == {[active |-> {runtime}, breaks |-> 0, retries |-> 0]}
=============================================================================
