---------------------------- MODULE SessionPool ----------------------------
(***************************************************************************)
(* The pool of one agent-runtime: a map from tasks to pi AgentSessions,    *)
(* and the gRPC handlers and the sweep that work on it.                    *)
(*                                                                         *)
(* The process has one thread, so a handler runs without interruption up   *)
(* to its next await: for the new session in create, for setModel in       *)
(* prompt.  Everything else may run there.  A pi session is external: it   *)
(* is a number here, with its turn.                                        *)
(***************************************************************************)
EXTENDS Naturals, FiniteSets

CONSTANTS
  Tasks,
  Calls,        \* RPCs the runtime receives
  Modes,        \* permission modes
  MaxSessions,  \* MAX_SESSIONS
  None

ASSUME PoolAssumption ==
  /\ MaxSessions \in Nat /\ IsFiniteSet(Calls)
  /\ None \notin Tasks \cup Modes \cup Nat

VARIABLES
  overlap,     \* the task service lets calls of one task overlap: never changes
  pool,        \* sessions: the session of a task
  idle,        \* pooled tasks whose lastActive is older than the idle TTL
  made,        \* AgentSessions created so far
  owner,       \* the task of a session
  mode,        \* spec.mode of a session
  subscribed,  \* sessions whose events go to the bus
  disposed,    \* sessions that dispose() was called on
  closed,      \* those of them that a closeSession has disposed
  turn,        \* what a session does: nothing, about to stream, streaming
  call         \* the RPCs

vars == <<overlap, pool, idle, made, owner, mode, subscribed, disposed, closed, turn, call>>
sess == <<made, owner, mode, subscribed, disposed, closed, turn>>

\* Every call makes at most one session.
Sessions == 1..Cardinality(Calls)
Ops == {"create", "prompt", "touch", "abort", "close"}
NewCall == [pc |-> "new", op |-> "touch", task |-> None, mode |-> None, on |-> 0]

TypeOK ==
  /\ overlap \in BOOLEAN
  /\ pool \in [Tasks -> Sessions \cup {None}]
  /\ idle \subseteq {t \in Tasks : pool[t] # None}
  /\ made \in {0} \cup Sessions
  /\ owner \in [Sessions -> Tasks \cup {None}]
  /\ mode \in [Sessions -> Modes \cup {None}]
  /\ subscribed \subseteq 1..made /\ disposed \subseteq 1..made /\ closed \subseteq disposed
  /\ turn \in [Sessions -> {"none", "starting", "streaming"}]
  /\ call \in [Calls -> [pc : {"new", "creating", "switching", "modeling", "over"},
                         op : Ops, task : Tasks \cup {None},
                         mode : Modes \cup {None}, on : Sessions \cup {0}]]

Init ==
  /\ overlap \in BOOLEAN
  /\ pool = [t \in Tasks |-> None]
  /\ idle = {} /\ made = 0
  /\ owner = [s \in Sessions |-> None] /\ mode = [s \in Sessions |-> None]
  /\ subscribed = {} /\ disposed = {} /\ closed = {}
  /\ turn = [s \in Sessions |-> "none"]
  /\ call = [c \in Calls |-> NewCall]

InFlight(c) == call[c].pc \in {"creating", "switching", "modeling"}
Pooled == {t \in Tasks : pool[t] # None}
IsStreaming(s) == turn[s] = "streaming"

Over(c) == call' = [call EXCEPT ![c] = [NewCall EXCEPT !.pc = "over"]]

\* The session lock and the order of SendPrompt's RPCs: one call of a task at
\* a time, and no prompt before the last turn is over.  SteerTask, which takes
\* no lock, and a lock deleted early let calls overlap.
MayArrive(c, t) ==
  overlap \/ /\ \A d \in Calls : call[d].task = t => ~InFlight(d)
             /\ \A s \in Sessions : owner[s] = t => turn[s] = "none" \/ s \in disposed

-----------------------------------------------------------------------------
(* create and what it is used for.                                         *)

\* After the await: subscribe, and sessions.set.
AddSession(t, m) ==
  LET s == made + 1 IN
    /\ made' = s
    /\ owner' = [owner EXCEPT ![s] = t] /\ mode' = [mode EXCEPT ![s] = m]
    /\ subscribed' = subscribed \cup {s}
    /\ pool' = [pool EXCEPT ![t] = s]
    /\ idle' = idle \ {t}
    /\ UNCHANGED <<disposed, closed>>

\* createSession up to the await, or refused: exists, at capacity, no model.
CreateStart(c, t) ==
  /\ call[c].pc = "new" /\ MayArrive(c, t)
  /\ \/ /\ pool[t] = None /\ Cardinality(Pooled) < MaxSessions
        /\ \E m \in Modes :
             call' = [call EXCEPT ![c] = [pc |-> "creating", op |-> "create", task |-> t,
                                          mode |-> m, on |-> 0]]
     \/ Over(c)
  /\ UNCHANGED <<overlap, pool, idle, sess>>

CreateDone(c) ==
  /\ call[c].pc = "creating"
  /\ AddSession(call[c].task, call[c].mode)
  /\ Over(c)
  /\ UNCHANGED <<overlap, turn>>

\* createAgentSession throws; a mode switch has lost its session by then.
CreateFails(c) ==
  /\ call[c].pc \in {"creating", "switching"}
  /\ Over(c)
  /\ UNCHANGED <<overlap, pool, idle, sess>>

-----------------------------------------------------------------------------
(* prompt.                                                                 *)

\* session.prompt: the turn begins, unless the session rejects it, as it does
\* when it is at work.
Begin(s) ==
  \/ turn[s] = "none" /\ turn' = [turn EXCEPT ![s] = "starting"]
  \/ UNCHANGED turn

\* get refreshes lastActive.
Touch(t) == idle' = idle \ {t}

\* A prompt on the session of its task, in its mode and with its model; one
\* that is refused ends here too.
PromptNow(c, t) ==
  /\ call[c].pc = "new" /\ MayArrive(c, t)
  /\ pool[t] # None
  /\ IF IsStreaming(pool[t]) THEN UNCHANGED turn ELSE Begin(pool[t])
  /\ Touch(t) /\ Over(c)
  /\ UNCHANGED <<overlap, pool, made, owner, mode, subscribed, disposed, closed>>

\* NOT_FOUND, for prompt, steer and abort alike.
NotFound(c, t) ==
  /\ call[c].pc = "new" /\ pool[t] = None
  /\ Over(c)
  /\ UNCHANGED <<overlap, pool, idle, sess>>

\* Mutant: the old session's listener stays.
SwitchKeepsListener(c, t) ==
  LET s == pool[t] IN
    /\ call[c].pc = "new" /\ MayArrive(c, t)
    /\ s # None /\ ~IsStreaming(s)
    /\ pool' = [pool EXCEPT ![t] = None]
    /\ idle' = idle \ {t}
    /\ \E m \in Modes \ {mode[s]} :
         call' = [call EXCEPT ![c] = [pc |-> "switching", op |-> "prompt", task |-> t,
                                      mode |-> m, on |-> 0]]
    /\ UNCHANGED <<overlap, sess>>

\* Mutant: the old session stays in the map until the new one replaces it.
SwitchInPlace(c, t) ==
  LET s == pool[t] IN
    /\ call[c].pc = "new" /\ MayArrive(c, t)
    /\ s # None /\ ~IsStreaming(s)
    /\ subscribed' = subscribed \ {s}
    /\ idle' = idle \ {t}
    /\ \E m \in Modes \ {mode[s]} :
         call' = [call EXCEPT ![c] = [pc |-> "switching", op |-> "prompt", task |-> t,
                                      mode |-> m, on |-> 0]]
    /\ UNCHANGED <<overlap, pool, made, owner, mode, disposed, closed, turn>>

\* switchMode up to create's await: the old session is unsubscribed and taken
\* out, never disposed.  create's own checks follow.
SwitchMode(c, t) ==
  LET s == pool[t] IN
    /\ call[c].pc = "new" /\ MayArrive(c, t)
    /\ s # None /\ ~IsStreaming(s)
    /\ subscribed' = subscribed \ {s}
    /\ pool' = [pool EXCEPT ![t] = None]
    /\ idle' = idle \ {t}
    /\ IF Cardinality(Pooled) - 1 < MaxSessions
         THEN \E m \in Modes \ {mode[s]} :
                call' = [call EXCEPT ![c] = [pc |-> "switching", op |-> "prompt", task |-> t,
                                             mode |-> m, on |-> 0]]
         ELSE Over(c)
    /\ UNCHANGED <<overlap, made, owner, mode, disposed, closed, turn>>

\* switchMode is through: the prompt goes on with the new session.
SwitchDone(c) ==
  /\ call[c].pc = "switching"
  /\ AddSession(call[c].task, call[c].mode)
  /\ \/ Begin(made + 1) /\ Over(c)
     \/ call' = [call EXCEPT ![c].pc = "modeling", ![c].on = made + 1] /\ UNCHANGED turn
  /\ UNCHANGED overlap

\* Mutant: the prompt reads its session without refreshing lastActive.
SetModelUntouched(c, t) ==
  /\ call[c].pc = "new" /\ MayArrive(c, t)
  /\ pool[t] # None /\ ~IsStreaming(pool[t])
  /\ call' = [call EXCEPT ![c] = [pc |-> "modeling", op |-> "prompt", task |-> t,
                                  mode |-> None, on |-> pool[t]]]
  /\ UNCHANGED <<overlap, pool, idle, sess>>

\* A model override, up to the await of setModel.
SetModel(c, t) ==
  /\ call[c].pc = "new" /\ MayArrive(c, t)
  /\ pool[t] # None /\ ~IsStreaming(pool[t])
  /\ Touch(t)
  /\ call' = [call EXCEPT ![c] = [pc |-> "modeling", op |-> "prompt", task |-> t,
                                  mode |-> None, on |-> pool[t]]]
  /\ UNCHANGED <<overlap, pool, sess>>

\* setModel is through, and the prompt goes to the session it began with; or
\* setModel failed.
ModelDone(c) ==
  /\ call[c].pc = "modeling"
  /\ IF IsStreaming(call[c].on) THEN UNCHANGED turn ELSE Begin(call[c].on)
  /\ Over(c)
  /\ UNCHANGED <<overlap, pool, idle, made, owner, mode, subscribed, disposed, closed>>

-----------------------------------------------------------------------------
(* The other handlers and the sweep.                                       *)

\* steer and getSessionState use get.
TouchOnly(c, t) ==
  /\ call[c].pc = "new" /\ pool[t] # None
  /\ Touch(t) /\ Over(c)
  /\ UNCHANGED <<overlap, pool, sess>>

Abort(c, t) ==
  /\ call[c].pc = "new" /\ pool[t] # None
  /\ turn' = [turn EXCEPT ![pool[t]] = "none"]
  /\ Touch(t) /\ Over(c)
  /\ UNCHANGED <<overlap, pool, made, owner, mode, subscribed, disposed, closed>>

\* Mutant: the time of the last use stays behind.
CloseKeepsAge(ts) ==
  LET gone == {pool[t] : t \in ts} IN
    /\ pool' = [t \in Tasks |-> IF t \in ts THEN None ELSE pool[t]]
    /\ subscribed' = subscribed \ gone
    /\ disposed' = disposed \cup gone
    /\ turn' = [s \in Sessions |-> IF s \in gone THEN "none" ELSE turn[s]]
    /\ UNCHANGED <<idle, made, owner, mode>>

\* close of a set of tasks: unsubscribe, dispose, delete.
CloseAll(ts) ==
  LET gone == {pool[t] : t \in ts} IN
    /\ pool' = [t \in Tasks |-> IF t \in ts THEN None ELSE pool[t]]
    /\ idle' = idle \ ts
    /\ subscribed' = subscribed \ gone
    /\ disposed' = disposed \cup gone
    /\ turn' = [s \in Sessions |-> IF s \in gone THEN "none" ELSE turn[s]]
    /\ UNCHANGED <<made, owner, mode>>

Close(c, t) ==
  /\ call[c].pc = "new"
  /\ CloseAll({t} \cap Pooled)
  /\ closed' = closed \cup (disposed' \ disposed)
  /\ Over(c)
  /\ UNCHANGED overlap

\* Mutant: the sweep goes by the age of a session alone.
SweepByAge ==
  /\ idle # {} /\ CloseAll(idle) /\ UNCHANGED <<overlap, closed, call>>

Evictable == {t \in idle : ~IsStreaming(pool[t])}

\* Mutant: the sweep evicts only from a pool that is over its capacity.
SweepWhenOverfull ==
  /\ Evictable # {} /\ Cardinality(Pooled) > MaxSessions
  /\ CloseAll(Evictable) /\ UNCHANGED <<overlap, closed, call>>

Sweep == Evictable # {} /\ CloseAll(Evictable) /\ UNCHANGED <<overlap, closed, call>>

-----------------------------------------------------------------------------
(* The sessions, and time.                                                 *)

\* A turn streams, and ends; it may end before it has streamed.
TurnStreams(s) ==
  /\ turn[s] = "starting"
  /\ turn' = [turn EXCEPT ![s] = "streaming"]
  /\ UNCHANGED <<overlap, pool, idle, made, owner, mode, subscribed, disposed, closed, call>>

TurnEnds(s) ==
  /\ turn[s] # "none"
  /\ turn' = [turn EXCEPT ![s] = "none"]
  /\ UNCHANGED <<overlap, pool, idle, made, owner, mode, subscribed, disposed, closed, call>>

\* Thirty minutes without a get: longer than any handler is at work on the
\* task, and longer than a turn takes to begin.
GoesIdle(t) ==
  /\ pool[t] # None /\ t \notin idle
  /\ \A c \in Calls : call[c].task = t => ~InFlight(c)
  /\ turn[pool[t]] # "starting"
  /\ idle' = idle \cup {t}
  /\ UNCHANGED <<overlap, pool, sess, call>>

Handler(c) ==
  \/ CreateDone(c) \/ CreateFails(c) \/ SwitchDone(c) \/ ModelDone(c)

Arrival(c, t) ==
  \/ CreateStart(c, t) \/ PromptNow(c, t) \/ SwitchMode(c, t) \/ SetModel(c, t)
  \/ NotFound(c, t) \/ TouchOnly(c, t) \/ Abort(c, t) \/ Close(c, t)

Next ==
  \/ \E c \in Calls : Handler(c) \/ \E t \in Tasks : Arrival(c, t)
  \/ Sweep
  \/ \E s \in Sessions : TurnStreams(s) \/ TurnEnds(s)
  \/ \E t \in Tasks : GoesIdle(t)

Spec == Init /\ [][Next]_vars

\* Awaits return, a turn ends, time passes, and the sweep runs every minute.
FairSpec ==
  /\ Spec
  /\ \A c \in Calls : WF_vars(Handler(c))
  /\ \A s \in Sessions : WF_vars(TurnEnds(s))
  /\ \A t \in Tasks : WF_vars(GoesIdle(t))
  /\ WF_vars(Sweep)

-----------------------------------------------------------------------------
(* What the pool promises.                                                 *)

\* What the pool holds is alive: whoever gets a session from it prompts one
\* whose events reach the task service, in spite of every overlap.
PoolIsAlive == \A t \in Pooled :
  pool[t] \in subscribed \ disposed /\ owner[pool[t]] = t

\* README: one AgentSession per task.
Single == \A r, s \in subscribed : owner[r] = owner[s] => r = s

\* Mode switches, evictions and closes keep it where the calls of a task come
\* one after the other.
OnePerTask == ~overlap => Single

\* A turn that runs can be aborted, closed and swept: its session is the one
\* in the pool and is heard, unless it was closed under the call.
TurnIsReachable == ~overlap =>
  \A s \in Sessions : turn[s] # "none" /\ s \notin closed =>
    pool[owner[s]] = s /\ s \in subscribed

\* An eviction never cuts off a running turn, nor one that begins.
SweepSparesTurns ==
  [][Sweep => \A s \in Sessions : s \in disposed' \ disposed => turn[s] = "none"]_vars

\* A session is not kept for ever: its listener goes when nobody uses it.
EvictedInTheEnd == ~overlap => \A s \in Sessions : []<>(s \notin subscribed)
=============================================================================
