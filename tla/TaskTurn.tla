------------------------------ MODULE TaskTurn ------------------------------
(***************************************************************************)
(* One task of the task service: its row in task.tasks, its session lock   *)
(* in Redis, the calls that act on it (SendPrompt, SteerTask, AbortTask,   *)
(* DeleteTask, archive), the turn watchdog, the agent-runtimes that may    *)
(* hold its session, and the event stream each runtime pushes back.        *)
(*                                                                         *)
(* Every key and row of the service is per task, and tasks meet only in    *)
(* the capacity of a runtime, which appears here as a CreateSession that   *)
(* fails.  So one task, with every call that may act on it, is the whole   *)
(* protocol.                                                               *)
(*                                                                         *)
(* A call is one step per access to Postgres, Redis or a runtime.  Which   *)
(* interference a behaviour meets, a set of members of Interference, is     *)
(* chosen in its first state from the constant Scenarios.                  *)
(***************************************************************************)
EXTENDS Naturals, Sequences

CONSTANTS
  Runtimes,      \* agent-runtime processes
  Prompts,       \* SendPrompt invocations
  Steers,        \* SteerTask invocations
  Aborts,        \* AbortTask invocations
  FirstPrompt,   \* the prompt CreateTask starts by itself, or None
  Watchdog,      \* the watchdog loop, as the identity of its sweep
  Deleter,       \* the one DeleteTask invocation
  None,          \* no runtime, no lock holder, no turn
  Scenarios      \* sets of interference, one of which a behaviour meets

Interference ==
  {"prompt", "steer", "abort", "expire", "watchdog", "archive", "delete",
   "lapse", "crash", "evict", "lose", "lostreply", "hang", "cancel"}

Calls == Prompts \cup Steers
Ops   == Aborts \cup {Watchdog, Deleter}

ASSUME TurnAssumption ==
  /\ Scenarios \subseteq SUBSET Interference
  /\ FirstPrompt \in Prompts \cup {None}
  /\ None \notin Runtimes \cup Calls
  /\ Prompts \cap Steers = {}
  /\ Watchdog # Deleter
  /\ Watchdog \notin Aborts
  /\ Deleter \notin Aborts

VARIABLES
  env,        \* the interference of this behaviour: never changes
  status,     \* tasks.status, "deleted" once the row is gone
  rowRt,      \* tasks.runtime_id
  lock,       \* lock:session:<id>: who set it (the code stores "1"), or None
  fresh,      \* task:lastev:<id> is younger than the watchdog's timeout
  streamKey,  \* stream:task:<id> and seq:task:<id> exist
  view,       \* the running flag of a client that has read the whole stream
  up,         \* runtimes whose process runs and answers RPCs
  healthy,    \* runtimes whose heartbeat key is alive: registry.Get succeeds
  pool,       \* runtimes that hold a session of the task
  turn,       \* the prompt a runtime's session is streaming, or None
  chan,       \* events a runtime has pushed, in order
  step,       \* how far onEvent is with the head of a runtime's chan
  pc,         \* control point of a SendPrompt or SteerTask call
  callRt,     \* t.RuntimeID in the call's copy of the row
  tries,      \* ensureSession's tryIDs still to be visited
  opc,        \* control point of an abort, of the watchdog, of the delete
  opRt        \* the runtime_id that operation read

row    == <<status, rowRt>>
stream == <<fresh, streamKey, view>>
rts    == <<up, healthy, pool, turn, chan>>
calls  == <<pc, callRt, tries>>
ops    == <<opc, opRt>>
vars   == <<env, status, rowRt, lock, fresh, streamKey, view, up, healthy, pool,
            turn, chan, step, pc, callRt, tries, opc, opRt>>

Statuses == {"pending", "idle", "running", "failed", "archived", "deleted"}
Event    == [type : {"agent_start", "agent_settled", "error"}, turn : Prompts]
IsTerminal(e) == e.type \in {"agent_settled", "error"}

PcStates  == {"new", "read", "ensure", "try", "hosted", "ensured", "unwind",
              "accepted", "marked", "refused", "done"}
OpStates  == {"new", "read", "called", "released", "marked", "done"}

TypeOK ==
  /\ env \in Scenarios
  /\ status \in Statuses
  /\ rowRt \in Runtimes \cup {None}
  /\ lock \in Prompts \cup {None}
  /\ fresh \in BOOLEAN /\ streamKey \in BOOLEAN
  /\ view \in {"running", "stopped"}
  /\ up \subseteq Runtimes /\ healthy \subseteq Runtimes
  /\ pool \subseteq Runtimes
  /\ turn \in [Runtimes -> Prompts \cup {None}]
  /\ chan \in [Runtimes -> Seq(Event)]
  /\ step \in [Runtimes -> {"recv", "status", "release", "synth"}]
  /\ pc \in [Calls -> PcStates]
  /\ callRt \in [Calls -> Runtimes \cup {None}]
  /\ tries \in [Calls -> Seq(Runtimes)]
  /\ opc \in [Ops -> OpStates]
  /\ opRt \in [Ops -> Runtimes \cup {None}]

\* The calls this behaviour has: CreateTask's own prompt, more prompts, steers.
InPlay(c) == \/ c = FirstPrompt
             \/ c \in Prompts /\ "prompt" \in env
             \/ c \in Steers /\ "steer" \in env

\* CreateTask has inserted the row: nothing has run yet.
Init ==
  /\ env \in Scenarios
  /\ status = "pending" /\ rowRt = None
  /\ lock = None
  /\ fresh = TRUE /\ streamKey = FALSE /\ view = "stopped"
  /\ up = Runtimes /\ healthy = Runtimes /\ pool = {}
  /\ turn = [r \in Runtimes |-> None]
  /\ chan = [r \in Runtimes |-> <<>>]
  /\ step = [r \in Runtimes |-> "recv"]
  /\ pc = [c \in Calls |-> IF InPlay(c) THEN "new" ELSE "done"]
  /\ callRt = [c \in Calls |-> None]
  /\ tries = [c \in Calls |-> <<>>]
  /\ opc = [o \in Ops |-> "new"]
  /\ opRt = [o \in Ops |-> None]

-----------------------------------------------------------------------------
(* Store and stream primitives.                                            *)

\* Mutant: the UPDATE without AND status <> 'archived'.
SetStatusOfAnyRow(s) ==
  status' = IF status = "deleted" THEN status ELSE s

\* Store.SetStatus: WHERE id = $1 AND status <> 'archived'.
SetStatus(s) ==
  status' = IF status \in {"archived", "deleted"} THEN status ELSE s

\* Store.SetRuntime: no guard but the row's existence.
SetRuntime(r) == rowRt' = IF status = "deleted" THEN rowRt ELSE r

\* Pipeline.Ingest of one event: the stream keys exist afterwards, the
\* activity marker is new, and a reader of the stream shows v.
Ingest(v) == fresh' = TRUE /\ streamKey' = TRUE /\ view' = v

Goto(c, p)   == pc' = [pc EXCEPT ![c] = p]
OpGoto(o, p) == opc' = [opc EXCEPT ![o] = p]

\* A failed call returns; the goroutine of CreateTask first reports it.
Failed(c) == Goto(c, IF c = FirstPrompt THEN "refused" ELSE "done")

-----------------------------------------------------------------------------
(* SendPrompt and SteerTask.                                               *)

\* store.Get and the checks on the row it returned.
ReadTask(c) ==
  /\ pc[c] = "new"
  /\ IF status = "deleted" \/ (status = "archived" /\ c \in Prompts)
       THEN Failed(c) /\ UNCHANGED callRt
       ELSE Goto(c, "read") /\ callRt' = [callRt EXCEPT ![c] = rowRt]
  /\ UNCHANGED <<env, row, lock, stream, rts, step, tries, ops>>

\* quota.Allowed refuses.
RefuseQuota(c) ==
  /\ pc[c] = "read" /\ c \in Prompts
  /\ Failed(c)
  /\ UNCHANGED <<env, row, lock, stream, rts, step, callRt, tries, ops>>

\* Mutant: SET instead of SETNX, the lock is taken over from its holder.
AcquireLockAnyway(c) ==
  /\ pc[c] = "read" /\ c \in Prompts
  /\ lock' = c /\ Goto(c, "ensure")
  /\ UNCHANGED <<env, row, stream, rts, step, callRt, tries, ops>>

\* AcquireSessionLock: SETNX; busy when somebody holds it.
AcquireLock(c) ==
  /\ pc[c] = "read" /\ c \in Prompts
  /\ IF lock = None
       THEN lock' = c /\ Goto(c, "ensure")
       ELSE Failed(c) /\ UNCHANGED lock
  /\ UNCHANGED <<env, row, stream, rts, step, callRt, tries, ops>>

\* SteerTask goes to ensureSession without the lock.
SteerUnlocked(c) ==
  /\ pc[c] = "read" /\ c \in Steers
  /\ Goto(c, "ensure")
  /\ UNCHANGED <<env, row, lock, stream, rts, step, callRt, tries, ops>>

\* Mutant: SendPrompt returns on an error without releasing the lock.
AbandonWithLock(c) == Goto(c, "done")

\* What an error of ensureSession or of the RPC does: SendPrompt still has to
\* release the lock, SteerTask returns.
Abandon(c) == Goto(c, IF c \in Prompts THEN "unwind" ELSE "done")

\* Mutant: the row's runtime is tried again although the row names none.
PickRuntimeOrNone(c) ==
  /\ pc[c] = "ensure"
  /\ \E r \in healthy : tries' = [tries EXCEPT ![c] = <<r, callRt[c]>>]
  /\ Goto(c, "try")
  /\ UNCHANGED <<env, row, lock, stream, rts, step, callRt, ops>>

\* ensureSession's choice: the row's runtime when healthy, else Pick's, and
\* then the row's runtime once more.
PickRuntime(c) ==
  /\ pc[c] = "ensure"
  /\ \/ /\ callRt[c] \in healthy
        /\ tries' = [tries EXCEPT ![c] = <<callRt[c]>>]
        /\ Goto(c, "try")
     \/ /\ callRt[c] \notin healthy
        /\ \E r \in healthy :
             tries' = [tries EXCEPT ![c] =
               IF callRt[c] = None THEN <<r>> ELSE <<r, callRt[c]>>]
        /\ Goto(c, "try")
     \/ /\ callRt[c] \notin healthy      \* Pick finds no listed runtime
        /\ Abandon(c)
        /\ UNCHANGED tries
  /\ UNCHANGED <<env, row, lock, stream, rts, step, callRt, ops>>

\* One round of ensureSession's loop that finds or creates the session on the
\* next runtime.
HostSession(c) ==
  /\ pc[c] = "try" /\ tries[c] # <<>>
  /\ LET r == Head(tries[c]) IN
       /\ r \in healthy \cap up
       /\ pool' = pool \cup {r}
       /\ Goto(c, IF callRt[c] = r THEN "ensured" ELSE "hosted")
  /\ UNCHANGED <<env, row, lock, stream, up, healthy, turn, chan, step, callRt,
                 tries, ops>>

\* The session is on another runtime than the row names: the row follows.
RecordRuntime(c) ==
  /\ pc[c] = "hosted" /\ tries[c] # <<>>
  /\ SetRuntime(Head(tries[c]))
  /\ callRt' = [callRt EXCEPT ![c] = Head(tries[c])]
  /\ Goto(c, "ensured")
  /\ UNCHANGED <<env, status, lock, stream, rts, step, tries, ops>>

\* The session is there, or is created, but the replies say otherwise: the next
\* runtime is tried, and this one keeps the session.
HostReplyLost(c) ==
  /\ "lostreply" \in env
  /\ pc[c] = "try" /\ tries[c] # <<>>
  /\ Head(tries[c]) \in healthy \cap up
  /\ pool' = pool \cup {Head(tries[c])}
  /\ tries' = [tries EXCEPT ![c] = Tail(@)]
  /\ UNCHANGED <<env, row, lock, stream, up, healthy, turn, chan, step, pc, callRt, ops>>

\* A round that fails: the runtime is unhealthy or does not answer, or has no
\* session of the task and refuses to create one (at capacity, unknown model).
TryNext(c) ==
  /\ pc[c] = "try" /\ tries[c] # <<>>
  /\ Head(tries[c]) \notin healthy \cap up \cap pool
  /\ tries' = [tries EXCEPT ![c] = Tail(@)]
  /\ UNCHANGED <<env, row, lock, stream, rts, step, pc, callRt, ops>>

\* "no runtime could host the session"
NoHost(c) ==
  /\ pc[c] = "try" /\ tries[c] = <<>>
  /\ Abandon(c)
  /\ UNCHANGED <<env, row, lock, stream, rts, step, callRt, tries, ops>>

\* The runtime's Prompt handler finds the session, and finds it not streaming.
AcceptsPrompt(r) == r \in up /\ r \in pool /\ turn[r] = None

StartTurn(c, r) ==
  /\ turn' = [turn EXCEPT ![r] = c]
  /\ chan' = [chan EXCEPT ![r] = Append(@, [type |-> "agent_start", turn |-> c])]

PromptAccepted(c) ==
  /\ pc[c] = "ensured" /\ c \in Prompts
  /\ AcceptsPrompt(callRt[c])
  /\ StartTurn(c, callRt[c])
  /\ Goto(c, "accepted")
  /\ UNCHANGED <<env, row, lock, stream, up, healthy, pool, step, callRt, tries, ops>>

\* Accepted, but session.prompt rejects before it starts: an error event only.
PromptFailsFast(c) ==
  /\ pc[c] = "ensured" /\ c \in Prompts
  /\ AcceptsPrompt(callRt[c])
  /\ chan' = [chan EXCEPT ![callRt[c]] =
                Append(@, [type |-> "error", turn |-> c])]
  /\ Goto(c, "accepted")
  /\ UNCHANGED <<env, row, lock, stream, up, healthy, pool, turn, step, callRt,
                 tries, ops>>

\* With a streaming_behavior the runtime accepts a prompt for a session that is
\* streaming: the message joins the running turn, and no turn starts.
PromptQueued(c) ==
  /\ pc[c] = "ensured" /\ c \in Prompts
  /\ LET r == callRt[c] IN r \in up /\ r \in pool /\ turn[r] # None
  /\ Goto(c, "accepted")
  /\ UNCHANGED <<env, row, lock, stream, rts, step, callRt, tries, ops>>

\* Mutant: a failed Prompt RPC is retried on the next runtime.
PromptRetriedElsewhere(c) ==
  /\ "lostreply" \in env
  /\ pc[c] = "ensured" /\ c \in Prompts
  /\ AcceptsPrompt(callRt[c])
  /\ StartTurn(c, callRt[c])
  /\ Goto(c, "ensure")
  /\ UNCHANGED <<env, row, lock, stream, up, healthy, pool, step, callRt, tries, ops>>

\* The runtime accepts but the caller sees an error (connection lost,
\* deadline): SendPrompt treats the prompt as not delivered.
PromptReplyLost(c) ==
  /\ "lostreply" \in env
  /\ pc[c] = "ensured" /\ c \in Prompts
  /\ AcceptsPrompt(callRt[c])
  /\ StartTurn(c, callRt[c])
  /\ Goto(c, "unwind")
  /\ UNCHANGED <<env, row, lock, stream, up, healthy, pool, step, callRt, tries, ops>>

\* The prompt is refused: session gone, session streaming, runtime
\* unreachable, or the per-turn model or mode switch fails.  A failed mode
\* switch has already taken the session out of the pool.
PromptRejected(c) ==
  /\ pc[c] = "ensured" /\ c \in Prompts
  /\ \/ UNCHANGED pool
     \/ AcceptsPrompt(callRt[c]) /\ pool' = pool \ {callRt[c]}
  /\ Goto(c, "unwind")
  /\ UNCHANGED <<env, row, lock, stream, up, healthy, turn, chan, step, callRt,
                 tries, ops>>

\* Steer only queues a message in the session: no turn starts.
SteerSession(c) ==
  /\ pc[c] = "ensured" /\ c \in Steers
  /\ Goto(c, "done")
  /\ UNCHANGED <<env, row, lock, stream, rts, step, callRt, tries, ops>>

\* ReleaseSessionLock on SendPrompt's error paths: an unconditional DEL.
Unwind(c) ==
  /\ pc[c] = "unwind" /\ c \in Prompts
  /\ lock' = None
  /\ Failed(c)
  /\ UNCHANGED <<env, row, stream, rts, step, callRt, tries, ops>>

\* Mutant: the release is deferred in SendPrompt, so success runs it too.
MarkRunningAndRelease(c) ==
  /\ pc[c] = "accepted"
  /\ SetStatus("running") /\ lock' = None
  /\ Goto(c, "marked")
  /\ UNCHANGED <<env, rowRt, stream, rts, step, callRt, tries, ops>>

MarkRunning(c) ==
  /\ pc[c] = "accepted"
  /\ SetStatus("running")
  /\ Goto(c, "marked")
  /\ UNCHANGED <<env, rowRt, lock, stream, rts, step, callRt, tries, ops>>

SynthRunning(c) ==
  /\ pc[c] = "marked"
  /\ Ingest("running")
  /\ Goto(c, "done")
  /\ UNCHANGED <<env, row, lock, rts, step, callRt, tries, ops>>

\* CreateTask's goroutine: the first prompt failed.
FirstPromptFailed(c) ==
  /\ pc[c] = "refused"
  /\ Ingest("stopped")
  /\ SetStatus("idle")
  /\ Goto(c, "done")
  /\ UNCHANGED <<env, rowRt, lock, rts, step, callRt, tries, ops>>

\* The context of the request is done: its client has gone, or its deadline is
\* over.  Every access left fails at once, the release of the lock included, and
\* the call returns; a Prompt RPC on its way may have been accepted.  Only synth
\* works with a context of its own.  CreateTask's prompt has a context without end.
ContextDone(c) ==
  /\ "cancel" \in env /\ c # FirstPrompt
  /\ pc[c] \notin {"new", "marked", "refused", "done"}
  /\ \/ UNCHANGED <<turn, chan>>
     \/ /\ pc[c] = "ensured" /\ c \in Prompts
        /\ AcceptsPrompt(callRt[c])
        /\ StartTurn(c, callRt[c])
  /\ Goto(c, IF pc[c] = "accepted" THEN "marked" ELSE "done")
  /\ UNCHANGED <<env, row, lock, stream, up, healthy, pool, step, callRt, tries, ops>>

CallStep(c) ==
  \/ ReadTask(c) \/ RefuseQuota(c) \/ AcquireLock(c) \/ SteerUnlocked(c)
  \/ PickRuntime(c) \/ HostSession(c) \/ RecordRuntime(c) \/ HostReplyLost(c)
  \/ TryNext(c) \/ NoHost(c)
  \/ PromptAccepted(c) \/ PromptFailsFast(c) \/ PromptQueued(c)
  \/ PromptReplyLost(c) \/ PromptRejected(c) \/ SteerSession(c) \/ Unwind(c)
  \/ MarkRunning(c) \/ SynthRunning(c) \/ FirstPromptFailed(c)

-----------------------------------------------------------------------------
(* PushEvents and onEvent: one goroutine per runtime stream.               *)

\* The handled event stays at the head of chan until onEvent returns.
NextEvent(r) == chan' = [chan EXCEPT ![r] = Tail(@)]
StepTo(r, s) == step' = [step EXCEPT ![r] = s]

IngestEvent(r) ==
  /\ step[r] = "recv" /\ chan[r] # <<>>
  /\ Ingest(IF IsTerminal(Head(chan[r])) THEN "stopped" ELSE "running")
  /\ StepTo(r, "status")
  /\ UNCHANGED <<env, row, lock, rts, calls, ops>>

ApplyStatus(r) ==
  /\ step[r] = "status"
  /\ IF IsTerminal(Head(chan[r]))
       THEN SetStatus("idle") /\ StepTo(r, "release") /\ UNCHANGED chan
       ELSE SetStatus("running") /\ StepTo(r, "recv") /\ NextEvent(r)
  /\ UNCHANGED <<env, rowRt, lock, stream, up, healthy, pool, turn, calls, ops>>

\* Mutant: only agent_settled releases the lock, an error does not.
ReleaseWhenSettled(r) ==
  /\ step[r] = "release"
  /\ lock' = IF Head(chan[r]).type = "agent_settled" THEN None ELSE lock
  /\ StepTo(r, "synth")
  /\ UNCHANGED <<env, row, stream, rts, calls, ops>>

ApplyRelease(r) ==
  /\ step[r] = "release"
  /\ lock' = None
  /\ StepTo(r, "synth")
  /\ UNCHANGED <<env, row, stream, rts, calls, ops>>

ApplySynthIdle(r) ==
  /\ step[r] = "synth"
  /\ Ingest("stopped")
  /\ StepTo(r, "recv") /\ NextEvent(r)
  /\ UNCHANGED <<env, row, lock, up, healthy, pool, turn, calls, ops>>

\* The PushEvents stream breaks while onEvent handles an event: the context of
\* SetStatus and of ReleaseSessionLock is done, that of synthIdle is not.
StreamBreaks(r) ==
  /\ "cancel" \in env
  /\ step[r] \in {"status", "release"}
  /\ IF IsTerminal(Head(chan[r]))
       THEN StepTo(r, "synth") /\ UNCHANGED chan
       ELSE StepTo(r, "recv") /\ NextEvent(r)
  /\ UNCHANGED <<env, row, lock, stream, up, healthy, pool, turn, calls, ops>>

EventStep(r) ==
  IngestEvent(r) \/ ApplyStatus(r) \/ ApplyRelease(r) \/ ApplySynthIdle(r)

-----------------------------------------------------------------------------
(* The agent-runtimes.                                                     *)

\* The streaming turn of r, if any, ends and its agent_settled is pushed.
EndTurn(r) ==
  IF turn[r] = None
    THEN UNCHANGED <<turn, chan>>
    ELSE /\ turn' = [turn EXCEPT ![r] = None]
         /\ chan' = [chan EXCEPT ![r] =
                       Append(@, [type |-> "agent_settled", turn |-> turn[r]])]

TurnSettles(r) ==
  /\ turn[r] # None
  /\ EndTurn(r)
  /\ UNCHANGED <<env, row, lock, stream, up, healthy, pool, step, calls, ops>>

\* The sweep closes a session that is not streaming.
Evict(r) ==
  /\ "evict" \in env
  /\ r \in pool /\ turn[r] = None
  /\ pool' = pool \ {r}
  /\ UNCHANGED <<env, row, lock, stream, up, healthy, turn, chan, step, calls, ops>>

\* The heartbeat key expires: the process died, or its beats do not arrive.
Lapse(r) ==
  /\ "lapse" \in env \/ r \notin up
  /\ r \in healthy
  /\ healthy' = healthy \ {r}
  /\ UNCHANGED <<env, row, lock, stream, up, pool, turn, chan, step, calls, ops>>

Beat(r) ==
  /\ r \in up \ healthy
  /\ healthy' = healthy \cup {r}
  /\ UNCHANGED <<env, row, lock, stream, up, pool, turn, chan, step, calls, ops>>

\* The process dies with its sessions; what it has pushed is still on its way.
Crash(r) ==
  /\ "crash" \in env
  /\ r \in up
  /\ up' = up \ {r}
  /\ pool' = pool \ {r}
  /\ turn' = [turn EXCEPT ![r] = None]
  /\ UNCHANGED <<env, row, lock, stream, healthy, chan, step, calls, ops>>

Restart(r) ==
  /\ r \notin up
  /\ up' = up \cup {r}
  /\ UNCHANGED <<env, row, lock, stream, healthy, pool, turn, chan, step, calls, ops>>

\* The oldest event not yet received never arrives: PushEvents broke, the
\* runtime's queue overflowed, or Ingest failed.
LoseEvent(r) ==
  /\ "lose" \in env
  /\ step[r] = "recv" /\ chan[r] # <<>>
  /\ chan' = [chan EXCEPT ![r] = Tail(@)]
  /\ UNCHANGED <<env, row, lock, stream, up, healthy, pool, turn, step, calls, ops>>

RuntimeStep(r) ==
  \/ TurnSettles(r) \/ Evict(r) \/ Lapse(r) \/ Beat(r)
  \/ Crash(r) \/ Restart(r) \/ LoseEvent(r)

-----------------------------------------------------------------------------
(* AbortTask, the watchdog, DeleteTask, archive, and the passing of time.  *)

\* The best-effort Abort RPC to the runtime the operation read: it ends the
\* turn there, or fails and is ignored.
AbortOn(r) ==
  \/ r \in healthy \cap up /\ EndTurn(r)
  \/ UNCHANGED <<turn, chan>>

AbortRead(a) ==
  /\ "abort" \in env
  /\ opc[a] = "new" /\ status # "deleted"
  /\ opRt' = [opRt EXCEPT ![a] = rowRt]
  /\ OpGoto(a, "read")
  /\ UNCHANGED <<env, row, lock, stream, rts, step, calls>>

AbortCall(o) ==
  /\ o # Deleter
  /\ opc[o] = "read"
  /\ AbortOn(opRt[o])
  /\ OpGoto(o, "called")
  /\ UNCHANGED <<env, row, lock, stream, up, healthy, pool, step, calls, opRt>>

ForceRelease(o) ==
  /\ o # Deleter
  /\ opc[o] = "called"
  /\ lock' = None
  /\ OpGoto(o, "released")
  /\ UNCHANGED <<env, row, stream, rts, step, calls, opRt>>

AbortSynth(a) ==
  /\ opc[a] = "released"
  /\ Ingest("stopped")
  /\ OpGoto(a, "done")
  /\ UNCHANGED <<env, row, lock, rts, step, calls, opRt>>

\* Mutant: tasks whose runtime is not in the registry are skipped.
ScanKnownRuntimes ==
  /\ "watchdog" \in env
  /\ opc[Watchdog] = "new"
  /\ status = "running" /\ ~fresh /\ rowRt \in healthy
  /\ opRt' = [opRt EXCEPT ![Watchdog] = rowRt]
  /\ OpGoto(Watchdog, "read")
  /\ UNCHANGED <<env, row, lock, stream, rts, step, calls>>

\* watchdogOnce: the row is running and its activity marker is too old.
WatchdogScan ==
  /\ "watchdog" \in env
  /\ opc[Watchdog] = "new"
  /\ status = "running" /\ ~fresh
  /\ opRt' = [opRt EXCEPT ![Watchdog] = rowRt]
  /\ OpGoto(Watchdog, "read")
  /\ UNCHANGED <<env, row, lock, stream, rts, step, calls>>

WatchdogFail ==
  /\ opc[Watchdog] = "released"
  /\ SetStatus("failed")
  /\ OpGoto(Watchdog, "marked")
  /\ UNCHANGED <<env, rowRt, lock, stream, rts, step, calls, opRt>>

WatchdogSynth ==
  /\ opc[Watchdog] = "marked"
  /\ Ingest("stopped")
  /\ OpGoto(Watchdog, "new")
  /\ UNCHANGED <<env, row, lock, rts, step, calls, opRt>>

DeleteRead ==
  /\ "delete" \in env
  /\ opc[Deleter] = "new"
  /\ opRt' = [opRt EXCEPT ![Deleter] = rowRt]
  /\ OpGoto(Deleter, "read")
  /\ UNCHANGED <<env, row, lock, stream, rts, step, calls>>

\* CloseSession disposes the session: no agent_settled comes from it.
DeleteClose ==
  /\ opc[Deleter] = "read"
  /\ LET r == opRt[Deleter] IN
       IF r \in healthy \cap up
         THEN pool' = pool \ {r} /\ turn' = [turn EXCEPT ![r] = None]
         ELSE UNCHANGED <<pool, turn>>
  /\ OpGoto(Deleter, "called")
  /\ UNCHANGED <<env, row, lock, stream, up, healthy, chan, step, calls, opRt>>

DeleteRow ==
  /\ opc[Deleter] = "called"
  /\ status' = "deleted" /\ rowRt' = None
  /\ OpGoto(Deleter, "marked")
  /\ UNCHANGED <<env, lock, stream, rts, step, calls, opRt>>

\* cleanupTaskRedis
DeleteKeys ==
  /\ opc[Deleter] = "marked"
  /\ streamKey' = FALSE /\ view' = "stopped"
  /\ lock' = None
  /\ OpGoto(Deleter, "done")
  /\ UNCHANGED <<env, row, fresh, rts, step, calls, opRt>>

\* The client of an abort or of the delete has gone: what is left of the call
\* fails, but for the abort's synthetic status.
OpCancelled(o) ==
  /\ "cancel" \in env /\ o # Watchdog
  /\ opc[o] \in {"read", "called", "marked"}
  /\ OpGoto(o, IF o = Deleter THEN "done" ELSE "released")
  /\ UNCHANGED <<env, row, lock, stream, rts, step, calls, opRt>>

\* UpdateTask with archive: nothing but the row changes.
Archive ==
  /\ "archive" \in env
  /\ status # "deleted"
  /\ status' = "archived"
  /\ UNCHANGED <<env, rowRt, lock, stream, rts, step, calls, ops>>

\* More time than the watchdog's timeout passes without an event.
Silence ==
  /\ "watchdog" \in env
  /\ fresh
  /\ fresh' = FALSE
  /\ UNCHANGED <<env, row, lock, streamKey, view, rts, step, calls, ops>>

\* The 15 minutes of the session lock are over.
LockExpires ==
  /\ "expire" \in env
  /\ lock # None
  /\ lock' = None
  /\ UNCHANGED <<env, row, stream, rts, step, calls, ops>>

AbortStep(a) == AbortRead(a) \/ AbortCall(a) \/ ForceRelease(a) \/ AbortSynth(a)
WatchdogStep ==
  \/ WatchdogScan \/ AbortCall(Watchdog) \/ ForceRelease(Watchdog)
  \/ WatchdogFail \/ WatchdogSynth
CancelStep ==
  \/ \E c \in Calls : ContextDone(c)
  \/ \E r \in Runtimes : StreamBreaks(r)
  \/ \E o \in Ops : OpCancelled(o)
DeleteStep == DeleteRead \/ DeleteClose \/ DeleteRow \/ DeleteKeys

Next ==
  \/ \E c \in Calls : CallStep(c)
  \/ \E r \in Runtimes : EventStep(r) \/ RuntimeStep(r)
  \/ \E a \in Aborts : AbortStep(a)
  \/ WatchdogStep \/ DeleteStep
  \/ Archive \/ Silence \/ LockExpires \/ CancelStep

Spec == Init /\ [][Next]_vars

\* Handlers and loops that start keep going, time passes, and the model
\* provider answers or errors in the end unless it hangs; the user, the
\* network and crashed processes owe nothing.
Fairness ==
  /\ \A c \in Calls : WF_vars(CallStep(c))
  /\ \A r \in Runtimes : WF_vars(EventStep(r))
  /\ \A r \in Runtimes : WF_vars("hang" \notin env /\ TurnSettles(r))
  /\ WF_vars(WatchdogStep)
  /\ WF_vars(Silence)

FairSpec == Spec /\ Fairness

-----------------------------------------------------------------------------
(* What the lock is for.                                                   *)

\* Position i of chan[r] is a terminal event whose lock release is still to come.
Unreleased(r, i) ==
  /\ i \in 1..Len(chan[r])
  /\ IsTerminal(chan[r][i])
  /\ ~(i = 1 /\ step[r] = "synth")

Sending(c) == pc[c] \in {"ensure", "try", "hosted", "ensured", "unwind"}
Busy(r) ==
  r \in Runtimes /\ (turn[r] # None \/ \E i \in 1..Len(chan[r]) : Unreleased(r, i))

\* What may delete the lock, or give up on a prompt, behind the back of a turn
\* that still runs.
LockBreakers == {"abort", "expire", "watchdog", "delete", "lostreply"}
Unforced == env \cap LockBreakers = {}

\* What may end a turn, or the lock's owner, without anybody applying the release:
\* after a DEL that a done context has held back, only the TTL frees the lock.
LossFree == env \cap {"watchdog", "delete", "crash", "lose", "cancel"} = {}

\* PLAN.md: sessions are mutually exclusive through lock:session:<id>.  While
\* nothing deletes the lock early, no two runtimes stream the task's session
\* at once, whatever fails over, lapses, crashes or is cancelled.
OneStream == \A r, s \in Runtimes : turn[r] # None /\ turn[s] # None => r = s
SerialTurns == Unforced => OneStream

\* The accepted prompts, and those that have failed for good.
Delivered(c) == pc[c] \in {"accepted", "marked", "done"}

\* onEvent works on an event that is there.
HandlerBusy == \A r \in Runtimes :
  /\ step[r] # "recv" => chan[r] # <<>>
  /\ step[r] \in {"release", "synth"} => IsTerminal(Head(chan[r]))

\* The claim of one prompt on the session: from the moment SendPrompt has the
\* lock until onEvent releases it for the turn's own terminal event, one prompt
\* has a claim, it is the one that set the lock, and no stale event of an
\* earlier turn is left to release the lock under it.
Claimed ==
  /\ \A c \in Prompts : Sending(c) => lock = c
  /\ \A r \in Runtimes : turn[r] # None => lock = turn[r] /\ Delivered(turn[r])
  /\ \A r \in Runtimes : \A i \in 1..Len(chan[r]) :
       Unreleased(r, i) => lock = chan[r][i].turn /\ Delivered(chan[r][i].turn)
  /\ \A r, s \in Runtimes : turn[r] # None =>
       /\ turn[s] # None => r = s
       /\ \A i \in 1..Len(chan[s]) : ~Unreleased(s, i)
  /\ \A r, s \in Runtimes : \A i \in 1..Len(chan[r]), j \in 1..Len(chan[s]) :
       Unreleased(r, i) /\ Unreleased(s, j) => r = s /\ i = j

\* Why turns are serial: one claim at a time, and the lock names its owner.
LockCoversTurn == Unforced => Claimed

\* No leak, where no runtime dies, no event is lost and no context is done before
\* its call or handler is: whoever took the lock is on its way to giving it
\* back - in SendPrompt, or on the runtime that accepted its prompt, which is
\* streaming or has pushed a terminal event onEvent has not applied yet.  Aborts,
\* lost replies, failovers and refusals leave nothing to the TTL.
LockIsAccountedFor ==
  LossFree /\ lock # None => Sending(lock) \/ Busy(callRt[lock])

\* Failover and retries deliver a prompt at most once: a prompt SendPrompt has
\* not delivered yet left no trace in any runtime, and a delivered one
\* has one trace, its running turn or its terminal event.
Traces(c) ==
  {<<r, 0>> : r \in {x \in Runtimes : turn[x] = c}} \cup
  UNION {{<<r, i>> : i \in {j \in 1..Len(chan[r]) :
            IsTerminal(chan[r][j]) /\ chan[r][j].turn = c}} : r \in Runtimes}

DeliveredAtMostOnce ==
  \A c \in Prompts :
    /\ pc[c] \in {"new", "read", "ensure", "try", "hosted", "ensured"} => Traces(c) = {}
    /\ \A x, y \in Traces(c) : x = y

\* The prompt whose turn runs, as a user of the task sees it.
Current ==
  IF \E r \in Runtimes : turn[r] # None
    THEN turn[CHOOSE r \in Runtimes : turn[r] # None] ELSE None

Abstract == INSTANCE OneTurn WITH
  current <- IF Unforced THEN Current ELSE None,
  spent   <- IF Unforced THEN {c \in Prompts : Delivered(c)} ELSE {}

\* The protocol of lock, failover and events implements one turn at a time: each
\* prompt runs once or, once SendPrompt has given up on it, never.
ServesOneByOne == Abstract!Spec

\* Archiving is final: no late event, watchdog verdict or failed first prompt
\* brings an archived task back.
ArchivedIsFinal ==
  [][status = "archived" => status' \in {"archived", "deleted"}]_vars

\* Nothing is going on any more: no call, no turn, no event in flight.
Quiescent ==
  /\ \A c \in Calls : pc[c] = "done"
  /\ \A r \in Runtimes : turn[r] = None /\ chan[r] = <<>>
  /\ \A o \in Ops : opc[o] \in {"new", "done"}

\* synthIdle's comment: the replayed stream carries the final state, so a
\* client that read all of it does not show a finished task as running.
StreamConverges == Quiescent => view = "stopped"

\* The watchdog: a task does not stay running, whatever hangs, crashes or is
\* lost on the way.
StuckTurnRecovers ==
  "watchdog" \in env /\ status = "running" ~> status # "running"

\* Under the same condition, and where turns end, a busy task becomes free again
\* by itself: no path that SendPrompt or onEvent takes while its context lives
\* leaves the lock to its TTL or to the watchdog.
LockIsReleased ==
  LossFree /\ "hang" \notin env /\ lock # None ~> lock = None
=============================================================================
