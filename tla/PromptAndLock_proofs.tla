------------------------ MODULE PromptAndLock_proofs ------------------------
(***************************************************************************)
(* What becomes of a prompt and of the session lock, for any number of     *)
(* runtimes and prompts.                                                   *)
(*                                                                         *)
(* No prompt runs twice, whatever is lost, crashes, fails over or is       *)
(* aborted.  A prompt leaves a trace in one step only, the one that        *)
(* delivers it, and SendPrompt never comes back to before that step.  From *)
(* then on the trace is a turn, then the terminal event of that turn, then *)
(* nothing.                                                                *)
(*                                                                         *)
(* The lock does not leak: where no runtime dies, no event is lost and no  *)
(* context is done too early, whoever has it is still in SendPrompt, or    *)
(* its runtime is still to push, or onEvent still to apply, an event that  *)
(* releases it; with aborts, expiry, evictions, lapses and lost replies.   *)
(***************************************************************************)
EXTENDS TaskTurn_proofs

-----------------------------------------------------------------------------
(* No prompt runs twice.                                                   *)

\* SendPrompt has not come to the Prompt RPC yet, or is in it.
Early(c) == pc[c] \in {"new", "read", "ensure", "try", "hosted", "ensured"}

\* Position i of chan[s] is the terminal event of c's turn.
Ended(s, i, c) ==
  i \in 1..Len(chan[s]) /\ IsTerminal(chan[s][i]) /\ chan[s][i].turn = c

\* The inductive invariant: traces are of delivered prompts, and one each.
Once ==
  /\ \A r \in Runtimes : turn[r] # None => ~Early(turn[r])
  /\ \A s \in Runtimes : \A i, c : Ended(s, i, c) => ~Early(c)
  /\ \A r, s \in Runtimes : turn[r] # None /\ turn[r] = turn[s] => r = s
  /\ \A r, s \in Runtimes : \A i : turn[r] # None => ~Ended(s, i, turn[r])
  /\ \A s, t \in Runtimes : \A i, j, c :
       Ended(s, i, c) /\ Ended(t, j, c) => s = t /\ i = j

-----------------------------------------------------------------------------
(* What becomes of the terminal events in a runtime's stream.              *)

LEMMA EndsAfterPush ==
  ASSUME TypeOK, NEW r \in Runtimes, NEW e \in Event,
         chan' = [chan EXCEPT ![r] = Append(@, e)],
         NEW s \in Runtimes, NEW i, NEW c, Ended(s, i, c)'
  PROVE  \/ Ended(s, i, c)
         \/ s = r /\ i = Len(chan[r]) + 1 /\ IsTerminal(e) /\ e.turn = c
<1>1. CASE s # r
  <2>1. chan'[s] = chan[s] BY <1>1 DEF TypeOK
  <2>2. QED BY <2>1 DEF Ended, IsTerminal
<1>2. CASE s = r
  <2>1. chan[r] \in Seq(Event) /\ chan'[r] = Append(chan[r], e) BY DEF TypeOK
  <2>2. /\ Len(chan'[r]) = Len(chan[r]) + 1 /\ Len(chan[r]) \in Nat
        /\ \A j \in 1..Len(chan[r]) : chan'[r][j] = chan[r][j]
        /\ chan'[r][Len(chan[r]) + 1] = e
    BY <2>1, AppendFacts
  <2>3. i \in 1..Len(chan'[r]) BY <1>2 DEF Ended
  <2>4. CASE i = Len(chan[r]) + 1
    BY <1>2, <2>2, <2>4 DEF Ended, IsTerminal
  <2>5. CASE i \in 1..Len(chan[r])
    BY <1>2, <2>2, <2>5 DEF Ended, IsTerminal
  <2>6. QED BY <2>2, <2>3, <2>4, <2>5
<1>3. QED BY <1>1, <1>2

LEMMA EndsAfterPop ==
  ASSUME TypeOK, NEW r \in Runtimes, chan[r] # <<>>,
         chan' = [chan EXCEPT ![r] = Tail(@)],
         NEW s \in Runtimes, NEW i, NEW c, Ended(s, i, c)'
  PROVE  i \in Nat /\ Ended(s, IF s = r THEN i + 1 ELSE i, c)
<1>1. i \in 1..Len(chan'[s]) BY DEF Ended
<1>2. CASE s # r
  <2>1. chan'[s] = chan[s] BY <1>2 DEF TypeOK
  <2>2. QED BY <1>1, <1>2, <2>1 DEF Ended, IsTerminal
<1>3. CASE s = r
  <2>1. chan[r] \in Seq(Event) /\ chan'[r] = Tail(chan[r]) BY DEF TypeOK
  <2>2. /\ Len(chan'[r]) = Len(chan[r]) - 1 /\ Len(chan[r]) \in Nat
        /\ \A j \in 1..Len(chan'[r]) : chan'[r][j] = chan[r][j + 1]
    <3> DEFINE q == chan[r]
    <3>1. q \in Seq(Event) /\ q # <<>> BY <2>1
    <3> HIDE DEF q
    <3>2. /\ Len(Tail(q)) = Len(q) - 1 /\ Len(q) \in Nat
          /\ \A j \in 1..Len(Tail(q)) : Tail(q)[j] = q[j + 1]
      BY <3>1, HeadTail
    <3>3. QED BY <2>1, <3>2 DEF q
  <2>3. i + 1 \in 1..Len(chan[r]) /\ chan'[r][i] = chan[r][i + 1]
    BY <1>1, <1>3, <2>2
  <2>4. QED BY <1>1, <1>3, <2>3 DEF Ended, IsTerminal
<1>4. QED BY <1>2, <1>3

-----------------------------------------------------------------------------
(* The kinds of steps.                                                     *)

\* No turn starts, nothing is pushed, and no prompt goes back.  A turn may be
\* gone without an event.
Fewer ==
  /\ chan' = chan
  /\ \A r \in Runtimes : turn'[r] # None => turn'[r] = turn[r]
  /\ \A c : Early(c)' => Early(c)

\* The oldest event of a stream is done with, or lost.
Pops == \E r \in Runtimes :
          /\ chan[r] # <<>> /\ chan' = [chan EXCEPT ![r] = Tail(@)]
          /\ UNCHANGED <<turn, pc>>

\* A prompt is delivered: a turn starts, or the prompt fails at once.
Delivers ==
  \E c \in Prompts, r \in Runtimes, p \in PcStates, e \in Event :
    /\ Early(c) /\ turn[r] = None
    /\ pc' = [pc EXCEPT ![c] = p] /\ p \in {"accepted", "unwind", "done"}
    /\ chan' = [chan EXCEPT ![r] = Append(@, e)]
    /\ e.turn = c
    /\ \/ ~IsTerminal(e) /\ turn' = [turn EXCEPT ![r] = c]
       \/ IsTerminal(e) /\ turn' = turn

\* A turn ends with its event.
Settles ==
  \E r \in Runtimes, e \in Event :
    /\ turn[r] # None /\ e.turn = turn[r]
    /\ turn' = [turn EXCEPT ![r] = None]
    /\ chan' = [chan EXCEPT ![r] = Append(@, e)]
    /\ pc' = pc

LEMMA FewerKeeps == ASSUME Once, Fewer PROVE Once'
<1>1. \A s, i, c : Ended(s, i, c)' = Ended(s, i, c)
  BY DEF Fewer, Ended
<1> HIDE DEF Ended, Early
<1>2. QED BY <1>1 DEF Fewer, Once

LEMMA PopsKeeps == ASSUME TypeOK, Once, Pops PROVE Once'
<1>1. PICK r \in Runtimes : /\ chan[r] # <<>>
                            /\ chan' = [chan EXCEPT ![r] = Tail(@)]
                            /\ UNCHANGED <<turn, pc>>
  BY DEF Pops
<1> DEFINE at(s, i) == IF s = r THEN i + 1 ELSE i
<1>2. \A s \in Runtimes : \A i, c :
        Ended(s, i, c)' => i \in Nat /\ Ended(s, at(s, i), c)
  BY <1>1, EndsAfterPop
<1>3. \A s, t \in Runtimes : \A i, j \in Nat : s = t /\ at(s, i) = at(t, j) => i = j
  OBVIOUS
<1>4. \A c : Early(c)' = Early(c)
  BY <1>1 DEF Early
<1> HIDE DEF at
<1>5. turn' = turn
  BY <1>1
<1>6. QED BY <1>2, <1>3, <1>4, <1>5 DEF Once

LEMMA DeliversKeeps == ASSUME TypeOK, Once, Delivers PROVE Once'
<1>1. PICK c \in Prompts, r \in Runtimes, p \in PcStates, e \in Event :
        /\ Early(c) /\ turn[r] = None
        /\ pc' = [pc EXCEPT ![c] = p] /\ p \in {"accepted", "unwind", "done"}
        /\ chan' = [chan EXCEPT ![r] = Append(@, e)]
        /\ e.turn = c
        /\ \/ ~IsTerminal(e) /\ turn' = [turn EXCEPT ![r] = c]
           \/ IsTerminal(e) /\ turn' = turn
  BY DEF Delivers
<1>2. /\ \A s \in Runtimes : turn[s] # c
      /\ \A s \in Runtimes : \A i : ~Ended(s, i, c)
  <2>1. c # None BY TurnAssumption DEF Calls
  <2>2. QED BY <1>1, <2>1 DEF Once
<1>3. ~Early(c)' /\ \A d : Early(d)' => Early(d)
  <2>1. c \in DOMAIN pc BY DEF TypeOK, Calls
  <2>2. pc'[c] = p /\ \A d : d # c => pc'[d] = pc[d]
    BY <1>1, <2>1
  <2>3. QED BY <1>1, <2>2 DEF Early
<1>4. ASSUME NEW s \in Runtimes, NEW i, NEW d, Ended(s, i, d)'
      PROVE  \/ Ended(s, i, d)
             \/ s = r /\ i = Len(chan[r]) + 1 /\ IsTerminal(e) /\ d = c
  <2>1. \/ Ended(s, i, d)
        \/ s = r /\ i = Len(chan[r]) + 1 /\ IsTerminal(e) /\ e.turn = d
    BY <1>1, <1>4, EndsAfterPush
  <2>2. QED BY <1>1, <2>1
<1>5. CASE ~IsTerminal(e) /\ turn' = [turn EXCEPT ![r] = c]
  <2>1. \A s \in Runtimes : \A i, d : Ended(s, i, d)' => Ended(s, i, d)
    BY <1>4, <1>5
  <2>2. \A s \in Runtimes : turn'[s] = IF s = r THEN c ELSE turn[s]
    BY <1>5 DEF TypeOK
  <2>3. QED BY <1>2, <1>3, <2>1, <2>2 DEF Once
<1>6. CASE IsTerminal(e) /\ turn' = turn
  <2>1. /\ \A s \in Runtimes : \A d : turn[s] = d /\ d # None => ~Early(d)'
        /\ \A s, t \in Runtimes : turn[s] # None /\ turn[s] = turn[t] => s = t
    BY <1>3 DEF Once
  <2>2. \A s \in Runtimes : \A i, d : Ended(s, i, d)' => ~Early(d)'
    BY <1>3, <1>4 DEF Once
  <2>3. ASSUME NEW s \in Runtimes, NEW t \in Runtimes, NEW i, NEW d,
               turn[s] = d, d # None, Ended(t, i, d)'
        PROVE  FALSE
    <3>1. d # c BY <1>2, <2>3
    <3>2. Ended(t, i, d) BY <1>4, <2>3, <3>1
    <3>3. QED BY <2>3, <3>2 DEF Once
  <2>4. \A s, t \in Runtimes : \A i, j, d :
          Ended(s, i, d)' /\ Ended(t, j, d)' => s = t /\ i = j
    BY <1>2, <1>4 DEF Once
  <2>5. QED BY <1>6, <2>1, <2>2, <2>3, <2>4 DEF Once
<1>7. QED BY <1>1, <1>5, <1>6

LEMMA SettlesKeeps == ASSUME TypeOK, Once, Settles PROVE Once'
<1>1. PICK r \in Runtimes, e \in Event :
        /\ turn[r] # None /\ e.turn = turn[r]
        /\ turn' = [turn EXCEPT ![r] = None]
        /\ chan' = [chan EXCEPT ![r] = Append(@, e)]
        /\ pc' = pc
  BY DEF Settles
<1>2. ASSUME NEW s \in Runtimes, NEW i, NEW d, Ended(s, i, d)'
      PROVE  \/ Ended(s, i, d)
             \/ s = r /\ i = Len(chan[r]) + 1 /\ d = turn[r]
  <2>1. \/ Ended(s, i, d)
        \/ s = r /\ i = Len(chan[r]) + 1 /\ IsTerminal(e) /\ e.turn = d
    BY <1>1, <1>2, EndsAfterPush
  <2>2. QED BY <1>1, <2>1
<1>3. \A c : Early(c)' = Early(c)
  BY <1>1 DEF Early
<1>4. \A s \in Runtimes : turn'[s] = IF s = r THEN None ELSE turn[s]
  BY <1>1 DEF TypeOK
<1>5. \A s \in Runtimes : turn[s] = turn[r] => s = r
  BY <1>1 DEF Once
<1>6. \A s \in Runtimes : \A i : ~Ended(s, i, turn[r])
  BY <1>1 DEF Once
<1>7. ~Early(turn[r])
  BY <1>1 DEF Once
<1>8. \A s \in Runtimes : \A i, d : Ended(s, i, d)' => ~Early(d)'
  BY <1>2, <1>3, <1>7 DEF Once
<1>9. ASSUME NEW s \in Runtimes, NEW t \in Runtimes, NEW i, NEW d,
             turn'[s] = d, d # None, Ended(t, i, d)'
      PROVE  FALSE
  <2>1. s # r /\ turn[s] = d BY <1>4, <1>9
  <2>2. d # turn[r] BY <1>5, <2>1
  <2>3. Ended(t, i, d) BY <1>2, <1>9, <2>2
  <2>4. QED BY <1>9, <2>1, <2>3 DEF Once
<1>10. \A s, t \in Runtimes : \A i, j, d :
         Ended(s, i, d)' /\ Ended(t, j, d)' => s = t /\ i = j
  BY <1>2, <1>6 DEF Once
<1>11. QED BY <1>3, <1>4, <1>8, <1>9, <1>10 DEF Once

-----------------------------------------------------------------------------
(* Every step is of one of these kinds.                                    *)

LEMMA CallKind ==
  ASSUME TypeOK, NEW c \in Calls, CallStep(c)
  PROVE  Fewer \/ Delivers
<1> USE DEF row, stream, rts, calls, ops
<1>1. c \in DOMAIN pc BY DEF TypeOK
<1>2. ASSUME NEW p, pc' = [pc EXCEPT ![c] = p], UNCHANGED <<turn, chan>>,
             p \in {"unwind", "accepted", "marked", "refused", "done"} \/ Early(c)
      PROVE  Fewer
  BY <1>1, <1>2 DEF Fewer, Early
<1>3. CASE PromptAccepted(c) \/ PromptReplyLost(c)
  <2>1. c \in Prompts /\ callRt[c] \in Runtimes /\ turn[callRt[c]] = None /\ Early(c)
    BY <1>3 DEF PromptAccepted, PromptReplyLost, AcceptsPrompt, TypeOK, Early
  <2> DEFINE e == [type |-> "agent_start", turn |-> c]
  <2>2. e \in Event /\ e.turn = c /\ ~IsTerminal(e)
    BY <2>1, EventTypes DEF IsTerminal
  <2>3. /\ turn' = [turn EXCEPT ![callRt[c]] = c]
        /\ chan' = [chan EXCEPT ![callRt[c]] = Append(@, e)]
    BY <1>3 DEF PromptAccepted, PromptReplyLost, StartTurn
  <2>4. \E p \in PcStates : pc' = [pc EXCEPT ![c] = p] /\ p \in {"accepted", "unwind", "done"}
    BY <1>3 DEF PromptAccepted, PromptReplyLost, Goto, PcStates
  <2> HIDE DEF e
  <2>5. QED BY <2>1, <2>2, <2>3, <2>4 DEF Delivers
<1>4. CASE PromptFailsFast(c)
  <2>1. c \in Prompts /\ callRt[c] \in Runtimes /\ turn[callRt[c]] = None /\ Early(c)
    BY <1>4 DEF PromptFailsFast, AcceptsPrompt, TypeOK, Early
  <2> DEFINE e == [type |-> "error", turn |-> c]
  <2>2. e \in Event /\ e.turn = c /\ IsTerminal(e)
    BY <2>1, EventTypes DEF IsTerminal
  <2>3. turn' = turn /\ chan' = [chan EXCEPT ![callRt[c]] = Append(@, e)]
    BY <1>4 DEF PromptFailsFast
  <2>4. \E p \in PcStates : pc' = [pc EXCEPT ![c] = p] /\ p \in {"accepted", "unwind", "done"}
    BY <1>4 DEF PromptFailsFast, Goto, PcStates
  <2> HIDE DEF e
  <2>5. QED BY <2>1, <2>2, <2>3, <2>4 DEF Delivers
<1>5. CASE ReadTask(c) \/ RefuseQuota(c) \/ AcquireLock(c) \/ SteerUnlocked(c)
           \/ PickRuntime(c) \/ HostSession(c) \/ RecordRuntime(c) \/ NoHost(c)
  <2>1. UNCHANGED <<turn, chan>> /\ Early(c)
    BY <1>5 DEF ReadTask, RefuseQuota, AcquireLock, SteerUnlocked, PickRuntime, HostSession,
       RecordRuntime, NoHost, Early
  <2>2. \E p : pc' = [pc EXCEPT ![c] = p]
    BY <1>5 DEF ReadTask, RefuseQuota, AcquireLock, SteerUnlocked, PickRuntime, HostSession,
       RecordRuntime, NoHost, Goto, Failed, Abandon
  <2>3. QED BY <1>2, <2>1, <2>2
<1>6. CASE HostReplyLost(c) \/ TryNext(c)
  BY <1>6 DEF HostReplyLost, TryNext, Fewer, Early
<1>7. CASE PromptQueued(c) \/ PromptRejected(c) \/ SteerSession(c) \/ Unwind(c)
           \/ MarkRunning(c) \/ SynthRunning(c) \/ FirstPromptFailed(c)
  <2>1. UNCHANGED <<turn, chan>>
    BY <1>7 DEF PromptQueued, PromptRejected, SteerSession, Unwind, MarkRunning,
       SynthRunning, FirstPromptFailed
  <2>2. \E p \in {"unwind", "accepted", "marked", "refused", "done"} :
          pc' = [pc EXCEPT ![c] = p]
    BY <1>7 DEF PromptQueued, PromptRejected, SteerSession, Unwind, MarkRunning,
       SynthRunning, FirstPromptFailed, Goto, Failed
  <2>3. QED BY <1>2, <2>1, <2>2
<1>8. QED BY <1>3, <1>4, <1>5, <1>6, <1>7 DEF CallStep

LEMMA EventKind ==
  ASSUME HandlerBusy, NEW r \in Runtimes, EventStep(r)
  PROVE  Fewer \/ Pops
BY DEF EventStep, IngestEvent, ApplyStatus, ApplyRelease, ApplySynthIdle, NextEvent,
   HandlerBusy, Fewer, Pops, Early, rts, calls

LEMMA EndTurnKind ==
  ASSUME TypeOK, NEW r \in Runtimes, EndTurn(r), pc' = pc
  PROVE  Fewer \/ Settles
<1>1. CASE turn[r] = None BY <1>1 DEF EndTurn, Fewer, Early
<1>2. CASE turn[r] # None
  <2> DEFINE e == [type |-> "agent_settled", turn |-> turn[r]]
  <2>1. turn[r] \in Prompts BY <1>2 DEF TypeOK
  <2>2. e \in Event /\ e.turn = turn[r] BY <2>1, EventTypes
  <2>3. /\ turn' = [turn EXCEPT ![r] = None]
        /\ chan' = [chan EXCEPT ![r] = Append(@, e)]
    BY <1>2 DEF EndTurn
  <2> HIDE DEF e
  <2>4. QED BY <1>2, <2>2, <2>3 DEF Settles
<1>3. QED BY <1>1, <1>2

LEMMA RuntimeKind ==
  ASSUME TypeOK, NEW r \in Runtimes, RuntimeStep(r)
  PROVE  Fewer \/ Pops \/ Settles
<1> USE DEF calls
<1>1. CASE TurnSettles(r) BY <1>1, EndTurnKind DEF TurnSettles
<1>2. CASE Evict(r) \/ Lapse(r) \/ Beat(r) \/ Restart(r)
  BY <1>2 DEF Evict, Lapse, Beat, Restart, Fewer, Early
<1>3. CASE Crash(r) BY <1>3 DEF Crash, Fewer, Early, TypeOK
<1>4. CASE LoseEvent(r) BY <1>4 DEF LoseEvent, Pops
<1>5. QED BY <1>1, <1>2, <1>3, <1>4 DEF RuntimeStep

LEMMA AbortKind ==
  ASSUME TypeOK, NEW o \in Ops \ {Deleter}, AbortStep(o)
  PROVE  Fewer \/ Settles
<1> USE DEF calls
<1>1. CASE AbortCall(o)
  <2>1. CASE opRt[o] \in healthy \cap up /\ EndTurn(opRt[o])
    BY <1>1, <2>1, EndTurnKind DEF AbortCall, TypeOK
  <2>2. CASE UNCHANGED <<turn, chan>> BY <1>1, <2>2 DEF AbortCall, Fewer, Early
  <2>3. QED BY <1>1, <2>1, <2>2 DEF AbortCall, AbortOn
<1>2. CASE AbortRead(o) \/ ForceRelease(o) \/ AbortSynth(o)
  BY <1>2 DEF AbortRead, ForceRelease, AbortSynth, rts, Fewer, Early
<1>3. QED BY <1>1, <1>2 DEF AbortStep

LEMMA OtherKind ==
  ASSUME TypeOK, WatchdogStep \/ DeleteStep \/ Archive \/ Silence \/ LockExpires
  PROVE  Fewer \/ Settles
<1> USE DEF rts, calls
<1>1. CASE AbortCall(Watchdog) \/ ForceRelease(Watchdog)
  <2>1. Watchdog \in Ops \ {Deleter} BY TurnAssumption DEF Ops
  <2>2. QED BY <1>1, <2>1, AbortKind DEF AbortStep
<1>2. CASE WatchdogScan \/ WatchdogFail \/ WatchdogSynth
  BY <1>2 DEF WatchdogScan, WatchdogFail, WatchdogSynth, Fewer, Early
<1>3. CASE DeleteClose BY <1>3 DEF DeleteClose, Fewer, Early, TypeOK
<1>4. CASE DeleteRead \/ DeleteRow \/ DeleteKeys
  BY <1>4 DEF DeleteRead, DeleteRow, DeleteKeys, Fewer, Early
<1>5. CASE Archive \/ Silence \/ LockExpires
  BY <1>5 DEF Archive, Silence, LockExpires, Fewer, Early
<1>6. QED BY <1>1, <1>2, <1>3, <1>4, <1>5 DEF WatchdogStep, DeleteStep

\* A cancelled call moves on, or delivers its prompt unheard; the event of a
\* broken stream is done with, or still at the head.
LEMMA CancelKind ==
  ASSUME TypeOK, HandlerBusy, CancelStep
  PROVE  Fewer \/ Pops \/ Delivers
<1>1. ASSUME NEW c \in Calls, ContextDone(c) PROVE Fewer \/ Delivers
  <2>1. CASE Drops(c) BY <2>1 DEF Drops, Fewer, Early, TypeOK
  <2>2. CASE StartsUnheard(c)
    <3>1. c \in Prompts /\ callRt[c] \in Runtimes /\ turn[callRt[c]] = None /\ Early(c)
      BY <2>2 DEF StartsUnheard, AcceptsPrompt, TypeOK, Early
    <3> DEFINE e == [type |-> "agent_start", turn |-> c]
    <3>2. e \in Event /\ e.turn = c /\ ~IsTerminal(e)
      BY <3>1, EventTypes DEF IsTerminal
    <3>3. /\ turn' = [turn EXCEPT ![callRt[c]] = c]
          /\ chan' = [chan EXCEPT ![callRt[c]] = Append(@, e)]
      BY <2>2 DEF StartsUnheard, StartTurn
    <3>4. \E p \in PcStates :
            pc' = [pc EXCEPT ![c] = p] /\ p \in {"accepted", "unwind", "done"}
      BY <2>2 DEF StartsUnheard, PcStates
    <3> HIDE DEF e
    <3>5. QED BY <3>1, <3>2, <3>3, <3>4 DEF Delivers
  <2>3. QED BY <1>1, <2>1, <2>2, ContextKind
<1>2. ASSUME NEW r \in Runtimes, StreamBreaks(r) PROVE Fewer \/ Pops
  BY <1>2, BreakKind DEF Fewer, Pops, Early
<1>3. ASSUME NEW o \in Ops, OpCancelled(o) PROVE Fewer
  BY <1>3 DEF OpCancelled, rts, calls, Fewer, Early
<1>4. QED BY <1>1, <1>2, <1>3 DEF CancelStep

LEMMA StepKind ==
  ASSUME TypeOK, HandlerBusy, [Next]_vars
  PROVE  Fewer \/ Pops \/ Delivers \/ Settles
<1>1. CASE UNCHANGED vars BY <1>1 DEF vars, Fewer, Early
<1>2. ASSUME NEW a \in Aborts, AbortStep(a) PROVE Fewer \/ Settles
  <2>1. a \in Ops \ {Deleter} BY TurnAssumption DEF Ops
  <2>2. QED BY <1>2, <2>1, AbortKind
<1>3. QED
  BY <1>1, <1>2, CallKind, EventKind, RuntimeKind, OtherKind, CancelKind DEF Next

-----------------------------------------------------------------------------
(* The theorem.                                                            *)

LEMMA InitOnce == Init => Once
<1> SUFFICES ASSUME Init PROVE Once
  OBVIOUS
<1>1. \A r \in Runtimes : turn[r] = None /\ Len(chan[r]) = 0 BY DEF Init
<1>2. \A s \in Runtimes : \A i, c : ~Ended(s, i, c) BY <1>1 DEF Ended
<1>3. QED BY <1>1, <1>2 DEF Once

\* The invariant says what DeliveredAtMostOnce says of the set of traces.
LEMMA OneTrace == Once => DeliveredAtMostOnce
<1> SUFFICES ASSUME Once, NEW c \in Prompts
             PROVE  /\ Early(c) => Traces(c) = {}
                    /\ \A x, y \in Traces(c) : x = y
  BY DEF DeliveredAtMostOnce, Early
<1>1. ASSUME NEW x \in Traces(c)
      PROVE  \/ \E r \in Runtimes : turn[r] = c /\ x = <<r, 0>>
             \/ \E r \in Runtimes : \E i : Ended(r, i, c) /\ x = <<r, i>>
  BY <1>1 DEF Traces, Ended
<1>2. c # None BY TurnAssumption DEF Calls
<1>3. Early(c) => Traces(c) = {}
  BY <1>1, <1>2 DEF Once
<1>4. ASSUME NEW x \in Traces(c), NEW y \in Traces(c) PROVE x = y
  BY <1>1, <1>2, <1>4 DEF Once
<1>5. QED BY <1>3, <1>4

\* Failover, retries and lost replies deliver a prompt to at most one runtime, once:
\* SendPrompt's only way back, to the next runtime, is before the Prompt RPC.
THEOREM PromptsRunOnce == Spec => []DeliveredAtMostOnce
<1>1. TypeOK /\ HandlerBusy /\ Once /\ [Next]_vars => Once'
  BY StepKind, FewerKeeps, PopsKeeps, DeliversKeeps, SettlesKeeps
<1>2. QED BY InitOnce, <1>1, OneTrace, TypeCorrect, PTL DEF Spec

-----------------------------------------------------------------------------
(* The lock does not leak.                                                 *)

\* The lock's owner has come to the lock, and is accounted for.
OwnerIsKnown ==
  lock # None => /\ pc[lock] \notin {"new", "read"}
                 /\ Sending(lock) \/ Busy(callRt[lock])

\* The inductive invariant, beside the types.
LInv == LossFree => opc[Deleter] = "new" /\ OwnerIsKnown

-----------------------------------------------------------------------------
(* What keeps a runtime busy.                                              *)

\* A terminal event that waits for its release goes on waiting while others push.
LEMMA WaitsOn ==
  ASSUME TypeOK, Grows, NEW s \in Runtimes, NEW i, Unreleased(s, i)
  PROVE  Unreleased(s, i)'
<1>1. CASE chan' = chan
  BY <1>1 DEF Unreleased, Grows, IsTerminal
<1>2. ASSUME NEW r \in Runtimes, NEW e \in Event,
             chan' = [chan EXCEPT ![r] = Append(@, e)]
      PROVE  Unreleased(s, i)'
  <2>1. CASE s # r
    <3>1. chan'[s] = chan[s] BY <1>2, <2>1 DEF TypeOK
    <3>2. QED BY <3>1 DEF Unreleased, Grows, IsTerminal
  <2>2. CASE s = r
    <3>1. chan[r] \in Seq(Event) /\ chan'[r] = Append(chan[r], e) BY <1>2 DEF TypeOK
    <3>2. /\ Len(chan'[r]) = Len(chan[r]) + 1 /\ Len(chan[r]) \in Nat
          /\ \A j \in 1..Len(chan[r]) : chan'[r][j] = chan[r][j]
      BY <3>1, AppendFacts
    <3>3. i \in 1..Len(chan[r]) BY <2>2 DEF Unreleased
    <3>4. i \in 1..Len(chan'[r]) /\ chan'[r][i] = chan[r][i] BY <3>2, <3>3
    <3>5. QED BY <2>2, <3>4 DEF Unreleased, Grows, IsTerminal
  <2>3. QED BY <2>1, <2>2
<1>3. QED BY <1>1, <1>2 DEF Grows

\* A terminal event that has just been pushed waits.
LEMMA PushedWaits ==
  ASSUME TypeOK, HandlerBusy, step' = step, NEW r \in Runtimes, NEW e \in Event,
         IsTerminal(e), chan' = [chan EXCEPT ![r] = Append(@, e)]
  PROVE  Busy(r)'
<1>1. chan[r] \in Seq(Event) /\ chan'[r] = Append(chan[r], e) BY DEF TypeOK
<1>2. /\ Len(chan'[r]) = Len(chan[r]) + 1 /\ Len(chan[r]) \in Nat
      /\ chan'[r][Len(chan[r]) + 1] = e
  BY <1>1, AppendFacts
<1>3. step[r] = "synth" => Len(chan[r]) # 0
  BY <1>1 DEF HandlerBusy
<1>4. PICK n : n = Len(chan[r]) + 1
  OBVIOUS
<1>5. n \in 1..Len(chan'[r]) /\ chan'[r][n] = e BY <1>2, <1>4
<1>6. ~(n = 1 /\ step'[r] = "synth") BY <1>2, <1>3, <1>4
<1>7. Unreleased(r, n)'
  BY <1>5, <1>6 DEF Unreleased, IsTerminal
<1>8. QED BY <1>5, <1>7 DEF Busy

\* A runtime stays busy while turns only start and events only come.
LEMMA BusyStays ==
  ASSUME TypeOK, Grows, \A r \in Runtimes : turn[r] # None => turn'[r] # None
  PROVE  \A r : Busy(r) => Busy(r)'
<1> SUFFICES ASSUME NEW r, Busy(r) PROVE Busy(r)'
  OBVIOUS
<1>1. r \in Runtimes BY DEF Busy
<1>2. CASE turn[r] # None BY <1>1, <1>2 DEF Busy
<1>3. CASE \E i \in 1..Len(chan[r]) : Unreleased(r, i)
  <2>1. PICK i : Unreleased(r, i) BY <1>3
  <2>2. Unreleased(r, i)' BY <1>1, <2>1, WaitsOn
  <2>3. QED BY <1>1, <2>2 DEF Busy, Unreleased
<1>4. QED BY <1>2, <1>3 DEF Busy

\* A turn that ends leaves its runtime busy with the event.
LEMMA EndTurnBusy ==
  ASSUME TypeOK, HandlerBusy, NEW r \in Runtimes, EndTurn(r), step' = step
  PROVE  \A s : Busy(s) => Busy(s)'
<1>1. CASE turn[r] = None
  BY <1>1 DEF EndTurn, Busy, Unreleased, IsTerminal
<1>2. CASE turn[r] # None
  <2> DEFINE e == [type |-> "agent_settled", turn |-> turn[r]]
  <2>1. turn[r] \in Prompts BY <1>2 DEF TypeOK
  <2>2. e \in Event /\ IsTerminal(e) BY <2>1, EventTypes DEF IsTerminal
  <2>3. /\ turn' = [turn EXCEPT ![r] = None]
        /\ chan' = [chan EXCEPT ![r] = Append(@, e)]
    BY <1>2 DEF EndTurn
  <2> HIDE DEF e
  <2>4. Busy(r)' BY <2>2, <2>3, PushedWaits
  <2>5. Grows BY <2>2, <2>3 DEF Grows
  <2>6. ASSUME NEW s, Busy(s), s # r PROVE Busy(s)'
    <3>1. s \in Runtimes BY <2>6 DEF Busy
    <3>2. turn'[s] = turn[s] BY <2>3, <2>6, <3>1 DEF TypeOK
    <3>3. CASE turn[s] # None BY <3>1, <3>2, <3>3 DEF Busy
    <3>4. CASE \E i \in 1..Len(chan[s]) : Unreleased(s, i)
      <4>1. PICK i : Unreleased(s, i) BY <3>4
      <4>2. Unreleased(s, i)' BY <2>5, <3>1, <4>1, WaitsOn
      <4>3. QED BY <3>1, <4>2 DEF Busy, Unreleased
    <3>5. QED BY <2>6, <3>3, <3>4 DEF Busy
  <2>7. QED BY <2>4, <2>6
<1>3. QED BY <1>1, <1>2

\* onEvent is done with an event that waits for no release: nothing else changes.
LEMMA PopBusy ==
  ASSUME TypeOK, NEW r \in Runtimes, chan[r] # <<>>, ~Unreleased(r, 1),
         step' = [step EXCEPT ![r] = "recv"], turn' = turn,
         chan' = [chan EXCEPT ![r] = Tail(@)]
  PROVE  \A s : Busy(s) => Busy(s)'
<1> SUFFICES ASSUME NEW s, Busy(s) PROVE Busy(s)'
  OBVIOUS
<1>1. s \in Runtimes BY DEF Busy
<1>2. CASE turn[s] # None BY <1>1, <1>2 DEF Busy
<1>3. CASE s # r
  <2>1. chan'[s] = chan[s] /\ step'[s] = step[s] BY <1>1, <1>3 DEF TypeOK
  <2>2. QED BY <1>1, <2>1 DEF Busy, Unreleased, IsTerminal
<1>4. CASE s = r /\ \E i \in 1..Len(chan[r]) : Unreleased(r, i)
  <2>1. PICK i \in 1..Len(chan[r]) : Unreleased(r, i) BY <1>4
  <2>2. chan[r] \in Seq(Event) /\ chan'[r] = Tail(chan[r]) BY DEF TypeOK
  <2>3. /\ Len(chan'[r]) = Len(chan[r]) - 1 /\ Len(chan[r]) \in Nat
        /\ \A j \in 1..Len(chan'[r]) : chan'[r][j] = chan[r][j + 1]
    <3> DEFINE q == chan[r]
    <3>1. q \in Seq(Event) /\ q # <<>> BY <2>2
    <3> HIDE DEF q
    <3>2. /\ Len(Tail(q)) = Len(q) - 1 /\ Len(q) \in Nat
          /\ \A j \in 1..Len(Tail(q)) : Tail(q)[j] = q[j + 1]
      BY <3>1, HeadTail
    <3>3. QED BY <2>2, <3>2 DEF q
  <2>4. i # 1 BY <2>1
  <2>5. i - 1 \in 1..Len(chan'[r]) /\ chan'[r][i - 1] = chan[r][i]
    BY <2>1, <2>3, <2>4
  <2>6. step'[r] = "recv" BY DEF TypeOK
  <2>7. Unreleased(r, i - 1)'
    BY <2>1, <2>5, <2>6 DEF Unreleased, IsTerminal
  <2>8. QED BY <1>1, <1>4, <2>5, <2>7 DEF Busy
<1>5. QED BY <1>2, <1>3, <1>4 DEF Busy

-----------------------------------------------------------------------------
(* The steps.                                                              *)

\* A step that moves no call, and leaves the lock and the busy runtimes or takes
\* the lock away.
LEMMA OthersKeep ==
  ASSUME OwnerIsKnown, UNCHANGED calls,
         lock' = None \/ (lock' = lock /\ \A r : Busy(r) => Busy(r)')
  PROVE  OwnerIsKnown'
<1>1. \A c : Sending(c)' = Sending(c) BY DEF Sending, calls
<1>2. QED BY <1>1 DEF OwnerIsKnown, calls

\* A call other than the lock's owner moves, or one that is past the lock.
LEMMA CallLeavesOwner ==
  ASSUME TypeOK, OwnerIsKnown, NEW c \in Calls, NEW p,
         pc' = [pc EXCEPT ![c] = p], lock' = lock,
         \A d \in Calls \ {c} : callRt'[d] = callRt[d],
         \A r : Busy(r) => Busy(r)',
         lock = c => /\ p \notin {"new", "read"}
                     /\ \/ p \in {"ensure", "try", "hosted", "ensured", "unwind"}
                        \/ Busy(callRt[c])'
  PROVE  OwnerIsKnown'
<1> SUFFICES ASSUME lock # None
             PROVE  /\ pc'[lock] \notin {"new", "read"}
                    /\ Sending(lock)' \/ Busy(callRt[lock])'
  BY DEF OwnerIsKnown
<1>1. lock \in Calls BY DEF TypeOK, Calls
<1>2. CASE lock = c
  <2>1. pc'[lock] = p BY <1>2 DEF TypeOK
  <2>2. CASE p \in {"ensure", "try", "hosted", "ensured", "unwind"}
    BY <1>2, <2>1, <2>2 DEF Sending
  <2>3. CASE Busy(callRt[c])' BY <1>2, <2>1, <2>3
  <2>4. QED BY <1>2, <2>2, <2>3, <2>1
<1>3. CASE lock # c
  <2>1. pc'[lock] = pc[lock] /\ callRt'[lock] = callRt[lock]
    BY <1>1, <1>3 DEF TypeOK
  <2>2. pc[lock] \notin {"new", "read"} /\ (Sending(lock) \/ Busy(callRt[lock]))
    BY DEF OwnerIsKnown
  <2>3. CASE Sending(lock) BY <2>1, <2>2, <2>3 DEF Sending
  <2>4. CASE Busy(callRt[lock])
    <3>1. PICK r : r = callRt[lock] OBVIOUS
    <3>2. Busy(r)' BY <2>4, <3>1
    <3>3. callRt'[lock'] = r BY <2>1, <3>1
    <3>4. QED BY <2>1, <2>2, <3>2, <3>3
  <2>5. QED BY <2>2, <2>3, <2>4
<1>4. QED BY <1>2, <1>3

\* The step of a call that leaves the runtimes alone: it does not leave the
\* sending part of SendPrompt, or its runtime is busy, if it has the lock.
LEMMA QuietCallLeavesOwner ==
  ASSUME TypeOK, OwnerIsKnown, NEW c \in Calls, NEW p,
         pc' = [pc EXCEPT ![c] = p],
         UNCHANGED <<lock, turn, chan, step>>,
         \A d \in Calls \ {c} : callRt'[d] = callRt[d],
         lock = c => \/ p \in {"ensure", "try", "hosted", "ensured", "unwind"}
                     \/ /\ p \notin {"new", "read"}
                        /\ callRt'[c] = callRt[c] /\ Busy(callRt[c])
  PROVE  OwnerIsKnown'
<1>1. \A r : Busy(r)' = Busy(r) BY DEF Busy, Unreleased, IsTerminal
<1>2. PICK r : r = callRt[c] OBVIOUS
<1>3. ASSUME callRt'[c] = callRt[c], Busy(callRt[c]) PROVE Busy(callRt[c])'
  BY <1>1, <1>2, <1>3
<1>4. QED BY <1>1, <1>3, CallLeavesOwner

\* A call that delivers its prompt leaves its runtime busy.
LEMMA DeliverLeavesOwner ==
  ASSUME TypeOK, HandlerBusy, OwnerIsKnown, NEW c \in Prompts,
         NEW r \in Runtimes, r = callRt[c],
         NEW p \in {"accepted", "unwind"}, NEW e \in Event,
         pc' = [pc EXCEPT ![c] = p], UNCHANGED <<lock, callRt, step>>,
         turn[r] = None, chan' = [chan EXCEPT ![r] = Append(@, e)],
         \/ turn' = [turn EXCEPT ![r] = c]
         \/ turn' = turn /\ IsTerminal(e)
  PROVE  OwnerIsKnown'
<1>1. Grows BY DEF Grows
<1>2. c # None BY TurnAssumption DEF Calls
<1>3. \A s \in Runtimes : turn[s] # None => turn'[s] # None
  BY <1>2 DEF TypeOK
<1>4. \A s : Busy(s) => Busy(s)' BY <1>1, <1>3, BusyStays
<1>5. Busy(r)'
  <2>1. CASE turn' = [turn EXCEPT ![r] = c] BY <1>2, <2>1 DEF Busy, TypeOK
  <2>2. CASE turn' = turn /\ IsTerminal(e) BY <2>2, PushedWaits
  <2>3. QED BY <2>1, <2>2
<1>6. Busy(callRt[c])' BY <1>5
<1>7. c \in Calls /\ p \notin {"new", "read"} BY DEF Calls
<1>8. \A d \in Calls \ {c} : callRt'[d] = callRt[d] OBVIOUS
<1>9. QED BY <1>4, <1>6, <1>7, <1>8, CallLeavesOwner

LEMMA CallAccounts ==
  ASSUME TypeOK, HandlerBusy, OwnerIsKnown, NEW c \in Calls, CallStep(c)
  PROVE  OwnerIsKnown'
<1> USE DEF row, stream, rts, calls, ops, Goto, Failed, Abandon
<1>0. lock = c => c \in Prompts /\ pc[c] \notin {"new", "read"}
  <2>1. c # None BY TurnAssumption
  <2>2. QED BY <2>1 DEF OwnerIsKnown, TypeOK
<1>1. CASE ReadTask(c)
  <2>1. lock # c BY <1>0, <1>1 DEF ReadTask
  <2>2. \A d \in Calls \ {c} : callRt'[d] = callRt[d] BY <1>1 DEF ReadTask, TypeOK
  <2>3. UNCHANGED <<lock, turn, chan, step>> /\ \E p : pc' = [pc EXCEPT ![c] = p]
    BY <1>1 DEF ReadTask
  <2>4. QED BY <2>1, <2>2, <2>3, QuietCallLeavesOwner
<1>2. CASE RefuseQuota(c) \/ SteerUnlocked(c)
  <2>1. lock # c BY <1>0, <1>2 DEF RefuseQuota, SteerUnlocked
  <2>2. UNCHANGED <<lock, callRt, turn, chan, step>> /\ \E p : pc' = [pc EXCEPT ![c] = p]
    BY <1>2 DEF RefuseQuota, SteerUnlocked
  <2>3. QED BY <2>1, <2>2, QuietCallLeavesOwner
<1>3. CASE AcquireLock(c)
  <2>1. CASE lock = None
    <3>1. lock' = c /\ pc'[c] = "ensure" BY <1>3, <2>1 DEF AcquireLock, TypeOK
    <3>2. QED BY <3>1 DEF OwnerIsKnown, Sending
  <2>2. CASE lock # None
    <3>1. lock # c BY <1>0, <1>3 DEF AcquireLock
    <3>2. UNCHANGED <<lock, callRt, turn, chan, step>> /\ \E p : pc' = [pc EXCEPT ![c] = p]
      BY <1>3, <2>2 DEF AcquireLock
    <3>3. QED BY <3>1, <3>2, QuietCallLeavesOwner
  <2>3. QED BY <2>1, <2>2
<1>4. CASE PickRuntime(c) \/ HostSession(c) \/ NoHost(c) \/ PromptRejected(c)
  <2>1. UNCHANGED <<lock, callRt, turn, chan, step>>
    BY <1>4 DEF PickRuntime, HostSession, NoHost, PromptRejected
  <2>2. CASE c \in Prompts
    <3>1. \E p \in {"try", "hosted", "ensured", "unwind"} : pc' = [pc EXCEPT ![c] = p]
      BY <1>4, <2>2 DEF PickRuntime, HostSession, NoHost, PromptRejected
    <3>2. QED BY <2>1, <3>1, QuietCallLeavesOwner
  <2>3. CASE c \notin Prompts
    <3>1. \E p : pc' = [pc EXCEPT ![c] = p]
      BY <1>4 DEF PickRuntime, HostSession, NoHost, PromptRejected
    <3>2. QED BY <1>0, <2>1, <2>3, <3>1, QuietCallLeavesOwner
  <2>4. QED BY <2>2, <2>3
<1>5. CASE RecordRuntime(c)
  <2>1. /\ UNCHANGED <<lock, turn, chan, step>> /\ pc' = [pc EXCEPT ![c] = "ensured"]
        /\ \A d \in Calls \ {c} : callRt'[d] = callRt[d]
    BY <1>5 DEF RecordRuntime, TypeOK
  <2>2. QED BY <2>1, QuietCallLeavesOwner
<1>6. CASE HostReplyLost(c) \/ TryNext(c)
  <2>1. UNCHANGED <<lock, callRt, turn, chan, step, pc>> /\ pc' = [pc EXCEPT ![c] = "try"]
    BY <1>6 DEF HostReplyLost, TryNext, TypeOK
  <2>2. QED BY <2>1, QuietCallLeavesOwner
<1>7. CASE PromptAccepted(c) \/ PromptReplyLost(c)
  <2>1. c \in Prompts /\ callRt[c] \in Runtimes /\ turn[callRt[c]] = None
    BY <1>7 DEF PromptAccepted, PromptReplyLost, AcceptsPrompt, TypeOK
  <2> DEFINE e == [type |-> "agent_start", turn |-> c]
  <2>2. e \in Event BY <2>1, EventTypes
  <2>3. /\ turn' = [turn EXCEPT ![callRt[c]] = c]
        /\ chan' = [chan EXCEPT ![callRt[c]] = Append(@, e)]
        /\ UNCHANGED <<lock, callRt, step>>
    BY <1>7 DEF PromptAccepted, PromptReplyLost, StartTurn
  <2>4. \E p \in {"accepted", "unwind"} : pc' = [pc EXCEPT ![c] = p]
    BY <1>7 DEF PromptAccepted, PromptReplyLost
  <2> HIDE DEF e
  <2>5. QED BY <2>1, <2>2, <2>3, <2>4, DeliverLeavesOwner
<1>8. CASE PromptFailsFast(c)
  <2>1. c \in Prompts /\ callRt[c] \in Runtimes /\ turn[callRt[c]] = None
    BY <1>8 DEF PromptFailsFast, AcceptsPrompt, TypeOK
  <2> DEFINE e == [type |-> "error", turn |-> c]
  <2>2. e \in Event /\ IsTerminal(e) BY <2>1, EventTypes DEF IsTerminal
  <2>3. /\ turn' = turn /\ chan' = [chan EXCEPT ![callRt[c]] = Append(@, e)]
        /\ UNCHANGED <<lock, callRt, step>> /\ pc' = [pc EXCEPT ![c] = "accepted"]
    BY <1>8 DEF PromptFailsFast
  <2> HIDE DEF e
  <2>4. QED BY <2>1, <2>2, <2>3, DeliverLeavesOwner
<1>9. CASE PromptQueued(c)
  <2>1. /\ UNCHANGED <<lock, callRt, turn, chan, step>>
        /\ pc' = [pc EXCEPT ![c] = "accepted"]
        /\ c \in Prompts /\ callRt[c] \in pool /\ turn[callRt[c]] # None
    BY <1>9 DEF PromptQueued
  <2>2. Busy(callRt[c]) BY <2>1 DEF Busy, TypeOK
  <2>3. QED BY <2>1, <2>2, QuietCallLeavesOwner
<1>10. CASE SteerSession(c)
  <2>1. lock # c BY <1>0, <1>10, TurnAssumption DEF SteerSession
  <2>2. UNCHANGED <<lock, callRt, turn, chan, step>> /\ \E p : pc' = [pc EXCEPT ![c] = p]
    BY <1>10 DEF SteerSession
  <2>3. QED BY <2>1, <2>2, QuietCallLeavesOwner
<1>11. CASE Unwind(c) BY <1>11 DEF Unwind, OwnerIsKnown
<1>12. CASE MarkRunning(c) \/ SynthRunning(c) \/ FirstPromptFailed(c)
  <2>1. UNCHANGED <<lock, callRt, turn, chan, step>>
    BY <1>12 DEF MarkRunning, SynthRunning, FirstPromptFailed
  <2>2. \E p \in {"marked", "done"} : pc' = [pc EXCEPT ![c] = p]
    BY <1>12 DEF MarkRunning, SynthRunning, FirstPromptFailed
  <2>3. ASSUME lock = c PROVE Busy(callRt[c])
    <3>1. pc[c] \in {"accepted", "marked", "refused"}
      BY <1>12 DEF MarkRunning, SynthRunning, FirstPromptFailed
    <3>2. c # None BY TurnAssumption
    <3>3. QED BY <2>3, <3>1, <3>2 DEF OwnerIsKnown, Sending
  <2>4. QED BY <2>1, <2>2, <2>3, QuietCallLeavesOwner
<1>13. QED BY <1>1, <1>2, <1>3, <1>4, <1>5, <1>6, <1>7, <1>8, <1>9, <1>10, <1>11, <1>12
       DEF CallStep

\* onEvent removes an event once it has released the lock, or one that need not.
LEMMA EventAccounts ==
  ASSUME TypeOK, HandlerBusy, OwnerIsKnown, NEW r \in Runtimes, EventStep(r)
  PROVE  OwnerIsKnown'
<1> USE DEF rts, ops, StepTo, NextEvent
<1>1. CASE IngestEvent(r)
  <2>1. \A s : Busy(s) => Busy(s)'
    <3>1. turn' = turn /\ chan' = chan BY <1>1 DEF IngestEvent
    <3>2. \A s \in Runtimes : step'[s] = "synth" => step[s] = "synth"
      BY <1>1 DEF IngestEvent, TypeOK
    <3>3. \A s \in Runtimes : \A i : Unreleased(s, i) => Unreleased(s, i)'
      BY <3>1, <3>2 DEF Unreleased, IsTerminal
    <3>4. QED BY <3>1, <3>3 DEF Busy
  <2>2. UNCHANGED <<lock, calls>> BY <1>1 DEF IngestEvent
  <2>3. QED BY <2>1, <2>2, OthersKeep
<1>2. CASE ApplyStatus(r)
  <2>1. UNCHANGED <<lock, turn, calls>> BY <1>2 DEF ApplyStatus
  <2>2. CASE IsTerminal(Head(chan[r]))
    <3>1. chan' = chan BY <1>2, <2>2 DEF ApplyStatus
    <3>2. \A s \in Runtimes : step'[s] = "synth" => step[s] = "synth"
      BY <1>2, <2>2 DEF ApplyStatus, TypeOK
    <3>3. \A s \in Runtimes : \A i : Unreleased(s, i) => Unreleased(s, i)'
      BY <3>1, <3>2 DEF Unreleased, IsTerminal
    <3>4. \A s : Busy(s) => Busy(s)' BY <2>1, <3>1, <3>3 DEF Busy
    <3>5. QED BY <2>1, <3>4, OthersKeep
  <2>3. CASE ~IsTerminal(Head(chan[r]))
    <3>1. chan[r] # <<>> BY <1>2 DEF ApplyStatus, HandlerBusy
    <3>2. chan[r] \in Seq(Event) BY DEF TypeOK
    <3>3. ~Unreleased(r, 1)
      <4>1. Head(chan[r]) = chan[r][1] BY <3>1, <3>2
      <4>2. QED BY <2>3, <4>1 DEF Unreleased, IsTerminal
    <3>4. /\ step' = [step EXCEPT ![r] = "recv"]
          /\ chan' = [chan EXCEPT ![r] = Tail(@)]
      BY <1>2, <2>3 DEF ApplyStatus
    <3>5. \A s : Busy(s) => Busy(s)' BY <2>1, <3>1, <3>3, <3>4, PopBusy
    <3>6. QED BY <2>1, <3>5, OthersKeep
  <2>4. QED BY <2>2, <2>3
<1>3. CASE ApplyRelease(r) BY <1>3 DEF ApplyRelease, OwnerIsKnown
<1>4. CASE ApplySynthIdle(r)
  <2>1. /\ chan[r] # <<>> /\ ~Unreleased(r, 1)
        /\ UNCHANGED <<lock, turn, calls>>
        /\ step' = [step EXCEPT ![r] = "recv"]
        /\ chan' = [chan EXCEPT ![r] = Tail(@)]
    BY <1>4 DEF ApplySynthIdle, HandlerBusy, Unreleased
  <2>2. \A s : Busy(s) => Busy(s)' BY <2>1, PopBusy
  <2>3. QED BY <2>1, <2>2, OthersKeep
<1>5. QED BY <1>1, <1>2, <1>3, <1>4 DEF EventStep

\* A runtime that neither dies nor loses an event ends a turn with its event.
LEMMA RuntimeAccounts ==
  ASSUME TypeOK, HandlerBusy, OwnerIsKnown, NEW r \in Runtimes,
         RuntimeStep(r), ~Crash(r), ~LoseEvent(r)
  PROVE  OwnerIsKnown'
<1>1. CASE TurnSettles(r)
  <2>1. \A s : Busy(s) => Busy(s)' BY <1>1, EndTurnBusy DEF TurnSettles
  <2>2. UNCHANGED <<lock, calls>> BY <1>1 DEF TurnSettles
  <2>3. QED BY <2>1, <2>2, OthersKeep
<1>2. CASE Evict(r) \/ Lapse(r) \/ Beat(r) \/ Restart(r)
  <2>1. UNCHANGED <<lock, calls, turn, chan, step>>
    BY <1>2 DEF Evict, Lapse, Beat, Restart
  <2>2. \A s : Busy(s)' = Busy(s) BY <2>1 DEF Busy, Unreleased, IsTerminal
  <2>3. QED BY <2>1, <2>2, OthersKeep
<1>3. QED BY <1>1, <1>2 DEF RuntimeStep

\* An abort that ends the turn leaves its event, and it deletes the lock.
LEMMA AbortAccounts ==
  ASSUME TypeOK, HandlerBusy, OwnerIsKnown, NEW o \in Ops \ {Deleter}, AbortStep(o)
  PROVE  OwnerIsKnown' /\ opc'[Deleter] = opc[Deleter]
<1>1. Deleter \in Ops /\ \A p : opc' = [opc EXCEPT ![o] = p] => opc'[Deleter] = opc[Deleter]
  BY DEF Ops, TypeOK
<1>2. opc'[Deleter] = opc[Deleter]
  BY <1>1 DEF AbortStep, AbortRead, AbortCall, ForceRelease, AbortSynth, OpGoto
<1>3. CASE AbortCall(o)
  <2>1. UNCHANGED <<lock, calls, step>> BY <1>3 DEF AbortCall
  <2>2. \A s : Busy(s) => Busy(s)'
    <3>1. CASE opRt[o] \in healthy \cap up /\ EndTurn(opRt[o])
      <4>1. PICK r \in Runtimes : EndTurn(r) BY <3>1 DEF TypeOK
      <4>2. QED BY <2>1, <4>1, EndTurnBusy
    <3>2. CASE UNCHANGED <<turn, chan>>
      BY <2>1, <3>2 DEF Busy, Unreleased, IsTerminal
    <3>3. QED BY <1>3, <3>1, <3>2 DEF AbortCall, AbortOn
  <2>3. QED BY <1>2, <2>1, <2>2, OthersKeep
<1>4. CASE ForceRelease(o) BY <1>2, <1>4 DEF ForceRelease, OwnerIsKnown
<1>5. CASE AbortRead(o) \/ AbortSynth(o)
  <2>1. UNCHANGED <<lock, calls, turn, chan, step>>
    BY <1>5 DEF AbortRead, AbortSynth, rts
  <2>2. \A s : Busy(s)' = Busy(s) BY <2>1 DEF Busy, Unreleased, IsTerminal
  <2>3. QED BY <1>2, <2>1, <2>2, OthersKeep
<1>6. QED BY <1>3, <1>4, <1>5 DEF AbortStep

\* The rest: no task is deleted, and the lock's lapse frees it.
LEMMA OtherAccounts ==
  ASSUME TypeOK, HandlerBusy, OwnerIsKnown,
         WatchdogStep \/ Archive \/ Silence \/ LockExpires \/ UNCHANGED vars
  PROVE  OwnerIsKnown' /\ opc'[Deleter] = opc[Deleter]
<1>1. Watchdog \in Ops \ {Deleter} BY TurnAssumption DEF Ops
<1>2. CASE AbortCall(Watchdog) \/ ForceRelease(Watchdog)
  BY <1>1, <1>2, AbortAccounts DEF AbortStep
<1>3. CASE WatchdogScan \/ WatchdogFail \/ WatchdogSynth
  <2>1. UNCHANGED <<lock, calls, turn, chan, step>>
    BY <1>3 DEF WatchdogScan, WatchdogFail, WatchdogSynth, rts
  <2>2. \A s : Busy(s)' = Busy(s) BY <2>1 DEF Busy, Unreleased, IsTerminal
  <2>3. opc'[Deleter] = opc[Deleter]
    BY <1>1, <1>3 DEF WatchdogScan, WatchdogFail, WatchdogSynth, OpGoto, TypeOK, Ops
  <2>4. QED BY <2>1, <2>2, <2>3, OthersKeep
<1>4. CASE Archive \/ Silence \/ UNCHANGED vars
  <2>1. UNCHANGED <<lock, calls, turn, chan, step, opc>>
    BY <1>4 DEF Archive, Silence, vars, rts, ops, calls
  <2>2. \A s : Busy(s)' = Busy(s) BY <2>1 DEF Busy, Unreleased, IsTerminal
  <2>3. QED BY <2>1, <2>2, OthersKeep
<1>5. CASE LockExpires BY <1>5 DEF LockExpires, ops, OwnerIsKnown
<1>6. QED BY <1>2, <1>3, <1>4, <1>5 DEF WatchdogStep

-----------------------------------------------------------------------------
(* The theorem.                                                            *)

LEMMA StepLInv ==
  ASSUME TypeOK, HandlerBusy, LInv, [Next]_vars
  PROVE  LInv'
<1>1. env' = env BY EnvFrozen
<1>2. SUFFICES ASSUME LossFree PROVE opc'[Deleter] = "new" /\ OwnerIsKnown'
  BY <1>1 DEF LInv, LossFree
<1>3. opc[Deleter] = "new" /\ OwnerIsKnown BY <1>2 DEF LInv
<1>4. /\ "delete" \notin env /\ "crash" \notin env
      /\ "lose" \notin env /\ "cancel" \notin env
  BY <1>2 DEF LossFree
<1>5. ASSUME NEW c \in Calls, CallStep(c) PROVE opc' = opc /\ OwnerIsKnown'
  <2>1. opc' = opc
    <3>1. CASE ReadTask(c) \/ RefuseQuota(c) \/ AcquireLock(c) \/ SteerUnlocked(c)
               \/ PickRuntime(c) \/ HostSession(c) \/ RecordRuntime(c)
               \/ HostReplyLost(c) \/ TryNext(c) \/ NoHost(c)
      BY <3>1 DEF ReadTask, RefuseQuota, AcquireLock, SteerUnlocked, PickRuntime,
         HostSession, RecordRuntime, HostReplyLost, TryNext, NoHost, ops
    <3>2. CASE PromptAccepted(c) \/ PromptFailsFast(c) \/ PromptReplyLost(c)
               \/ PromptQueued(c) \/ PromptRejected(c) \/ SteerSession(c) \/ Unwind(c)
               \/ MarkRunning(c) \/ SynthRunning(c) \/ FirstPromptFailed(c)
      BY <3>2 DEF PromptAccepted, PromptFailsFast, PromptReplyLost, PromptQueued,
         PromptRejected, SteerSession, Unwind, MarkRunning, SynthRunning,
         FirstPromptFailed, ops
    <3>3. QED BY <1>5, <3>1, <3>2 DEF CallStep
  <2>2. QED BY <1>3, <1>5, <2>1, CallAccounts
<1>6. ASSUME NEW r \in Runtimes, EventStep(r) \/ RuntimeStep(r)
      PROVE  opc' = opc /\ OwnerIsKnown'
  <2>1. opc' = opc
    BY <1>6 DEF EventStep, IngestEvent, ApplyStatus, ApplyRelease, ApplySynthIdle,
       RuntimeStep, TurnSettles, Evict, Lapse, Beat, Crash, Restart, LoseEvent, ops
  <2>2. ~Crash(r) /\ ~LoseEvent(r) BY <1>4 DEF Crash, LoseEvent
  <2>3. QED BY <1>3, <1>6, <2>1, <2>2, EventAccounts, RuntimeAccounts
<1>7. ASSUME NEW a \in Aborts, AbortStep(a) PROVE opc'[Deleter] = "new" /\ OwnerIsKnown'
  <2>1. a \in Ops \ {Deleter} BY TurnAssumption DEF Ops
  <2>2. QED BY <1>3, <1>7, <2>1, AbortAccounts
<1>8. ~DeleteStep
  BY <1>3, <1>4 DEF DeleteStep, DeleteRead, DeleteClose, DeleteRow, DeleteKeys
<1>9. ~CancelStep
  BY <1>4 DEF CancelStep, ContextDone, StreamBreaks, OpCancelled
<1>10. QED BY <1>3, <1>5, <1>6, <1>7, <1>8, <1>9, OtherAccounts DEF Next

LEMMA InitLInv == Init => LInv
BY DEF Init, LInv, OwnerIsKnown, Ops

\* Where no runtime dies, no event is lost, no context is done before its call or
\* handler, and no watchdog or delete ends a turn, the lock needs no TTL: its owner
\* is in SendPrompt, or its runtime's turn or a terminal event of it is still to
\* release the lock, whatever is aborted, evicted, refused or answered late.
THEOREM LockIsReturned == Spec => []LockIsAccountedFor
<1>1. TypeOK /\ HandlerBusy /\ LInv /\ [Next]_vars => LInv' BY StepLInv
<1>2. LInv => LockIsAccountedFor BY DEF LInv, OwnerIsKnown, LockIsAccountedFor
<1>3. QED BY InitLInv, <1>1, <1>2, TypeCorrect, PTL DEF Spec
=============================================================================
