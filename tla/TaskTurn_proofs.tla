-------------------------- MODULE TaskTurn_proofs --------------------------
(***************************************************************************)
(* Proofs about TaskTurn, for any number of runtimes, prompts, steers and  *)
(* aborts, and any interference.                                           *)
(***************************************************************************)
EXTENDS TaskTurn, TLAPS

(***************************************************************************)
(* Types.  One step per group of actions; EndTurn and the stream helpers   *)
(* are what touches chan.                                                  *)
(***************************************************************************)
LEMMA HeadTail ==
  ASSUME NEW S, NEW q \in Seq(S), q # <<>>
  PROVE  /\ Head(q) \in S /\ Tail(q) \in Seq(S)
         /\ Len(Tail(q)) = Len(q) - 1 /\ Head(q) = q[1]
         /\ \A i \in 1..Len(Tail(q)) : Tail(q)[i] = q[i + 1]
OBVIOUS

\* A runtime pushes an event: chan keeps its type.
LEMMA Pushed ==
  ASSUME NEW S, NEW f \in [Runtimes -> Seq(S)], NEW r \in Runtimes, NEW e \in S
  PROVE  [f EXCEPT ![r] = Append(@, e)] \in [Runtimes -> Seq(S)]
<1>1. Append(f[r], e) \in Seq(S) OBVIOUS
<1>2. QED BY <1>1

\* The events a prompt may cause are events.
LEMMA EventTypes ==
  ASSUME NEW c \in Prompts
  PROVE  /\ [type |-> "agent_start", turn |-> c] \in Event
         /\ [type |-> "agent_settled", turn |-> c] \in Event
         /\ [type |-> "error", turn |-> c] \in Event
BY DEF Event

\* SendPrompt and SteerTask keep the types.
LEMMA CallTypes ==
  ASSUME TypeOK, NEW c \in Calls, CallStep(c)
  PROVE  TypeOK'
<1> USE TurnAssumption DEF TypeOK, Statuses, PcStates, Calls, row, stream, rts,
      calls, ops, Goto, Failed, Abandon, SetStatus, SetRuntime, Ingest
<1>1. CASE ReadTask(c)
  <2>1. callRt' \in [Calls -> Runtimes \cup {None}] BY <1>1 DEF ReadTask
  <2>2. pc' \in [Calls -> PcStates] BY <1>1 DEF ReadTask
  <2>3. QED BY <1>1, <2>1, <2>2 DEF ReadTask
<1>2. CASE RefuseQuota(c) BY <1>2 DEF RefuseQuota
<1>3. CASE AcquireLock(c) BY <1>3 DEF AcquireLock
<1>4. CASE SteerUnlocked(c) BY <1>4 DEF SteerUnlocked
<1>5. CASE PickRuntime(c)
  <2>1. \A r, s \in Runtimes : <<r>> \in Seq(Runtimes) /\ <<r, s>> \in Seq(Runtimes)
    OBVIOUS
  <2>2. CASE tries' = tries BY <1>5, <2>2 DEF PickRuntime
  <2>3. ASSUME NEW q \in Seq(Runtimes), tries' = [tries EXCEPT ![c] = q]
        PROVE  TypeOK'
    BY <1>5, <2>3 DEF PickRuntime
  <2>4. ASSUME NEW r \in healthy, callRt[c] \notin healthy,
               tries' = [tries EXCEPT ![c] =
                 IF callRt[c] = None THEN <<r>> ELSE <<r, callRt[c]>>]
        PROVE  TypeOK'
    <3>1. CASE callRt[c] = None BY <2>1, <2>3, <2>4, <3>1
    <3>2. CASE callRt[c] # None BY <2>1, <2>3, <2>4, <3>2
    <3>3. QED BY <3>1, <3>2
  <2>5. CASE /\ callRt[c] \in healthy
             /\ tries' = [tries EXCEPT ![c] = <<callRt[c]>>]
    BY <2>1, <2>3, <2>5
  <2>6. QED BY <1>5, <2>2, <2>4, <2>5 DEF PickRuntime
<1>6. CASE HostSession(c)
  <2>1. Head(tries[c]) \in Runtimes BY <1>6 DEF HostSession
  <2>2. QED BY <1>6, <2>1 DEF HostSession
<1>61. CASE RecordRuntime(c)
  <2>1. Head(tries[c]) \in Runtimes BY <1>61 DEF RecordRuntime
  <2>2. QED BY <1>61, <2>1 DEF RecordRuntime
<1>62. CASE HostReplyLost(c)
  <2>1. Tail(tries[c]) \in Seq(Runtimes) BY <1>62 DEF HostReplyLost
  <2>2. QED BY <1>62, <2>1 DEF HostReplyLost
<1>7. CASE TryNext(c)
  <2>1. Tail(tries[c]) \in Seq(Runtimes) BY <1>7 DEF TryNext
  <2>2. QED BY <1>7, <2>1 DEF TryNext
<1>8. CASE NoHost(c) BY <1>8 DEF NoHost
<1>9. CASE PromptAccepted(c)
  <2>1. callRt[c] \in Runtimes BY <1>9 DEF PromptAccepted, AcceptsPrompt
  <2>2. chan' \in [Runtimes -> Seq(Event)]
    BY <1>9, <2>1, Pushed, EventTypes DEF PromptAccepted, StartTurn
  <2>3. QED BY <1>9, <2>2 DEF PromptAccepted, StartTurn
<1>10. CASE PromptFailsFast(c)
  <2>1. callRt[c] \in Runtimes BY <1>10 DEF PromptFailsFast, AcceptsPrompt
  <2>2. chan' \in [Runtimes -> Seq(Event)]
    BY <1>10, <2>1, Pushed, EventTypes DEF PromptFailsFast
  <2>3. QED BY <1>10, <2>2 DEF PromptFailsFast
<1>11. CASE PromptReplyLost(c)
  <2>1. callRt[c] \in Runtimes BY <1>11 DEF PromptReplyLost, AcceptsPrompt
  <2>2. chan' \in [Runtimes -> Seq(Event)]
    BY <1>11, <2>1, Pushed, EventTypes DEF PromptReplyLost, StartTurn
  <2>3. QED BY <1>11, <2>2 DEF PromptReplyLost, StartTurn
<1>12. CASE PromptRejected(c) BY <1>12 DEF PromptRejected
<1>13. CASE SteerSession(c) \/ PromptQueued(c) BY <1>13 DEF SteerSession, PromptQueued
<1>14. CASE Unwind(c) BY <1>14 DEF Unwind
<1>15. CASE MarkRunning(c) BY <1>15 DEF MarkRunning
<1>16. CASE SynthRunning(c) BY <1>16 DEF SynthRunning
<1>17. CASE FirstPromptFailed(c) BY <1>17 DEF FirstPromptFailed
<1>18. QED
  BY <1>1, <1>2, <1>3, <1>4, <1>5, <1>6, <1>7, <1>8, <1>9, <1>10, <1>11, <1>12,
     <1>13, <1>14, <1>15, <1>16, <1>17, <1>61, <1>62 DEF CallStep

\* A turn that ends pushes an event and keeps the types.
LEMMA EndTurnTypes ==
  ASSUME TypeOK, NEW r \in Runtimes, EndTurn(r)
  PROVE  /\ turn' \in [Runtimes -> Prompts \cup {None}]
         /\ chan' \in [Runtimes -> Seq(Event)]
<1>1. CASE turn[r] = None BY <1>1 DEF EndTurn, TypeOK
<1>2. CASE turn[r] # None
  <2>1. turn[r] \in Prompts BY <1>2 DEF TypeOK
  <2> DEFINE e == [type |-> "agent_settled", turn |-> turn[r]]
  <2>2. e \in Event BY <2>1, EventTypes
  <2>3. chan' = [chan EXCEPT ![r] = Append(@, e)] BY <1>2 DEF EndTurn
  <2>4. chan \in [Runtimes -> Seq(Event)] BY DEF TypeOK
  <2> HIDE DEF e
  <2>5. chan' \in [Runtimes -> Seq(Event)] BY <2>2, <2>3, <2>4, Pushed
  <2>6. QED BY <1>2, <2>5 DEF EndTurn, TypeOK
<1>3. QED BY <1>1, <1>2

\* The head of a runtime's events is taken: chan keeps its type.
LEMMA Popped ==
  ASSUME NEW S, NEW f \in [Runtimes -> Seq(S)], NEW r \in Runtimes, f[r] # <<>>
  PROVE  [f EXCEPT ![r] = Tail(@)] \in [Runtimes -> Seq(S)]
<1>1. Tail(f[r]) \in Seq(S) OBVIOUS
<1>2. QED BY <1>1

\* onEvent keeps the types: it works on an event that is there.
LEMMA EventTypesOK ==
  ASSUME TypeOK, HandlerBusy, NEW r \in Runtimes, EventStep(r)
  PROVE  TypeOK'
<1> USE DEF TypeOK, Statuses, row, stream, rts, calls, ops, SetStatus, Ingest,
      StepTo, NextEvent, HandlerBusy
<1>1. CASE IngestEvent(r) BY <1>1 DEF IngestEvent
<1>2. CASE ApplyStatus(r)
  <2>1. chan[r] # <<>> BY <1>2 DEF ApplyStatus
  <2>2. [chan EXCEPT ![r] = Tail(@)] \in [Runtimes -> Seq(Event)]
    BY <2>1, Popped
  <2>3. chan' \in [Runtimes -> Seq(Event)] BY <1>2, <2>2 DEF ApplyStatus
  <2>4. QED BY <1>2, <2>3 DEF ApplyStatus
<1>3. CASE ApplyRelease(r) BY <1>3 DEF ApplyRelease
<1>4. CASE ApplySynthIdle(r)
  <2>1. chan' \in [Runtimes -> Seq(Event)] BY <1>4, Popped DEF ApplySynthIdle
  <2>2. QED BY <1>4, <2>1 DEF ApplySynthIdle
<1>5. QED BY <1>1, <1>2, <1>3, <1>4 DEF EventStep

\* What the runtimes do keeps the types.
LEMMA RuntimeTypes ==
  ASSUME TypeOK, NEW r \in Runtimes, RuntimeStep(r)
  PROVE  TypeOK'
<1> USE DEF TypeOK, row, stream, rts, calls, ops
<1>1. CASE TurnSettles(r) BY <1>1, EndTurnTypes DEF TurnSettles
<1>2. CASE Evict(r) BY <1>2 DEF Evict
<1>3. CASE Lapse(r) BY <1>3 DEF Lapse
<1>4. CASE Beat(r) BY <1>4 DEF Beat
<1>5. CASE Crash(r) BY <1>5 DEF Crash
<1>6. CASE Restart(r) BY <1>6 DEF Restart
<1>7. CASE LoseEvent(r)
  <2>1. chan' \in [Runtimes -> Seq(Event)] BY <1>7, Popped DEF LoseEvent
  <2>2. QED BY <1>7, <2>1 DEF LoseEvent
<1>8. QED BY <1>1, <1>2, <1>3, <1>4, <1>5, <1>6, <1>7 DEF RuntimeStep

\* AbortTask, and the same steps of the watchdog, keep the types.
LEMMA AbortTypes ==
  ASSUME TypeOK, NEW o \in Ops \ {Deleter}, AbortStep(o)
  PROVE  TypeOK'
<1> USE DEF TypeOK, Statuses, OpStates, row, stream, rts, calls, Ingest, OpGoto
<1>1. CASE AbortRead(o) BY <1>1 DEF AbortRead
<1>2. CASE AbortCall(o)
  <2>1. CASE opRt[o] \in healthy \cap up /\ EndTurn(opRt[o])
    BY <1>2, <2>1, EndTurnTypes DEF AbortCall
  <2>2. CASE UNCHANGED <<turn, chan>> BY <1>2, <2>2 DEF AbortCall
  <2>3. QED BY <1>2, <2>1, <2>2 DEF AbortCall, AbortOn
<1>3. CASE ForceRelease(o) BY <1>3 DEF ForceRelease
<1>4. CASE AbortSynth(o) BY <1>4 DEF AbortSynth
<1>5. QED BY <1>1, <1>2, <1>3, <1>4 DEF AbortStep

\* The watchdog, DeleteTask, archiving and time keep the types.
LEMMA OtherTypes ==
  ASSUME TypeOK, WatchdogStep \/ DeleteStep \/ Archive \/ Silence \/ LockExpires
  PROVE  TypeOK'
<1> USE TurnAssumption DEF TypeOK, Statuses, OpStates, Ops, row, stream, rts, calls,
      ops, Ingest, OpGoto, SetStatus
<1>1. CASE WatchdogScan BY <1>1 DEF WatchdogScan
<1>2. CASE AbortCall(Watchdog) \/ ForceRelease(Watchdog)
  <2>1. Watchdog \in Ops \ {Deleter} OBVIOUS
  <2>2. QED BY <1>2, <2>1, AbortTypes DEF AbortStep
<1>3. CASE WatchdogFail BY <1>3 DEF WatchdogFail
<1>4. CASE WatchdogSynth BY <1>4 DEF WatchdogSynth
<1>5. CASE DeleteRead BY <1>5 DEF DeleteRead
<1>6. CASE DeleteClose BY <1>6 DEF DeleteClose
<1>7. CASE DeleteRow BY <1>7 DEF DeleteRow
<1>8. CASE DeleteKeys BY <1>8 DEF DeleteKeys
<1>9. CASE Archive BY <1>9 DEF Archive
<1>10. CASE Silence BY <1>10 DEF Silence
<1>11. CASE LockExpires BY <1>11 DEF LockExpires
<1>12. QED
  BY <1>1, <1>2, <1>3, <1>4, <1>5, <1>6, <1>7, <1>8, <1>9, <1>10, <1>11
  DEF WatchdogStep, DeleteStep

(***************************************************************************)
(* Every step but the handler's own and a loss leaves step alone and at    *)
(* most appends to one runtime's chan.                                     *)
(***************************************************************************)
Grows ==
  /\ step' = step
  /\ \/ chan' = chan
     \/ \E r \in Runtimes : \E e \in Event :
          chan' = [chan EXCEPT ![r] = Append(@, e)]

\* SendPrompt pushes at most one event, through the runtime's Prompt handler.
LEMMA CallGrows ==
  ASSUME TypeOK, NEW c \in Calls, CallStep(c)
  PROVE  Grows
<1> USE DEF row, stream, rts, calls, ops
<1>1. CASE PromptAccepted(c) \/ PromptReplyLost(c)
  <2>1. callRt[c] \in Runtimes /\ c \in Prompts
    BY <1>1 DEF PromptAccepted, PromptReplyLost, AcceptsPrompt, TypeOK
  <2>2. QED BY <1>1, <2>1, EventTypes DEF PromptAccepted, PromptReplyLost, StartTurn, Grows
<1>2. CASE PromptFailsFast(c)
  <2>1. callRt[c] \in Runtimes /\ c \in Prompts
    BY <1>2 DEF PromptFailsFast, AcceptsPrompt, TypeOK
  <2>2. QED BY <1>2, <2>1, EventTypes DEF PromptFailsFast, Grows
<1>3. CASE ReadTask(c) \/ RefuseQuota(c) \/ AcquireLock(c) \/ SteerUnlocked(c)
           \/ PickRuntime(c) \/ HostSession(c) \/ RecordRuntime(c)
           \/ HostReplyLost(c) \/ TryNext(c) \/ NoHost(c)
  BY <1>3 DEF Grows, ReadTask, RefuseQuota, AcquireLock, SteerUnlocked, PickRuntime,
       HostSession, RecordRuntime, HostReplyLost, TryNext, NoHost
<1>4. CASE PromptQueued(c) \/ PromptRejected(c) \/ SteerSession(c) \/ Unwind(c)
           \/ MarkRunning(c) \/ SynthRunning(c) \/ FirstPromptFailed(c)
  BY <1>4 DEF Grows, PromptQueued, PromptRejected, SteerSession, Unwind, MarkRunning, SynthRunning,
       FirstPromptFailed
<1>5. QED BY <1>1, <1>2, <1>3, <1>4 DEF CallStep

\* A turn that ends pushes its agent_settled.
LEMMA EndTurnGrows ==
  ASSUME TypeOK, NEW r \in Runtimes, EndTurn(r), step' = step
  PROVE  Grows
<1>1. CASE turn[r] = None BY <1>1 DEF EndTurn, Grows
<1>2. CASE turn[r] # None
  <2>1. turn[r] \in Prompts BY <1>2 DEF TypeOK
  <2>2. QED BY <1>2, <2>1, EventTypes DEF EndTurn, Grows
<1>3. QED BY <1>1, <1>2

\* An abort pushes at most the agent_settled of the turn it ends.
LEMMA AbortGrows ==
  ASSUME TypeOK, NEW o \in Ops \ {Deleter}, AbortStep(o)
  PROVE  Grows
<1>1. CASE AbortCall(o)
  <2>1. CASE opRt[o] \in healthy \cap up /\ EndTurn(opRt[o])
    BY <1>1, <2>1, EndTurnGrows DEF AbortCall, TypeOK
  <2>2. CASE UNCHANGED <<turn, chan>> BY <1>1, <2>2 DEF AbortCall, Grows
  <2>3. QED BY <1>1, <2>1, <2>2 DEF AbortCall, AbortOn
<1>2. CASE AbortRead(o) \/ ForceRelease(o) \/ AbortSynth(o)
  BY <1>2 DEF Grows, AbortRead, ForceRelease, AbortSynth, rts
<1>3. QED BY <1>1, <1>2 DEF AbortStep

\* So does the watchdog; the others push nothing.
LEMMA OtherGrows ==
  ASSUME TypeOK, WatchdogStep \/ DeleteStep \/ Archive \/ Silence \/ LockExpires
  PROVE  Grows
<1> USE DEF rts
<1>1. CASE AbortCall(Watchdog) \/ ForceRelease(Watchdog)
  <2>1. Watchdog \in Ops \ {Deleter} BY TurnAssumption DEF Ops
  <2>2. QED BY <1>1, <2>1, AbortGrows DEF AbortStep
<1>2. CASE WatchdogScan \/ WatchdogFail \/ WatchdogSynth
  BY <1>2 DEF Grows, WatchdogScan, WatchdogFail, WatchdogSynth
<1>3. CASE DeleteStep
  BY <1>3 DEF Grows, DeleteStep, DeleteRead, DeleteClose, DeleteRow, DeleteKeys
<1>4. CASE Archive \/ Silence \/ LockExpires
  BY <1>4 DEF Grows, Archive, Silence, LockExpires
<1>5. QED BY <1>1, <1>2, <1>3, <1>4 DEF WatchdogStep

\* A runtime's own step pushes at most one event, unless it loses one.
LEMMA RuntimeGrows ==
  ASSUME TypeOK, NEW r \in Runtimes, RuntimeStep(r), ~LoseEvent(r)
  PROVE  Grows
<1>1. CASE TurnSettles(r) BY <1>1, EndTurnGrows DEF TurnSettles
<1>2. CASE Evict(r) \/ Lapse(r) \/ Beat(r) \/ Crash(r) \/ Restart(r)
  BY <1>2 DEF Grows, Evict, Lapse, Beat, Crash, Restart
<1>3. QED BY <1>1, <1>2 DEF RuntimeStep

\* Appending leaves the head and every earlier position alone.
LEMMA AppendFacts ==
  ASSUME NEW S, NEW q \in Seq(S), NEW e \in S
  PROVE  /\ Append(q, e) # <<>>
         /\ q # <<>> => Head(Append(q, e)) = Head(q)
         /\ Len(Append(q, e)) = Len(q) + 1
         /\ \A i \in 1..Len(q) : Append(q, e)[i] = q[i]
         /\ Append(q, e)[Len(q) + 1] = e
<1>1. Append(q, e) \in Seq(S) OBVIOUS
<1>2. Len(Append(q, e)) = Len(q) + 1 /\ Len(q) \in Nat OBVIOUS
<1>3. \A i \in 1..Len(q) : Append(q, e)[i] = q[i] OBVIOUS
<1>4. Append(q, e)[Len(q) + 1] = e OBVIOUS
<1>5. Append(q, e) # <<>> BY <1>1, <1>2
<1>6. q # <<>> => Head(Append(q, e)) = Head(q)
  <2>1. ASSUME q # <<>> PROVE Head(Append(q, e)) = Head(q)
    <3>1. Len(q) >= 1 BY <2>1
    <3>2. Head(q) = q[1] /\ Head(Append(q, e)) = Append(q, e)[1]
      BY <1>1, <1>5, <2>1
    <3>3. QED BY <1>3, <3>1, <3>2
  <2>2. QED BY <2>1
<1>7. QED BY <1>2, <1>3, <1>4, <1>5, <1>6

\* While others push, the event onEvent works on stays at the head.
LEMMA GrowsBusy ==
  ASSUME TypeOK, HandlerBusy, Grows
  PROVE  HandlerBusy'
<1>1. CASE chan' = chan BY <1>1 DEF HandlerBusy, Grows
<1>2. ASSUME NEW r \in Runtimes, NEW e \in Event,
             chan' = [chan EXCEPT ![r] = Append(@, e)]
      PROVE  HandlerBusy'
  <2>1. chan[r] \in Seq(Event) BY DEF TypeOK
  <2>2. /\ chan'[r] # <<>>
        /\ chan[r] # <<>> => Head(chan'[r]) = Head(chan[r])
    BY <1>2, <2>1, AppendFacts DEF TypeOK
  <2>3. \A s \in Runtimes \ {r} : chan'[s] = chan[s] BY <1>2 DEF TypeOK
  <2>4. QED BY <2>2, <2>3 DEF HandlerBusy, Grows
<1>3. QED BY <1>1, <1>2 DEF Grows

\* onEvent leaves a handled event behind, and a loss hits none it works on.
LEMMA EventBusy ==
  ASSUME TypeOK, HandlerBusy, NEW r \in Runtimes, EventStep(r) \/ LoseEvent(r)
  PROVE  HandlerBusy'
<1> USE DEF HandlerBusy, TypeOK, StepTo, NextEvent, row, stream, rts, calls, ops
<1>1. CASE IngestEvent(r) BY <1>1 DEF IngestEvent
<1>2. CASE ApplyStatus(r) BY <1>2 DEF ApplyStatus
<1>3. CASE ApplyRelease(r) BY <1>3 DEF ApplyRelease
<1>4. CASE ApplySynthIdle(r) BY <1>4 DEF ApplySynthIdle
<1>5. CASE LoseEvent(r) BY <1>5 DEF LoseEvent
<1>6. QED BY <1>1, <1>2, <1>3, <1>4, <1>5 DEF EventStep

\* What a done context does to a call: it ends, unless the prompt was accepted
\* before, and nothing else moves; or its Prompt RPC still starts the turn.
Drops(c) ==
  /\ UNCHANGED <<lock, turn, chan, step>>
  /\ pc' = [pc EXCEPT ![c] = IF pc[c] = "accepted" THEN "marked" ELSE "done"]
StartsUnheard(c) ==
  /\ c \in Prompts /\ pc[c] = "ensured" /\ AcceptsPrompt(callRt[c])
  /\ StartTurn(c, callRt[c])
  /\ pc' = [pc EXCEPT ![c] = "done"] /\ UNCHANGED <<lock, step>>

LEMMA ContextKind ==
  ASSUME NEW c \in Calls, ContextDone(c)
  PROVE  Drops(c) \/ StartsUnheard(c)
BY DEF ContextDone, Drops, StartsUnheard, Goto

\* A stream that breaks under onEvent is as if its release had been ignored.
LEMMA BreakKind ==
  ASSUME TypeOK, HandlerBusy, NEW r \in Runtimes, StreamBreaks(r)
  PROVE  /\ UNCHANGED <<lock, turn, pc>> /\ chan[r] # <<>>
         /\ \/ /\ IsTerminal(Head(chan[r])) /\ chan' = chan
               /\ step' = [step EXCEPT ![r] = "synth"]
            \/ /\ chan' = [chan EXCEPT ![r] = Tail(@)]
               /\ step' = [step EXCEPT ![r] = "recv"]
<1>1. chan[r] # <<>> BY DEF StreamBreaks, HandlerBusy
<1>2. QED BY <1>1 DEF StreamBreaks, StepTo, NextEvent, calls

\* Cancelled calls and broken streams keep the types.
LEMMA CancelTypes ==
  ASSUME TypeOK, HandlerBusy, CancelStep
  PROVE  TypeOK' /\ HandlerBusy'
<1> USE DEF row, stream, rts, calls, ops
<1>1. ASSUME NEW c \in Calls, ContextDone(c) PROVE TypeOK' /\ HandlerBusy'
  <2>1. pc' \in [Calls -> PcStates]
    BY <1>1 DEF ContextDone, Goto, TypeOK, PcStates
  <2>2. CASE UNCHANGED <<turn, chan>>
    BY <1>1, <2>1, <2>2 DEF ContextDone, TypeOK, HandlerBusy
  <2>3. CASE StartsUnheard(c)
    <3>1. callRt[c] \in Runtimes /\ c \in Prompts
      BY <2>3 DEF StartsUnheard, AcceptsPrompt, TypeOK
    <3> DEFINE e == [type |-> "agent_start", turn |-> c]
    <3>2. e \in Event BY <3>1, EventTypes
    <3>3. /\ chan' = [chan EXCEPT ![callRt[c]] = Append(@, e)]
          /\ turn' = [turn EXCEPT ![callRt[c]] = c]
      BY <2>3 DEF StartsUnheard, StartTurn
    <3> HIDE DEF e
    <3>4. chan' \in [Runtimes -> Seq(Event)]
      <4>1. chan \in [Runtimes -> Seq(Event)] BY DEF TypeOK
      <4>2. QED BY <3>1, <3>2, <3>3, <4>1, Pushed
    <3>5. TypeOK' BY <1>1, <2>1, <3>1, <3>3, <3>4 DEF ContextDone, TypeOK
    <3>6. Grows BY <1>1, <3>1, <3>2, <3>3 DEF ContextDone, Grows
    <3>7. QED BY <3>5, <3>6, GrowsBusy
  <2>4. QED BY <1>1, <2>2, <2>3, ContextKind DEF Drops
<1>2. ASSUME NEW r \in Runtimes, StreamBreaks(r) PROVE TypeOK' /\ HandlerBusy'
  <2>1. chan' \in [Runtimes -> Seq(Event)]
    <3>1. chan[r] # <<>> /\ chan \in [Runtimes -> Seq(Event)]
      BY <1>2, BreakKind DEF TypeOK
    <3>2. [chan EXCEPT ![r] = Tail(@)] \in [Runtimes -> Seq(Event)] BY <3>1, Popped
    <3>3. QED BY <1>2, <3>1, <3>2, BreakKind
  <2>2. TypeOK' BY <1>2, <2>1, BreakKind DEF StreamBreaks, TypeOK
  <2>3. HandlerBusy' BY <1>2, BreakKind DEF HandlerBusy, TypeOK
  <2>4. QED BY <2>2, <2>3
<1>3. ASSUME NEW o \in Ops, OpCancelled(o) PROVE TypeOK' /\ HandlerBusy'
  <2>1. PICK p \in OpStates : opc' = [opc EXCEPT ![o] = p]
    BY <1>3 DEF OpCancelled, OpGoto, OpStates
  <2>2. opc' \in [Ops -> OpStates] BY <2>1 DEF TypeOK
  <2>3. QED BY <1>3, <2>2 DEF OpCancelled, TypeOK, HandlerBusy
<1>4. QED BY <1>1, <1>2, <1>3 DEF CancelStep

\* Types and HandlerBusy are inductive together.
LEMMA StepTypes ==
  ASSUME TypeOK, HandlerBusy, [Next]_vars
  PROVE  TypeOK' /\ HandlerBusy'
<1>1. ASSUME NEW c \in Calls, CallStep(c) PROVE TypeOK' /\ HandlerBusy'
  BY <1>1, CallTypes, CallGrows, GrowsBusy
<1>2. ASSUME NEW r \in Runtimes, EventStep(r) PROVE TypeOK' /\ HandlerBusy'
  BY <1>2, EventTypesOK, EventBusy
<1>3. ASSUME NEW r \in Runtimes, RuntimeStep(r) PROVE TypeOK' /\ HandlerBusy'
  BY <1>3, RuntimeTypes, RuntimeGrows, GrowsBusy, EventBusy
<1>4. ASSUME NEW a \in Aborts, AbortStep(a) PROVE TypeOK' /\ HandlerBusy'
  <2>1. a \in Ops \ {Deleter} BY TurnAssumption DEF Ops
  <2>2. QED BY <1>4, <2>1, AbortTypes, AbortGrows, GrowsBusy
<1>5. CASE WatchdogStep \/ DeleteStep \/ Archive \/ Silence \/ LockExpires
  BY <1>5, OtherTypes, OtherGrows, GrowsBusy
<1>6. CASE UNCHANGED vars BY <1>6 DEF vars, TypeOK, HandlerBusy
<1>7. QED BY <1>1, <1>2, <1>3, <1>4, <1>5, <1>6, CancelTypes DEF Next

\* Every variable keeps its type, and onEvent never works on an event that
\* is not there, under any interference.
THEOREM TypeCorrect == Spec => [](TypeOK /\ HandlerBusy)
<1>1. Init => TypeOK /\ HandlerBusy
  <2>1. <<>> \in Seq(Event) /\ <<>> \in Seq(Runtimes) OBVIOUS
  <2>2. Init => /\ chan \in [Runtimes -> Seq(Event)]
                /\ tries \in [Calls -> Seq(Runtimes)]
    BY <2>1 DEF Init
  <2>3. Init => HandlerBusy BY DEF Init, HandlerBusy
  <2>4. Init => /\ turn \in [Runtimes -> Prompts \cup {None}]
                /\ step \in [Runtimes -> {"recv", "status", "release", "synth"}]
                /\ pc \in [Calls -> PcStates]
                /\ callRt \in [Calls -> Runtimes \cup {None}]
                /\ opc \in [Ops -> OpStates]
                /\ opRt \in [Ops -> Runtimes \cup {None}]
    BY DEF Init, PcStates, OpStates
  <2>5. Init => /\ env \in Scenarios /\ status \in Statuses /\ rowRt \in Runtimes \cup {None}
                /\ lock \in Prompts \cup {None}
                /\ fresh \in BOOLEAN /\ streamKey \in BOOLEAN
                /\ view \in {"running", "stopped"}
                /\ up \subseteq Runtimes /\ healthy \subseteq Runtimes
                /\ pool \subseteq Runtimes
    BY DEF Init, Statuses
  <2>6. QED BY <2>2, <2>3, <2>4, <2>5 DEF TypeOK
<1>2. TypeOK /\ HandlerBusy /\ [Next]_vars => (TypeOK /\ HandlerBusy)'
  BY StepTypes
<1>3. QED BY <1>1, <1>2, PTL DEF Spec

(***************************************************************************)
(* Serial turns.  Where nothing deletes the lock behind a running turn,    *)
(* Claimed is inductive: lapsed heartbeats, crashed runtimes, lost  *)
(* events, evictions and archiving cannot make two turns overlap.          *)
(***************************************************************************)
NothingForced == \A o \in Ops : opc[o] = "new"

IInv == TypeOK /\ HandlerBusy /\ (Unforced => NothingForced /\ Claimed)

\* Without the lock's breakers no abort, sweep or delete ever starts.
LEMMA StepNothingForced ==
  ASSUME TypeOK, NothingForced, [Next]_vars, Unforced
  PROVE  /\ NothingForced'
         /\ ~(\E a \in Aborts : AbortStep(a)) /\ ~WatchdogStep /\ ~DeleteStep
<1> USE TurnAssumption DEF NothingForced, Unforced, LockBreakers, Ops
<1>1. ~(\E a \in Aborts : AbortStep(a))
  BY DEF AbortStep, AbortRead, AbortCall, ForceRelease, AbortSynth
<1>2. ~WatchdogStep
  BY DEF WatchdogStep, WatchdogScan, AbortCall, ForceRelease, WatchdogFail, WatchdogSynth
<1>3. ~DeleteStep
  BY DEF DeleteStep, DeleteRead, DeleteClose, DeleteRow, DeleteKeys
<1>4. ASSUME NEW c \in Calls, CallStep(c) PROVE opc' = opc
  <2>1. CASE ReadTask(c) \/ RefuseQuota(c) \/ AcquireLock(c) \/ SteerUnlocked(c)
           \/ PickRuntime(c) \/ HostSession(c) \/ RecordRuntime(c)
           \/ HostReplyLost(c) \/ TryNext(c) \/ NoHost(c)
    BY <2>1 DEF ReadTask, RefuseQuota, AcquireLock, SteerUnlocked, PickRuntime,
       HostSession, RecordRuntime, HostReplyLost, TryNext, NoHost, ops
  <2>2. CASE PromptAccepted(c) \/ PromptFailsFast(c) \/ PromptReplyLost(c)
           \/ PromptQueued(c) \/ PromptRejected(c) \/ SteerSession(c) \/ Unwind(c) \/ MarkRunning(c)
           \/ SynthRunning(c) \/ FirstPromptFailed(c)
    BY <2>2 DEF PromptAccepted, PromptFailsFast, PromptReplyLost, PromptQueued, PromptRejected,
       SteerSession, Unwind, MarkRunning, SynthRunning, FirstPromptFailed, ops
  <2>3. QED BY <1>4, <2>1, <2>2 DEF CallStep
<1>5. ASSUME NEW r \in Runtimes, EventStep(r) \/ RuntimeStep(r) PROVE opc' = opc
  BY <1>5 DEF EventStep, IngestEvent, ApplyStatus, ApplyRelease, ApplySynthIdle,
     RuntimeStep, TurnSettles, Evict, Lapse, Beat, Crash, Restart, LoseEvent, ops
<1>6. Archive \/ Silence \/ LockExpires \/ UNCHANGED vars => opc' = opc
  BY DEF Archive, Silence, LockExpires, vars, ops
<1>61. CancelStep => opc' = opc
  BY DEF CancelStep, ContextDone, StreamBreaks, OpCancelled, ops
<1>7. opc' = opc BY <1>1, <1>2, <1>3, <1>4, <1>5, <1>6, <1>61 DEF Next
<1>8. QED BY <1>1, <1>2, <1>3, <1>7

\* What is in a channel is an event of a prompt.
LEMMA ChanEvents ==
  ASSUME TypeOK
  PROVE  \A r \in Runtimes : \A i \in 1..Len(chan[r]) :
           chan[r][i] \in Event /\ chan[r][i].turn \in Prompts
<1>1. ASSUME NEW r \in Runtimes, NEW i \in 1..Len(chan[r])
      PROVE  chan[r][i] \in Event /\ chan[r][i].turn \in Prompts
  <2>1. chan[r] \in Seq(Event) BY DEF TypeOK
  <2>2. chan[r][i] \in Event BY <2>1
  <2>3. QED BY <2>2 DEF Event
<1>2. QED BY <1>1

\* A step of a call that touches neither the lock nor any runtime.
LEMMA QuietCall ==
  ASSUME TypeOK, Claimed, NEW c \in Calls, NEW p,
         UNCHANGED <<lock, turn, chan, step>>, pc' = [pc EXCEPT ![c] = p],
         Delivered(c) => p \in {"accepted", "marked", "done"},
         c \in Prompts /\ p \in {"ensure", "try", "hosted", "ensured", "unwind"} => lock = c
  PROVE  Claimed'
<1>1. \A d \in Prompts : Sending(d)' => lock' = d
  BY DEF Claimed, Sending, TypeOK, Calls
<1>2. \A d \in Prompts : Delivered(d) => Delivered(d)'
  BY DEF Delivered, TypeOK, Calls
<1>3. \A r, i : Unreleased(r, i)' = Unreleased(r, i) BY DEF Unreleased
<1>4. \A r \in Runtimes : turn[r] # None => turn[r] \in Prompts BY DEF TypeOK
<1>5. \A r \in Runtimes : \A i \in 1..Len(chan[r]) : chan[r][i].turn \in Prompts
  BY ChanEvents
<1>6. QED BY <1>1, <1>2, <1>3, <1>4, <1>5 DEF Claimed

\* After a push, an unreleased terminal event was one before, or is the new one.
LEMMA UnreleasedAfterPush ==
  ASSUME TypeOK, NEW r \in Runtimes, NEW e \in Event, step' = step,
         chan' = [chan EXCEPT ![r] = Append(@, e)]
  PROVE  \A s \in Runtimes : \A i \in 1..Len(chan'[s]) : Unreleased(s, i)' =>
           \/ /\ i \in 1..Len(chan[s]) /\ Unreleased(s, i)
              /\ chan'[s][i] = chan[s][i]
           \/ /\ s = r /\ i = Len(chan[r]) + 1
              /\ chan'[s][i] = e /\ IsTerminal(e)
<1> SUFFICES ASSUME NEW s \in Runtimes, NEW i \in 1..Len(chan'[s]), Unreleased(s, i)'
             PROVE  \/ /\ i \in 1..Len(chan[s]) /\ Unreleased(s, i)
                       /\ chan'[s][i] = chan[s][i]
                    \/ /\ s = r /\ i = Len(chan[r]) + 1
                       /\ chan'[s][i] = e /\ IsTerminal(e)
  OBVIOUS
<1>1. CASE s # r
  <2>1. chan'[s] = chan[s] BY <1>1 DEF TypeOK
  <2>2. QED BY <2>1 DEF Unreleased, IsTerminal
<1>2. CASE s = r
  <2>1. chan[r] \in Seq(Event) /\ chan'[r] = Append(chan[r], e) BY DEF TypeOK
  <2>2. /\ Len(chan'[r]) = Len(chan[r]) + 1
        /\ \A j \in 1..Len(chan[r]) : chan'[r][j] = chan[r][j]
        /\ chan'[r][Len(chan[r]) + 1] = e
        /\ Len(chan[r]) \in Nat
    BY <2>1, AppendFacts
  <2>3. CASE i = Len(chan[r]) + 1
    BY <1>2, <2>2, <2>3 DEF Unreleased, IsTerminal
  <2>4. CASE i \in 1..Len(chan[r])
    BY <1>2, <2>2, <2>4 DEF Unreleased, IsTerminal
  <2>5. QED BY <1>2, <2>2, <2>3, <2>4
<1>3. QED BY <1>1, <1>2

\* After onEvent is done with the head, an unreleased event was one before.
LEMMA UnreleasedAfterPop ==
  ASSUME TypeOK, NEW r \in Runtimes, chan[r] # <<>>,
         step' = [step EXCEPT ![r] = "recv"],
         chan' = [chan EXCEPT ![r] = Tail(@)]
  PROVE  \A s \in Runtimes : \A i \in 1..Len(chan'[s]) : Unreleased(s, i)' =>
           \E j \in 1..Len(chan[s]) :
             /\ Unreleased(s, j) /\ chan'[s][i] = chan[s][j]
             /\ j = IF s = r THEN i + 1 ELSE i
<1> SUFFICES ASSUME NEW s \in Runtimes, NEW i \in 1..Len(chan'[s]), Unreleased(s, i)'
             PROVE  \E j \in 1..Len(chan[s]) :
                      /\ Unreleased(s, j) /\ chan'[s][i] = chan[s][j]
                      /\ j = IF s = r THEN i + 1 ELSE i
  OBVIOUS
<1>1. CASE s # r
  <2>1. chan'[s] = chan[s] /\ step'[s] = step[s] BY <1>1 DEF TypeOK
  <2>2. QED BY <1>1, <2>1 DEF Unreleased, IsTerminal
<1>2. CASE s = r
  <2>1. chan[r] \in Seq(Event) /\ chan'[r] = Tail(chan[r]) BY DEF TypeOK
  <2>2. /\ Len(chan'[r]) = Len(chan[r]) - 1
        /\ \A j \in 1..Len(chan'[r]) : chan'[r][j] = chan[r][j + 1]
        /\ Len(chan[r]) \in Nat
    <3>1. Len(chan[r]) \in Nat BY <2>1
    <3>2. /\ Len(Tail(chan[r])) = Len(chan[r]) - 1
          /\ \A j \in 1..Len(Tail(chan[r])) : Tail(chan[r])[j] = chan[r][j + 1]
      BY <2>1, HeadTail
    <3>3. QED BY <2>1, <3>1, <3>2
  <2>3. i + 1 \in 1..Len(chan[s]) /\ i + 1 # 1 BY <1>2, <2>2
  <2>4. chan'[s][i] = chan[s][i + 1] BY <1>2, <2>2
  <2>5. Unreleased(s, i + 1)
    BY <1>2, <2>2, <2>3, <2>4 DEF Unreleased, IsTerminal
  <2>6. QED BY <1>2, <2>3, <2>4, <2>5
<1>3. QED BY <1>1, <1>2

\* A prompt that has the lock and is not delivered yet has the session alone.
LEMMA SenderIsAlone ==
  ASSUME TypeOK, Claimed, NEW c \in Prompts, Sending(c)
  PROVE  /\ lock = c
         /\ \A r \in Runtimes : turn[r] = None
         /\ \A r \in Runtimes : \A i \in 1..Len(chan[r]) : ~Unreleased(r, i)
<1>1. lock = c /\ ~Delivered(c)
  BY DEF Claimed, Sending, Delivered
<1>2. QED BY <1>1 DEF Claimed

\* The Prompt RPC starts a turn, or fails fast.
LEMMA DeliverKeeps ==
  ASSUME TypeOK, Claimed, NEW c \in Prompts, Sending(c),
         NEW r \in Runtimes, NEW e \in Event, e.turn = c,
         UNCHANGED <<lock, step>>,
         NEW p \in {"accepted", "done"}, pc' = [pc EXCEPT ![c] = p],
         chan' = [chan EXCEPT ![r] = Append(@, e)],
         \/ turn' = [turn EXCEPT ![r] = c] /\ ~IsTerminal(e)
         \/ turn' = turn
  PROVE  Claimed'
<1>1. /\ lock = c
      /\ \A s \in Runtimes : turn[s] = None
      /\ \A s \in Runtimes : \A i \in 1..Len(chan[s]) : ~Unreleased(s, i)
  BY SenderIsAlone
<1>2. \A s \in Runtimes : \A i \in 1..Len(chan'[s]) : Unreleased(s, i)' =>
        s = r /\ i = Len(chan[r]) + 1 /\ chan'[s][i] = e /\ IsTerminal(e)
  <2>1. step' = step OBVIOUS
  <2>2. \A s \in Runtimes : \A i \in 1..Len(chan'[s]) : Unreleased(s, i)' =>
           \/ /\ i \in 1..Len(chan[s]) /\ Unreleased(s, i)
              /\ chan'[s][i] = chan[s][i]
           \/ /\ s = r /\ i = Len(chan[r]) + 1
              /\ chan'[s][i] = e /\ IsTerminal(e)
    BY <2>1, UnreleasedAfterPush, Zenon
  <2>3. QED BY <1>1, <2>2
<1>3. Delivered(c)' BY DEF Delivered, TypeOK, Calls
<1>4. \A s \in Runtimes : turn'[s] # None => s = r /\ turn'[s] = c /\ ~IsTerminal(e)
  <2>1. CASE turn' = turn BY <1>1, <2>1
  <2>2. CASE turn' = [turn EXCEPT ![r] = c] /\ ~IsTerminal(e)
    BY <1>1, <2>2 DEF TypeOK
  <2>3. QED BY <2>1, <2>2
<1>5. \A d \in Prompts : Sending(d)' => lock' = d
  BY DEF Claimed, Sending, TypeOK, Calls
<1>6. QED BY <1>1, <1>2, <1>3, <1>4, <1>5 DEF Claimed

\* SendPrompt and SteerTask keep the claim: a prompt claims the session only
\* with a free lock, sends itself once, and gives the claim up undelivered.
LEMMA CallKeeps ==
  ASSUME TypeOK, Claimed, NEW c \in Calls, CallStep(c), Unforced
  PROVE  Claimed'
<1> USE DEF row, stream, rts, calls, ops, Goto, Failed, Abandon
<1>1. CASE ReadTask(c) BY <1>1, QuietCall DEF ReadTask, Delivered
<1>2. CASE RefuseQuota(c) BY <1>2, QuietCall DEF RefuseQuota, Delivered
<1>3. CASE AcquireLock(c)
  <2>1. CASE lock = None
    <3>1. /\ \A d \in Prompts : ~Sending(d)
          /\ \A r \in Runtimes : turn[r] = None
          /\ \A r \in Runtimes : \A i \in 1..Len(chan[r]) : ~Unreleased(r, i)
      <4>1. None \notin Prompts BY TurnAssumption DEF Calls
      <4>2. \A d \in Prompts : ~Sending(d) BY <2>1, <4>1 DEF Claimed
      <4>3. \A r \in Runtimes : turn[r] = None BY <2>1 DEF Claimed
      <4>4. \A r \in Runtimes : \A i \in 1..Len(chan[r]) : ~Unreleased(r, i)
        BY <2>1, <4>1, ChanEvents DEF Claimed
      <4>5. QED BY <4>2, <4>3, <4>4
    <3>2. \A r, i : Unreleased(r, i)' = Unreleased(r, i)
      BY <1>3 DEF AcquireLock, Unreleased
    <3>3. \A d \in Prompts : Sending(d)' => lock' = d
      BY <1>3, <2>1, <3>1 DEF AcquireLock, Sending, TypeOK, Calls
    <3>4. turn' = turn /\ chan' = chan BY <1>3 DEF AcquireLock
    <3>5. QED BY <3>1, <3>2, <3>3, <3>4 DEF Claimed
  <2>2. CASE lock # None BY <1>3, <2>2, QuietCall DEF AcquireLock, Delivered
  <2>3. QED BY <2>1, <2>2
<1>4. CASE SteerUnlocked(c)
  BY <1>4, QuietCall, TurnAssumption DEF SteerUnlocked, Delivered
<1>5. c \in Prompts /\ pc[c] \in {"ensure", "try", "hosted", "ensured", "unwind"} => lock = c
  BY DEF Claimed, Sending
<1>6. CASE PickRuntime(c) BY <1>5, <1>6, QuietCall DEF PickRuntime, Delivered
<1>7. CASE HostSession(c) BY <1>5, <1>7, QuietCall DEF HostSession, Delivered
<1>71. CASE RecordRuntime(c) BY <1>5, <1>71, QuietCall DEF RecordRuntime, Delivered
<1>72. CASE HostReplyLost(c) BY <1>72 DEF HostReplyLost, Unforced, LockBreakers
<1>8. CASE TryNext(c)
  <2>1. pc' = [pc EXCEPT ![c] = pc[c]] BY <1>8 DEF TryNext, TypeOK
  <2>2. QED BY <1>5, <1>8, <2>1, QuietCall DEF TryNext, Delivered
<1>9. CASE NoHost(c) BY <1>5, <1>9, QuietCall DEF NoHost, Delivered
<1>10. CASE PromptAccepted(c)
  <2> DEFINE e == [type |-> "agent_start", turn |-> c]
  <2>1. c \in Prompts /\ Sending(c) /\ callRt[c] \in Runtimes
    BY <1>10 DEF PromptAccepted, Sending, AcceptsPrompt, TypeOK
  <2>2. e \in Event /\ e.turn = c /\ ~IsTerminal(e) BY <2>1 DEF Event, IsTerminal
  <2>3. /\ UNCHANGED <<lock, step>> /\ pc' = [pc EXCEPT ![c] = "accepted"]
        /\ chan' = [chan EXCEPT ![callRt[c]] = Append(@, e)]
        /\ turn' = [turn EXCEPT ![callRt[c]] = c]
    BY <1>10 DEF PromptAccepted, StartTurn
  <2> HIDE DEF e
  <2>4. QED BY <2>1, <2>2, <2>3, DeliverKeeps
<1>11. CASE PromptFailsFast(c)
  <2> DEFINE e == [type |-> "error", turn |-> c]
  <2>1. c \in Prompts /\ Sending(c) /\ callRt[c] \in Runtimes
    BY <1>11 DEF PromptFailsFast, Sending, AcceptsPrompt, TypeOK
  <2>2. e \in Event /\ e.turn = c BY <2>1 DEF Event
  <2>3. /\ UNCHANGED <<lock, step>> /\ pc' = [pc EXCEPT ![c] = "accepted"]
        /\ chan' = [chan EXCEPT ![callRt[c]] = Append(@, e)]
        /\ turn' = turn
    BY <1>11 DEF PromptFailsFast
  <2> HIDE DEF e
  <2>4. QED BY <2>1, <2>2, <2>3, DeliverKeeps
<1>12. CASE PromptReplyLost(c) BY <1>12 DEF PromptReplyLost, Unforced, LockBreakers
<1>13. CASE PromptRejected(c) BY <1>5, <1>13, QuietCall DEF PromptRejected, Delivered
<1>14. CASE SteerSession(c) \/ PromptQueued(c)
  BY <1>14, QuietCall, TurnAssumption DEF SteerSession, PromptQueued, rts, Delivered
<1>15. CASE Unwind(c)
  <2>1. /\ \A r \in Runtimes : turn[r] = None
        /\ \A r \in Runtimes : \A i \in 1..Len(chan[r]) : ~Unreleased(r, i)
        /\ lock = c
    BY <1>15, SenderIsAlone DEF Unwind, Sending
  <2>2. \A r, i : Unreleased(r, i)' = Unreleased(r, i)
    BY <1>15 DEF Unwind, Unreleased
  <2>3. \A d \in Prompts : ~Sending(d)'
    <3>1. \A d \in Prompts \ {c} : ~Sending(d) BY <2>1 DEF Claimed
    <3>2. pc' = [pc EXCEPT ![c] = "refused"] \/ pc' = [pc EXCEPT ![c] = "done"]
      BY <1>15 DEF Unwind
    <3>3. QED BY <3>1, <3>2 DEF Sending, TypeOK, Calls
  <2>4. turn' = turn /\ chan' = chan BY <1>15 DEF Unwind
  <2>5. QED BY <2>1, <2>2, <2>3, <2>4 DEF Claimed
<1>16. CASE MarkRunning(c) BY <1>16, QuietCall DEF MarkRunning, Delivered
<1>17. CASE SynthRunning(c) BY <1>17, QuietCall DEF SynthRunning, Delivered
<1>18. CASE FirstPromptFailed(c) BY <1>18, QuietCall DEF FirstPromptFailed, Delivered
<1>19. QED
  BY <1>1, <1>2, <1>3, <1>4, <1>6, <1>7, <1>8, <1>9, <1>10, <1>11, <1>12, <1>13,
     <1>14, <1>15, <1>16, <1>17, <1>18, <1>71, <1>72 DEF CallStep

\* A step that touches neither the lock, a call nor what a runtime streams.
LEMMA NothingMoves ==
  ASSUME Claimed, UNCHANGED <<lock, turn, chan, step, pc>>
  PROVE  Claimed'
<1>1. /\ \A s, i : Unreleased(s, i)' = Unreleased(s, i)
      /\ \A c : Sending(c)' = Sending(c) /\ Delivered(c)' = Delivered(c)
  BY DEF Unreleased, Sending, Delivered
<1>2. QED BY <1>1 DEF Claimed

\* The head of a runtime's events is done with, or lost.
LEMMA PopKeeps ==
  ASSUME TypeOK, Claimed, NEW r \in Runtimes, chan[r] # <<>>,
         step' = [step EXCEPT ![r] = "recv"],
         chan' = [chan EXCEPT ![r] = Tail(@)], UNCHANGED <<lock, turn, pc>>
  PROVE  Claimed'
<1> DEFINE at(s, i) == IF s = r THEN i + 1 ELSE i
<1>1. \A s \in Runtimes : \A i \in 1..Len(chan'[s]) : Unreleased(s, i)' =>
        /\ at(s, i) \in 1..Len(chan[s]) /\ Unreleased(s, at(s, i))
        /\ chan'[s][i] = chan[s][at(s, i)]
  <2>1. \A s \in Runtimes : \A i \in 1..Len(chan'[s]) : Unreleased(s, i)' =>
          \E j \in 1..Len(chan[s]) :
            /\ Unreleased(s, j) /\ chan'[s][i] = chan[s][j]
            /\ j = IF s = r THEN i + 1 ELSE i
    BY UnreleasedAfterPop, Zenon
  <2>2. QED BY <2>1, Zenon
<1>2. \A s, t \in Runtimes : \A i, j \in Nat :
        s = t /\ at(s, i) = at(t, j) => i = j
  OBVIOUS
<1> HIDE DEF at
<1>3. \A c : Sending(c)' = Sending(c) /\ Delivered(c)' = Delivered(c)
  BY DEF Sending, Delivered
<1>4. \A c \in Prompts : Sending(c)' => lock' = c BY <1>3 DEF Claimed
<1>5. \A s \in Runtimes : turn'[s] # None => 
        lock' = turn'[s] /\ pc'[turn'[s]] \in {"accepted", "marked", "done"}
  BY DEF Claimed, Delivered
<1>6. \A s \in Runtimes : \A i \in 1..Len(chan'[s]) : Unreleased(s, i)' =>
        /\ lock' = chan'[s][i].turn
        /\ pc'[chan'[s][i].turn] \in {"accepted", "marked", "done"}
  BY <1>1 DEF Claimed, Delivered
<1>7. \A s, t \in Runtimes : turn'[s] # None =>
        /\ turn'[t] # None => s = t
        /\ \A i \in 1..Len(chan'[t]) : ~Unreleased(t, i)'
  BY <1>1 DEF Claimed
<1>8. \A s, t \in Runtimes : \A i \in 1..Len(chan'[s]), j \in 1..Len(chan'[t]) :
        Unreleased(s, i)' /\ Unreleased(t, j)' => s = t /\ i = j
  <2> SUFFICES ASSUME NEW s \in Runtimes, NEW t \in Runtimes,
                      NEW i \in 1..Len(chan'[s]), NEW j \in 1..Len(chan'[t]),
                      Unreleased(s, i)', Unreleased(t, j)'
               PROVE  s = t /\ i = j
    OBVIOUS
  <2>1. s = t /\ at(s, i) = at(t, j) BY <1>1 DEF Claimed
  <2>2. QED BY <1>2, <2>1
<1>9. QED BY <1>4, <1>5, <1>6, <1>7, <1>8 DEF Claimed, Delivered

\* onEvent: the release it does for a terminal event is that event's own.
LEMMA EventKeeps ==
  ASSUME TypeOK, HandlerBusy, Claimed, NEW r \in Runtimes, EventStep(r)
  PROVE  Claimed'
<1> USE DEF row, stream, rts, calls, ops, StepTo, NextEvent
<1>1. CASE IngestEvent(r)
  <2>1. UNCHANGED <<lock, turn, chan, pc>> BY <1>1 DEF IngestEvent
  <2>2. \A s \in Runtimes : \A i : Unreleased(s, i)' = Unreleased(s, i)
    BY <1>1, <2>1 DEF IngestEvent, Unreleased, TypeOK
  <2>3. \A c : Sending(c)' = Sending(c) /\ Delivered(c)' = Delivered(c)
    BY <2>1 DEF Sending, Delivered
  <2>4. QED BY <2>1, <2>2, <2>3 DEF Claimed
<1>2. CASE chan' = [chan EXCEPT ![r] = Tail(@)]
           /\ step' = [step EXCEPT ![r] = "recv"]
           /\ chan[r] # <<>> /\ UNCHANGED <<lock, turn, pc>>
  BY <1>2, PopKeeps
<1>3. CASE ApplyStatus(r)
  <2>1. chan[r] # <<>> BY <1>3 DEF ApplyStatus, HandlerBusy
  <2>2. CASE ~IsTerminal(Head(chan[r])) BY <1>2, <1>3, <2>1, <2>2 DEF ApplyStatus
  <2>3. CASE IsTerminal(Head(chan[r]))
    <3>1. UNCHANGED <<lock, turn, chan, pc>> BY <1>3, <2>3 DEF ApplyStatus
    <3>2. \A s \in Runtimes : \A i : Unreleased(s, i)' = Unreleased(s, i)
      BY <1>3, <2>3, <3>1 DEF ApplyStatus, Unreleased, TypeOK
    <3>3. \A c : Sending(c)' = Sending(c) /\ Delivered(c)' = Delivered(c)
      BY <3>1 DEF Sending, Delivered
    <3>4. QED BY <3>1, <3>2, <3>3 DEF Claimed
  <2>4. QED BY <2>2, <2>3
<1>4. CASE ApplyRelease(r)
  <2>1. chan[r] # <<>> /\ IsTerminal(Head(chan[r])) /\ step[r] = "release"
    BY <1>4 DEF ApplyRelease, HandlerBusy
  <2>2. 1 \in 1..Len(chan[r]) /\ Head(chan[r]) = chan[r][1]
    BY <2>1, HeadTail DEF TypeOK
  <2>3. Unreleased(r, 1) BY <2>1, <2>2 DEF Unreleased
  <2>4. lock \in Prompts /\ Delivered(lock)
    BY <2>2, <2>3, ChanEvents DEF Claimed
  <2>5. \A c \in Prompts : ~Sending(c)
    BY <2>4 DEF Claimed, Sending, Delivered
  <2>6. \A s \in Runtimes : turn[s] = None
    BY <2>2, <2>3 DEF Claimed
  <2>7. \A s \in Runtimes : \A i \in 1..Len(chan[s]) :
          Unreleased(s, i) => s = r /\ i = 1
    BY <2>2, <2>3 DEF Claimed
  <2>8. UNCHANGED <<turn, chan, pc>> /\ step' = [step EXCEPT ![r] = "synth"]
    BY <1>4 DEF ApplyRelease
  <2>9. \A s \in Runtimes : \A i \in 1..Len(chan'[s]) : ~Unreleased(s, i)'
    BY <2>7, <2>8 DEF Unreleased, TypeOK
  <2>10. \A c \in Prompts : ~Sending(c)' BY <2>5, <2>8 DEF Sending
  <2>11. QED BY <2>6, <2>8, <2>9, <2>10 DEF Claimed
<1>5. CASE ApplySynthIdle(r) BY <1>2, <1>5 DEF ApplySynthIdle, HandlerBusy
<1>6. QED BY <1>1, <1>3, <1>4, <1>5 DEF EventStep

\* A turn that ends leaves its terminal event in its place.
LEMMA RuntimeKeeps ==
  ASSUME TypeOK, Claimed, NEW r \in Runtimes, RuntimeStep(r)
  PROVE  Claimed'
<1> USE DEF row, stream, calls, ops
<1>1. CASE TurnSettles(r)
  <2> DEFINE e == [type |-> "agent_settled", turn |-> turn[r]]
  <2>1. turn[r] \in Prompts /\ turn[r] # None BY <1>1 DEF TurnSettles, TypeOK
  <2>2. /\ turn' = [turn EXCEPT ![r] = None]
        /\ chan' = [chan EXCEPT ![r] = Append(@, e)]
        /\ UNCHANGED <<lock, pc, step>>
    BY <1>1 DEF TurnSettles, EndTurn
  <2>3. e \in Event /\ e.turn = turn[r] BY <2>1 DEF Event
  <2> HIDE DEF e
  <2>4. /\ lock = turn[r] /\ Delivered(turn[r])
        /\ \A s \in Runtimes : turn[s] # None => s = r
        /\ \A s \in Runtimes : \A i \in 1..Len(chan[s]) : ~Unreleased(s, i)
    BY <2>1 DEF Claimed
  <2>5. \A s \in Runtimes : turn'[s] = None BY <2>2, <2>4 DEF TypeOK
  <2>6. \A s \in Runtimes : \A i \in 1..Len(chan'[s]) : Unreleased(s, i)' =>
          s = r /\ i = Len(chan[r]) + 1 /\ chan'[s][i] = e
    <3>1. step' = step BY <2>2
    <3>2. \A s \in Runtimes : \A i \in 1..Len(chan'[s]) : Unreleased(s, i)' =>
             \/ /\ i \in 1..Len(chan[s]) /\ Unreleased(s, i)
                /\ chan'[s][i] = chan[s][i]
             \/ /\ s = r /\ i = Len(chan[r]) + 1
                /\ chan'[s][i] = e /\ IsTerminal(e)
      BY <2>2, <2>3, <3>1, UnreleasedAfterPush, Zenon
    <3>3. QED BY <2>4, <3>2
  <2>7. \A c : Sending(c)' = Sending(c) /\ Delivered(c)' = Delivered(c)
    BY <2>2 DEF Sending, Delivered
  <2>8. \A c \in Prompts : Sending(c)' => lock' = c
    BY <2>2, <2>7 DEF Claimed
  <2>9. QED BY <2>2, <2>3, <2>4, <2>5, <2>6, <2>7, <2>8 DEF Claimed
<1>2. CASE Crash(r)
  <2>1. UNCHANGED <<lock, chan, step, pc>> BY <1>2 DEF Crash
  <2>2. \A s \in Runtimes : turn'[s] # None => turn'[s] = turn[s]
    BY <1>2 DEF Crash, TypeOK
  <2>3. /\ \A s, i : Unreleased(s, i)' = Unreleased(s, i)
        /\ \A c : Sending(c)' = Sending(c) /\ Delivered(c)' = Delivered(c)
    BY <2>1 DEF Unreleased, Sending, Delivered
  <2>4. QED BY <2>1, <2>2, <2>3 DEF Claimed
<1>3. CASE LoseEvent(r)
  <2>1. /\ step' = [step EXCEPT ![r] = "recv"] /\ chan[r] # <<>>
        /\ chan' = [chan EXCEPT ![r] = Tail(@)] /\ UNCHANGED <<lock, turn, pc>>
    BY <1>3 DEF LoseEvent, TypeOK
  <2>2. QED BY <2>1, PopKeeps
<1>4. CASE Evict(r) \/ Lapse(r) \/ Beat(r) \/ Restart(r)
  <2>1. UNCHANGED <<lock, turn, chan, step, pc>>
    BY <1>4 DEF Evict, Lapse, Beat, Restart
  <2>2. QED BY <2>1, NothingMoves
<1>5. QED BY <1>1, <1>2, <1>3, <1>4 DEF RuntimeStep

\* A cancelled call gives its claim up undelivered, or keeps it for a turn that
\* started unheard; a broken stream leaves the lock to nobody.
LEMMA CancelKeeps ==
  ASSUME TypeOK, HandlerBusy, Claimed, NothingForced, CancelStep
  PROVE  Claimed'
<1>1. ASSUME NEW c \in Calls, ContextDone(c) PROVE Claimed'
  <2>1. CASE Drops(c)
    <3>1. PICK p \in {"marked", "done"} : pc' = [pc EXCEPT ![c] = p]
      BY <2>1 DEF Drops
    <3>2. UNCHANGED <<lock, turn, chan, step>> BY <2>1 DEF Drops
    <3>3. QED BY <3>1, <3>2, QuietCall
  <2>2. CASE StartsUnheard(c)
    <3> DEFINE e == [type |-> "agent_start", turn |-> c]
    <3>1. c \in Prompts /\ Sending(c) /\ callRt[c] \in Runtimes
      BY <2>2 DEF StartsUnheard, Sending, AcceptsPrompt, TypeOK
    <3>2. e \in Event /\ e.turn = c /\ ~IsTerminal(e) BY <3>1 DEF Event, IsTerminal
    <3>3. /\ UNCHANGED <<lock, step>> /\ pc' = [pc EXCEPT ![c] = "done"]
          /\ chan' = [chan EXCEPT ![callRt[c]] = Append(@, e)]
          /\ turn' = [turn EXCEPT ![callRt[c]] = c]
      BY <2>2 DEF StartsUnheard, StartTurn
    <3>4. PICK p \in {"accepted", "done"} : pc' = [pc EXCEPT ![c] = p] BY <3>3
    <3> HIDE DEF e
    <3>5. QED BY <3>1, <3>2, <3>3, <3>4, DeliverKeeps
  <2>3. QED BY <1>1, <2>1, <2>2, ContextKind
<1>2. ASSUME NEW r \in Runtimes, StreamBreaks(r) PROVE Claimed'
  <2>1. UNCHANGED <<lock, turn, pc>> /\ chan[r] # <<>> BY <1>2, BreakKind
  <2>2. CASE chan' = [chan EXCEPT ![r] = Tail(@)] /\ step' = [step EXCEPT ![r] = "recv"]
    BY <2>1, <2>2, PopKeeps
  <2>3. CASE chan' = chan /\ step' = [step EXCEPT ![r] = "synth"]
    <3>1. \A s \in Runtimes : \A i : Unreleased(s, i)' => Unreleased(s, i)
      <4>1. step[r] # "synth" BY <1>2 DEF StreamBreaks
      <4>2. \A s \in Runtimes : step'[s] # "synth" => step[s] # "synth"
        BY <2>3, <4>1 DEF TypeOK
      <4>3. QED BY <2>3, <4>2 DEF Unreleased
    <3>2. \A c : Sending(c)' = Sending(c) /\ Delivered(c)' = Delivered(c)
      BY <2>1 DEF Sending, Delivered
    <3>3. QED BY <2>1, <2>3, <3>1, <3>2 DEF Claimed
  <2>4. QED BY <1>2, <2>2, <2>3, BreakKind
<1>3. ~(\E o \in Ops : OpCancelled(o)) BY DEF NothingForced, OpCancelled
<1>4. QED BY <1>1, <1>2, <1>3 DEF CancelStep

\* Every step keeps the claim.
LEMMA StepCovers ==
  ASSUME IInv, [Next]_vars, Unforced
  PROVE  Claimed'
<1> USE DEF IInv
<1>1. ASSUME NEW c \in Calls, CallStep(c) PROVE Claimed'
  BY <1>1, CallKeeps
<1>2. ASSUME NEW r \in Runtimes, EventStep(r) \/ RuntimeStep(r) PROVE Claimed'
  BY <1>2, EventKeeps, RuntimeKeeps
<1>3. ~LockExpires BY DEF LockExpires, Unforced, LockBreakers
<1>4. CASE Archive \/ Silence \/ UNCHANGED vars
  BY <1>4, NothingMoves DEF Archive, Silence, vars, rts, calls
<1>5. QED BY <1>1, <1>2, <1>3, <1>4, StepNothingForced, CancelKeeps DEF Next

\* At the start nobody has a claim.
LEMMA InitCovers == Init => NothingForced /\ Claimed
<1> SUFFICES ASSUME Init PROVE NothingForced /\ Claimed
  OBVIOUS
<1>1. \A r \in Runtimes : turn[r] = None /\ Len(chan[r]) = 0
  BY DEF Init
<1>2. \A r \in Runtimes : \A i : ~Unreleased(r, i) BY <1>1 DEF Unreleased
<1>3. \A c \in Prompts : ~Sending(c) BY DEF Init, Sending, Calls
<1>4. QED BY <1>1, <1>2, <1>3 DEF Init, NothingForced, Claimed

\* The interference a behaviour meets is chosen once.
LEMMA EnvFrozen ==
  ASSUME [Next]_vars
  PROVE  env' = env
<1>1. ASSUME NEW c \in Calls, CallStep(c) PROVE env' = env
  <2>1. CASE ReadTask(c) \/ RefuseQuota(c) \/ AcquireLock(c) \/ SteerUnlocked(c)
             \/ PickRuntime(c) \/ HostSession(c) \/ RecordRuntime(c)
           \/ HostReplyLost(c) \/ TryNext(c) \/ NoHost(c)
    BY <2>1 DEF ReadTask, RefuseQuota, AcquireLock, SteerUnlocked, PickRuntime,
       HostSession, RecordRuntime, HostReplyLost, TryNext, NoHost
  <2>2. CASE PromptAccepted(c) \/ PromptFailsFast(c) \/ PromptReplyLost(c)
             \/ PromptQueued(c) \/ PromptRejected(c) \/ SteerSession(c) \/ Unwind(c)
             \/ MarkRunning(c) \/ SynthRunning(c) \/ FirstPromptFailed(c)
    BY <2>2 DEF PromptAccepted, PromptFailsFast, PromptReplyLost, PromptQueued,
       PromptRejected, SteerSession, Unwind, MarkRunning, SynthRunning, FirstPromptFailed
  <2>3. QED BY <1>1, <2>1, <2>2 DEF CallStep
<1>2. ASSUME NEW r \in Runtimes, EventStep(r) \/ RuntimeStep(r) PROVE env' = env
  BY <1>2 DEF EventStep, IngestEvent, ApplyStatus, ApplyRelease, ApplySynthIdle,
     RuntimeStep, TurnSettles, Evict, Lapse, Beat, Crash, Restart, LoseEvent
<1>3. ASSUME NEW a, AbortStep(a) PROVE env' = env
  BY <1>3 DEF AbortStep, AbortRead, AbortCall, ForceRelease, AbortSynth
<1>4. CASE WatchdogStep
  BY <1>4 DEF WatchdogStep, WatchdogScan, AbortCall, ForceRelease, WatchdogFail,
     WatchdogSynth
<1>5. CASE DeleteStep
  BY <1>5 DEF DeleteStep, DeleteRead, DeleteClose, DeleteRow, DeleteKeys
<1>6. CASE Archive \/ Silence \/ LockExpires \/ UNCHANGED vars
  BY <1>6 DEF Archive, Silence, LockExpires, vars
<1>7. CASE CancelStep
  BY <1>7 DEF CancelStep, ContextDone, StreamBreaks, OpCancelled
<1>8. QED BY <1>1, <1>2, <1>3, <1>4, <1>5, <1>6, <1>7 DEF Next

\* The invariant behind LockCovers is inductive.
LEMMA StepIInv ==
  ASSUME IInv, [Next]_vars
  PROVE  IInv'
<1>1. TypeOK' /\ HandlerBusy' BY StepTypes DEF IInv
<1>2. Unforced' = Unforced BY EnvFrozen DEF Unforced
<1>3. Unforced => NothingForced' /\ Claimed'
  BY StepCovers, StepNothingForced DEF IInv
<1>4. QED BY <1>1, <1>2, <1>3 DEF IInv

\* While neither an abort, the watchdog, a delete, the lock's TTL nor a lost
\* reply deletes the lock, it covers every turn from SendPrompt to onEvent.
THEOREM LockCovers == Spec => []LockCoversTurn
<1>1. Init /\ TypeOK /\ HandlerBusy => IInv BY InitCovers DEF IInv
<1>2. IInv /\ [Next]_vars => IInv' BY StepIInv
<1>3. IInv => LockCoversTurn BY DEF IInv, LockCoversTurn
<1>4. QED BY <1>1, <1>2, <1>3, TypeCorrect, PTL DEF Spec

\* Under the same condition no two runtimes ever stream the task's session at
\* once, however many runtimes fail over, crash and come back.
THEOREM TurnsAreSerial == Spec => []SerialTurns
<1>1. LockCoversTurn => SerialTurns
  BY DEF LockCoversTurn, SerialTurns, OneStream, Claimed
<1>2. QED BY <1>1, LockCovers, PTL

(***************************************************************************)
(* Archiving.  Every write of tasks.status goes through SetStatus, except  *)
(* Archive and DeleteRow.                                                  *)
(***************************************************************************)
\* Nothing brings an archived task back, under any interference: neither a
\* late event, nor the watchdog, nor a prompt that was already on its way.
THEOREM ArchivingIsFinal == Spec => ArchivedIsFinal
<1> DEFINE Kept == status = "archived" => status' \in {"archived", "deleted"}
<1> USE DEF row, SetStatus
<1>1. ASSUME NEW c \in Calls, CallStep(c) PROVE Kept
  <2>1. CASE MarkRunning(c) \/ FirstPromptFailed(c)
    BY <2>1 DEF MarkRunning, FirstPromptFailed
  <2>2. CASE ReadTask(c) \/ RefuseQuota(c) \/ AcquireLock(c) \/ SteerUnlocked(c)
             \/ PickRuntime(c) \/ HostSession(c) \/ RecordRuntime(c)
           \/ HostReplyLost(c) \/ TryNext(c) \/ NoHost(c)
    BY <2>2 DEF ReadTask, RefuseQuota, AcquireLock, SteerUnlocked, PickRuntime,
       HostSession, RecordRuntime, HostReplyLost, TryNext, NoHost
  <2>3. CASE PromptAccepted(c) \/ PromptFailsFast(c) \/ PromptReplyLost(c)
             \/ PromptQueued(c) \/ PromptRejected(c) \/ SteerSession(c) \/ Unwind(c) \/ SynthRunning(c)
    BY <2>3 DEF PromptAccepted, PromptFailsFast, PromptReplyLost, PromptQueued, PromptRejected,
       SteerSession, Unwind, SynthRunning
  <2>4. QED BY <1>1, <2>1, <2>2, <2>3 DEF CallStep
<1>2. ASSUME NEW r \in Runtimes, EventStep(r) \/ RuntimeStep(r) PROVE Kept
  <2>1. CASE EventStep(r)
    BY <2>1 DEF EventStep, IngestEvent, ApplyStatus, ApplyRelease, ApplySynthIdle
  <2>2. CASE RuntimeStep(r)
    BY <2>2 DEF RuntimeStep, TurnSettles, Evict, Lapse, Beat, Crash, Restart, LoseEvent
  <2>3. QED BY <1>2, <2>1, <2>2
<1>3. ASSUME NEW a, AbortStep(a) PROVE Kept
  BY <1>3 DEF AbortStep, AbortRead, AbortCall, ForceRelease, AbortSynth
<1>4. ASSUME WatchdogStep PROVE Kept
  BY <1>4 DEF WatchdogStep, WatchdogScan, AbortCall, ForceRelease, WatchdogFail,
     WatchdogSynth
<1>5. ASSUME DeleteStep PROVE Kept
  BY <1>5 DEF DeleteStep, DeleteRead, DeleteClose, DeleteRow, DeleteKeys
<1>6. ASSUME Archive \/ Silence \/ LockExpires \/ UNCHANGED vars PROVE Kept
  BY <1>6 DEF Archive, Silence, LockExpires, vars
<1>7. ASSUME CancelStep PROVE Kept
  BY <1>7 DEF CancelStep, ContextDone, StreamBreaks, OpCancelled
<1>8. [Next]_vars => [Kept]_vars
  BY <1>1, <1>2, <1>3, <1>4, <1>5, <1>6, <1>7 DEF Next
<1>9. QED BY <1>8, PTL DEF Spec, ArchivedIsFinal

(***************************************************************************)
(* TaskTurn implements OneTurn, where nothing deletes the lock early.      *)
(* A step of the protocol leaves the turns alone, and then at most one     *)
(* prompt is given up; or it begins the only turn; or it ends it.          *)
(***************************************************************************)
Spent == {c \in Prompts : Delivered(c)}

\* No turn begins or ends, and at most one call moves, never back.
Quiet == /\ turn' = turn
         /\ \/ pc' = pc
            \/ \E c \in Calls, p \in PcStates :
                 /\ pc' = [pc EXCEPT ![c] = p]
                 /\ Delivered(c) => p \in {"accepted", "marked", "done"}

\* A prompt that is being sent gets the only turn.
Starts == \E c \in Prompts, r \in Runtimes, p \in {"accepted", "done"} :
            /\ ~Delivered(c)
            /\ \A s \in Runtimes : turn[s] = None
            /\ turn' = [turn EXCEPT ![r] = c]
            /\ pc' = [pc EXCEPT ![c] = p]

\* A turn is over.
Ends == \E r \in Runtimes : /\ turn[r] # None
                            /\ turn' = [turn EXCEPT ![r] = None]
                            /\ pc' = pc

\* SendPrompt and SteerTask only ever start a turn with the claim.
LEMMA CallEffect ==
  ASSUME TypeOK, Claimed, NEW c \in Calls, CallStep(c), Unforced
  PROVE  Quiet \/ Starts
<1> USE DEF rts, Goto, Failed, Abandon, PcStates
<1>1. CASE ReadTask(c) BY <1>1 DEF ReadTask, Quiet, Delivered
<1>2. CASE RefuseQuota(c) \/ AcquireLock(c) \/ SteerUnlocked(c)
  BY <1>2 DEF RefuseQuota, AcquireLock, SteerUnlocked, Quiet, Delivered
<1>3. CASE PickRuntime(c) BY <1>3 DEF PickRuntime, Quiet, Delivered
<1>4. CASE HostSession(c) \/ RecordRuntime(c) \/ TryNext(c) \/ NoHost(c)
  BY <1>4 DEF HostSession, RecordRuntime, TryNext, NoHost, Quiet, Delivered
<1>5. CASE HostReplyLost(c) \/ PromptReplyLost(c)
  BY <1>5 DEF HostReplyLost, PromptReplyLost, Unforced, LockBreakers
<1>6. CASE PromptAccepted(c)
  <2>1. c \in Prompts /\ Sending(c) /\ ~Delivered(c) /\ callRt[c] \in Runtimes
    BY <1>6 DEF PromptAccepted, Sending, Delivered, AcceptsPrompt, TypeOK
  <2>2. \A s \in Runtimes : turn[s] = None BY <2>1, SenderIsAlone
  <2>3. QED BY <1>6, <2>1, <2>2 DEF PromptAccepted, StartTurn, Starts
<1>7. CASE PromptFailsFast(c) \/ PromptQueued(c) \/ PromptRejected(c)
  BY <1>7 DEF PromptFailsFast, PromptQueued, PromptRejected, Quiet, Delivered
<1>8. CASE SteerSession(c) \/ Unwind(c)
  BY <1>8 DEF SteerSession, Unwind, Quiet, Delivered
<1>9. CASE MarkRunning(c) \/ SynthRunning(c) \/ FirstPromptFailed(c)
  BY <1>9 DEF MarkRunning, SynthRunning, FirstPromptFailed, Quiet, Delivered
<1>10. QED
  BY <1>1, <1>2, <1>3, <1>4, <1>5, <1>6, <1>7, <1>8, <1>9 DEF CallStep

\* What else happens leaves the calls alone, and at most ends a turn.
LEMMA StepEffect ==
  ASSUME IInv, [Next]_vars, Unforced
  PROVE  Quiet \/ Starts \/ Ends
<1> USE DEF IInv
<1>1. ASSUME NEW c \in Calls, CallStep(c) PROVE Quiet \/ Starts
  BY <1>1, CallEffect
<1>2. ASSUME NEW r \in Runtimes, EventStep(r) PROVE Quiet
  BY <1>2 DEF EventStep, IngestEvent, ApplyStatus, ApplyRelease, ApplySynthIdle,
     Quiet, rts, calls
<1>3. ASSUME NEW r \in Runtimes, RuntimeStep(r) PROVE Quiet \/ Ends
  <2>1. CASE TurnSettles(r) BY <2>1 DEF TurnSettles, EndTurn, Ends, calls
  <2>2. CASE Crash(r)
    <3>1. turn \in [Runtimes -> Prompts \cup {None}] BY DEF TypeOK
    <3>2. pc' = pc /\ turn' = [turn EXCEPT ![r] = None] BY <2>2 DEF Crash, calls
    <3>3. CASE turn[r] = None
      <4>1. turn' = turn BY <3>1, <3>2, <3>3
      <4>2. QED BY <3>2, <4>1 DEF Quiet
    <3>4. CASE turn[r] # None BY <3>2, <3>4 DEF Ends
    <3>5. QED BY <3>3, <3>4
  <2>3. CASE Evict(r) \/ Lapse(r) \/ Beat(r) \/ Restart(r) \/ LoseEvent(r)
    BY <2>3 DEF Evict, Lapse, Beat, Restart, LoseEvent, Quiet, calls
  <2>4. QED BY <1>3, <2>1, <2>2, <2>3 DEF RuntimeStep
<1>4. ~LockExpires BY DEF LockExpires, Unforced, LockBreakers
<1>5. CASE Archive \/ Silence \/ UNCHANGED vars
  BY <1>5 DEF Archive, Silence, vars, rts, calls, Quiet
<1>6. CASE CancelStep
  <2>1. ASSUME NEW c \in Calls, ContextDone(c) PROVE Quiet \/ Starts
    <3>1. CASE Drops(c)
      BY <3>1 DEF Drops, Quiet, PcStates, Delivered
    <3>2. CASE StartsUnheard(c)
      <4>1. c \in Prompts /\ Sending(c) /\ ~Delivered(c) /\ callRt[c] \in Runtimes
        BY <3>2 DEF StartsUnheard, Sending, Delivered, AcceptsPrompt, TypeOK
      <4>2. \A s \in Runtimes : turn[s] = None BY <4>1, SenderIsAlone
      <4>3. QED BY <3>2, <4>1, <4>2 DEF StartsUnheard, StartTurn, Starts
    <3>3. QED BY <2>1, <3>1, <3>2, ContextKind
  <2>2. ASSUME NEW r \in Runtimes, StreamBreaks(r) PROVE Quiet
    BY <2>2, BreakKind DEF Quiet
  <2>3. ~(\E o \in Ops : OpCancelled(o)) BY DEF NothingForced, OpCancelled
  <2>4. QED BY <1>6, <2>1, <2>2, <2>3 DEF CancelStep
<1>7. QED BY <1>1, <1>2, <1>3, <1>4, <1>5, <1>6, StepNothingForced DEF Next

\* Where turns are serial, Current is the turn of any runtime that has one.
LEMMA CurrentIsTheTurn ==
  ASSUME NEW r \in Runtimes, turn[r] # None,
         \A s \in Runtimes : turn[s] # None => s = r
  PROVE  Current = turn[r]
<1>1. (CHOOSE s \in Runtimes : turn[s] # None) = r OBVIOUS
<1>2. QED BY <1>1 DEF Current

LEMMA NoTurnNoCurrent ==
  ASSUME \A s \in Runtimes : turn[s] = None
  PROVE  Current = None
BY DEF Current

\* The next state of Current, as Current of the next state.
LEMMA CurrentNext == ASSUME turn' = turn PROVE Current' = Current
BY DEF Current

\* A quiet step stutters, or a prompt is given up.
LEMMA QuietMaps ==
  ASSUME TypeOK, Quiet
  PROVE  /\ Current' = Current
         /\ Spent' = Spent \/ \E p \in Prompts : p \notin Spent /\ Spent' = Spent \cup {p}
<1>1. Current' = Current BY CurrentNext DEF Quiet
<1>2. CASE pc' = pc BY <1>1, <1>2 DEF Spent, Delivered
<1>3. ASSUME NEW c \in Calls, NEW p \in PcStates, pc' = [pc EXCEPT ![c] = p],
             Delivered(c) => p \in {"accepted", "marked", "done"}
      PROVE  Spent' = Spent \/ \E q \in Prompts : q \notin Spent /\ Spent' = Spent \cup {q}
  <2>1. \A d \in Prompts : d # c => Delivered(d)' = Delivered(d)
    BY <1>3 DEF Delivered, TypeOK, Calls
  <2>2. Delivered(c)' = (p \in {"accepted", "marked", "done"})
    BY <1>3 DEF Delivered, TypeOK
  <2>3. CASE c \notin Prompts \/ Delivered(c) \/ p \notin {"accepted", "marked", "done"}
    <3>1. \A d \in Prompts : Delivered(d)' <=> Delivered(d) BY <1>3, <2>1, <2>2, <2>3
    <3>2. QED BY <3>1 DEF Spent
  <2>4. CASE c \in Prompts /\ ~Delivered(c) /\ p \in {"accepted", "marked", "done"}
    <3>1. c \notin Spent /\ Spent' = Spent \cup {c} BY <2>1, <2>2, <2>4 DEF Spent
    <3>2. QED BY <2>4, <3>1
  <2>5. QED BY <2>3, <2>4
<1>4. QED BY <1>1, <1>2, <1>3 DEF Quiet

\* A turn that starts is a Begin.
LEMMA StartMaps ==
  ASSUME TypeOK, Starts
  PROVE  \E p \in Prompts : /\ Current = None /\ p \notin Spent
                            /\ Current' = p /\ Spent' = Spent \cup {p}
<1>1. PICK c \in Prompts, r \in Runtimes, p \in {"accepted", "done"} :
        /\ ~Delivered(c)
        /\ \A s \in Runtimes : turn[s] = None
        /\ turn' = [turn EXCEPT ![r] = c]
        /\ pc' = [pc EXCEPT ![c] = p]
  BY DEF Starts
<1>2. Current = None BY <1>1, NoTurnNoCurrent
<1>3. None \notin Prompts BY TurnAssumption DEF Calls
<1>4. Current' = c
  <2>1. turn'[r] = c /\ \A s \in Runtimes : turn'[s] # None => s = r
    BY <1>1 DEF TypeOK
  <2>2. (CHOOSE s \in Runtimes : turn'[s] # None) = r BY <1>3, <2>1
  <2>3. QED BY <1>3, <2>1, <2>2 DEF Current
<1>5. c \notin Spent /\ Spent' = Spent \cup {c}
  <2>1. \A d \in Prompts : Delivered(d)' <=> Delivered(d) \/ d = c
    BY <1>1 DEF Delivered, TypeOK, Calls
  <2>2. QED BY <1>1, <2>1 DEF Spent
<1>6. QED BY <1>2, <1>4, <1>5

\* A turn that is over is an End.
LEMMA EndMaps ==
  ASSUME TypeOK, Claimed, Ends
  PROVE  Current # None /\ Current' = None /\ Spent' = Spent
<1>1. PICK r \in Runtimes : /\ turn[r] # None
                            /\ turn' = [turn EXCEPT ![r] = None]
                            /\ pc' = pc
  BY DEF Ends
<1>2. \A s \in Runtimes : turn[s] # None => s = r BY <1>1 DEF Claimed
<1>3. Current # None BY <1>1, <1>2, CurrentIsTheTurn
<1>4. \A s \in Runtimes : turn'[s] = None BY <1>1, <1>2 DEF TypeOK
<1>5. Current' = None BY <1>4 DEF Current
<1>6. Spent' = Spent BY <1>1 DEF Spent, Delivered
<1>7. QED BY <1>3, <1>5, <1>6

\* Every step of the protocol is a step of OneTurn, or a stutter.
LEMMA StepImplements ==
  ASSUME IInv, [Next]_vars
  PROVE  [Abstract!Next]_(Abstract!vars)
<1>1. Unforced' = Unforced BY EnvFrozen DEF Unforced
<1>2. CASE ~Unforced BY <1>1, <1>2 DEF Abstract!vars
<1>3. CASE Unforced
  <2>1. TypeOK /\ Claimed BY <1>3 DEF IInv
  <2>2. CASE Quiet
    BY <1>1, <1>3, <2>1, <2>2, QuietMaps
    DEF Abstract!vars, Abstract!Next, Abstract!GiveUp, Spent
  <2>3. CASE Starts
    BY <1>1, <1>3, <2>1, <2>3, StartMaps
    DEF Abstract!vars, Abstract!Next, Abstract!Begin, Spent
  <2>4. CASE Ends
    BY <1>1, <1>3, <2>1, <2>4, EndMaps
    DEF Abstract!vars, Abstract!Next, Abstract!End, Spent
  <2>5. QED BY <1>3, <2>2, <2>3, <2>4, StepEffect
<1>4. QED BY <1>2, <1>3

\* The task service serves a task's prompts one by one: with any number of
\* runtimes that fail over, crash and come back, no prompt runs beside another, or
\* twice, or after its call has failed.
THEOREM ImplementsOneTurn == Spec => ServesOneByOne
<1>1. Init => Abstract!Init
  BY NoTurnNoCurrent DEF Init, Abstract!Init
<1>2. Init /\ TypeOK /\ HandlerBusy => IInv BY InitCovers DEF IInv
<1>3. IInv /\ [Next]_vars => IInv' BY StepIInv
<1>4. IInv /\ [Next]_vars => [Abstract!Next]_(Abstract!vars) BY StepImplements
<1>5. QED
  BY <1>1, <1>2, <1>3, <1>4, TypeCorrect, PTL DEF Spec, ServesOneByOne, Abstract!Spec
=============================================================================
