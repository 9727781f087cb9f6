------------------------- MODULE SessionPool_proofs -------------------------
(***************************************************************************)
(* The pool holds sessions that live, one per task, and the sweep spares   *)
(* the turns: for any number of tasks, calls and modes, and any capacity.  *)
(***************************************************************************)
EXTENDS SessionPool, FiniteSetTheorems, TLAPS

-----------------------------------------------------------------------------
(* The inductive invariant, in parts.                                      *)

\* Calls that have made their session, or will make none.
Spent == {c \in Calls : call[c].pc \in {"over", "modeling"}}

\* A session is made by a call of its own, so their number stays within Sessions.
Counted == made <= Cardinality(Spent)

\* Sessions up to made are of a task; the others have done nothing yet.
Owned ==
  /\ \A s \in 1..made : owner[s] \in Tasks
  /\ \A s \in Sessions : s > made => turn[s] = "none"

Alive == \A t \in Tasks : pool[t] # None =>
           pool[t] \in subscribed \ disposed /\ owner[pool[t]] = t

Creating(c) == call[c].pc \in {"creating", "switching"}
Modeling(c) == call[c].pc = "modeling"

\* A call at work keeps its task awake, and setModel is on a session of its task.
AtWork == \A c \in Calls :
  /\ InFlight(c) => call[c].task \in Tasks \ idle
  /\ Creating(c) => call[c].mode \in Modes
  /\ Modeling(c) => call[c].on \in 1..made /\ owner[call[c].on] = call[c].task

\* No session that begins a turn is old enough to be swept.
Rested == \A t \in idle : turn[pool[t]] # "starting"

\* Where the calls of a task come one after the other: a call at work is alone,
\* creates into an empty place, and its session is in its place or was closed;
\* whoever is heard or runs a turn is in its place.
InTurn ==
  /\ \A c, d \in Calls :
       InFlight(c) /\ InFlight(d) /\ call[c].task = call[d].task => c = d
  /\ \A c \in Calls : Creating(c) => pool[call[c].task] = None
  /\ \A c \in Calls : Modeling(c) => \/ pool[call[c].task] = call[c].on
                                     \/ call[c].on \in closed
  /\ \A s \in subscribed : pool[owner[s]] = s
  /\ \A s \in Sessions : turn[s] # "none" /\ s \notin closed => pool[owner[s]] = s

IInv ==
  /\ TypeOK /\ Counted /\ Owned /\ Alive /\ AtWork /\ Rested
  /\ ~overlap => InTurn

-----------------------------------------------------------------------------
(* Facts about the parts.                                                  *)

CallRecord == [pc : {"new", "creating", "switching", "modeling", "over"},
               op : Ops, task : Tasks \cup {None},
               mode : Modes \cup {None}, on : Sessions \cup {0}]

LEMMA CallCount == Cardinality(Calls) \in Nat /\ IsFiniteSet(Calls)
BY PoolAssumption, FS_CardinalityType

\* There are as many sessions as calls, and no number is None.
LEMMA SessionFacts ==
  /\ \A n : n \in Sessions <=> n \in Nat /\ 1 <= n /\ n <= Cardinality(Calls)
  /\ None \notin Sessions
BY CallCount, PoolAssumption DEF Sessions

LEMMA MadeFacts == ASSUME TypeOK PROVE made \in Nat /\ 1..made \subseteq Sessions
<1>1. made = 0 \/ made \in Sessions BY DEF TypeOK
<1>2. made \in Nat /\ made <= Cardinality(Calls) BY <1>1, SessionFacts, CallCount
<1>3. QED BY <1>2, SessionFacts, CallCount

\* A call that has not made its session yet leaves a number for it.
LEMMA RoomForOne ==
  ASSUME TypeOK, Counted, NEW c \in Calls, c \notin Spent
  PROVE  made + 1 \in Sessions /\ made + 1 <= Cardinality(Spent \cup {c})
<1>1. IsFiniteSet(Spent) /\ Cardinality(Spent) \in Nat
  BY CallCount, FS_Subset, FS_CardinalityType DEF Spent
<1>2. IsFiniteSet(Spent \cup {c}) /\ Cardinality(Spent \cup {c}) = Cardinality(Spent) + 1
  BY <1>1, FS_AddElement
<1>3. Cardinality(Spent \cup {c}) <= Cardinality(Calls)
  BY CallCount, FS_Subset DEF Spent
<1>4. made \in Nat BY SessionFacts DEF TypeOK
<1>5. made + 1 <= Cardinality(Spent \cup {c}) BY <1>1, <1>2, <1>4 DEF Counted
<1>6. made + 1 <= Cardinality(Calls) BY <1>1, <1>2, <1>3, <1>4, CallCount DEF Counted
<1>7. QED BY <1>4, <1>5, <1>6, SessionFacts

\* Calls only get spent.
LEMMA SpentGrows ==
  ASSUME TypeOK, Counted, Spent \subseteq Spent', made' = made
  PROVE  Counted'
<1>1. IsFiniteSet(Spent') BY CallCount, FS_Subset DEF Spent
<1>2. Cardinality(Spent) \in Nat /\ Cardinality(Spent') \in Nat
  BY <1>1, FS_Subset, FS_CardinalityType
<1>3. Cardinality(Spent) <= Cardinality(Spent') BY <1>1, FS_Subset
<1>4. made \in Nat BY SessionFacts DEF TypeOK
<1>5. QED BY <1>2, <1>3, <1>4 DEF Counted

OverCall == [NewCall EXCEPT !.pc = "over"]

LEMMA OverCallType == OverCall \in CallRecord /\ OverCall.pc = "over"
BY DEF OverCall, NewCall, CallRecord, Ops

-----------------------------------------------------------------------------
(* Steps that leave the pool and its sessions in place.                    *)

\* Calls end, tasks are touched, turns begin, go on or end.  A turn that begins is
\* on a session in its place, or a closed one, unless calls overlap.
LEMMA PoolInPlace ==
  ASSUME IInv,
         UNCHANGED <<overlap, pool, made, owner, mode, subscribed, disposed, closed>>,
         call' \in [Calls -> CallRecord],
         \A c \in Calls : call'[c] = call[c] \/ call'[c].pc = "over",
         idle' \subseteq idle,
         turn' \in [Sessions -> {"none", "starting", "streaming"}],
         \A s \in Sessions : turn'[s] # "none" /\ turn[s] = "none" =>
           s <= made /\ (~overlap => pool[owner[s]] = s \/ s \in closed),
         \A t \in idle' : turn'[pool[t]] # "starting"
  PROVE  IInv'
<1> USE DEF IInv
<1>1. TypeOK' BY DEF TypeOK, CallRecord
<1>2. Counted'
  <2>1. Spent \subseteq Spent' BY DEF Spent
  <2>2. QED BY <2>1, SpentGrows
<1>3. Owned' BY SessionFacts DEF Owned, TypeOK
<1>4. Alive' BY DEF Alive
<1>5. \A c \in Calls : /\ InFlight(c)' => InFlight(c) /\ call'[c] = call[c]
                       /\ Creating(c)' => Creating(c) /\ call'[c] = call[c]
                       /\ Modeling(c)' => Modeling(c) /\ call'[c] = call[c]
  BY DEF InFlight, Creating, Modeling
<1>6. AtWork' BY <1>5 DEF AtWork
<1>7. Rested' BY DEF Rested
<1>8. ASSUME ~overlap PROVE InTurn'
  BY <1>5, <1>8 DEF InTurn
<1>9. QED BY <1>1, <1>2, <1>3, <1>4, <1>6, <1>7, <1>8

\* What Over does to the calls.
LEMMA OverFacts ==
  ASSUME TypeOK, NEW c \in Calls, Over(c)
  PROVE  /\ call' \in [Calls -> CallRecord]
         /\ call'[c].pc = "over"
         /\ \A d \in Calls \ {c} : call'[d] = call[d]
<1>1. call' = [call EXCEPT ![c] = OverCall] BY DEF Over, OverCall
<1>2. call \in [Calls -> CallRecord] BY DEF TypeOK, CallRecord
<1>3. QED BY <1>1, <1>2, OverCallType

LEMMA CallOver ==
  ASSUME IInv, NEW c \in Calls, Over(c),
         UNCHANGED <<overlap, pool, made, owner, mode, subscribed, disposed, closed, turn>>,
         idle' \subseteq idle
  PROVE  IInv'
<1>1. /\ call' \in [Calls -> CallRecord]
      /\ \A d \in Calls : call'[d] = call[d] \/ call'[d].pc = "over"
  BY OverFacts DEF IInv
<1>2. turn' \in [Sessions -> {"none", "starting", "streaming"}] BY DEF IInv, TypeOK
<1>3. \A t \in idle' : turn'[pool[t]] # "starting" BY DEF IInv, Rested
<1>4. QED BY <1>1, <1>2, <1>3, PoolInPlace

\* A prompt reaches a session that is free for it, or that has it rejected.
LEMMA PromptsSession ==
  ASSUME IInv, NEW c \in Calls, Over(c),
         UNCHANGED <<overlap, pool, made, owner, mode, subscribed, disposed, closed>>,
         idle' \subseteq idle, NEW s \in 1..made,
         IF IsStreaming(s) THEN UNCHANGED turn ELSE Begin(s),
         ~overlap => pool[owner[s]] = s \/ s \in closed,
         owner[s] \notin idle'
  PROVE  IInv'
<1>1. /\ call' \in [Calls -> CallRecord]
      /\ \A d \in Calls : call'[d] = call[d] \/ call'[d].pc = "over"
  BY OverFacts DEF IInv
<1>2. s \in Sessions /\ made \in Nat BY MadeFacts DEF IInv
<1>3. turn' = turn \/ turn' = [turn EXCEPT ![s] = "starting"]
  BY DEF Begin
<1>4. turn' \in [Sessions -> {"none", "starting", "streaming"}]
  BY <1>2, <1>3 DEF IInv, TypeOK
<1>5. \A r \in Sessions : turn'[r] # "none" /\ turn[r] = "none" => r = s
  BY <1>2, <1>3 DEF IInv, TypeOK
<1>6. ASSUME NEW t \in idle' PROVE turn'[pool[t]] # "starting"
  <2>1. t \in idle /\ t \in Tasks /\ pool[t] # None /\ pool[t] \in Sessions
    BY DEF IInv, TypeOK
  <2>2. turn[pool[t]] # "starting" BY <2>1 DEF IInv, Rested
  <2>3. owner[pool[t]] = t BY <2>1 DEF IInv, Alive
  <2>4. pool[t] # s BY <1>6, <2>3
  <2>5. QED BY <1>2, <1>3, <2>1, <2>2, <2>4 DEF IInv, TypeOK
<1>7. QED BY <1>1, <1>2, <1>4, <1>5, <1>6, PoolInPlace

LEMMA TurnAlone ==
  ASSUME IInv, NEW s \in Sessions, NEW u \in {"none", "streaming"},
         turn[s] # "none", turn' = [turn EXCEPT ![s] = u],
         UNCHANGED <<overlap, pool, idle, made, owner, mode, subscribed, disposed, closed, call>>
  PROVE  IInv'
<1>1. call' \in [Calls -> CallRecord] BY DEF IInv, TypeOK, CallRecord
<1>2. turn' \in [Sessions -> {"none", "starting", "streaming"}] BY DEF IInv, TypeOK
<1>3. \A r \in Sessions : turn'[r] # "none" => turn[r] # "none" BY DEF IInv, TypeOK
<1>4. \A t \in idle' : turn'[pool[t]] # "starting"
  BY DEF IInv, Rested, TypeOK
<1>5. QED BY <1>1, <1>2, <1>3, <1>4, PoolInPlace

LEMMA GoesIdleStep == ASSUME IInv, NEW t \in Tasks, GoesIdle(t) PROVE IInv'
<1> USE DEF IInv, GoesIdle, sess
<1>1. TypeOK' BY DEF TypeOK
<1>2. Counted' BY DEF Counted, Spent
<1>3. Owned' BY DEF Owned
<1>4. Alive' BY DEF Alive
<1>5. AtWork' BY DEF AtWork, InFlight, Creating, Modeling
<1>6. Rested' BY DEF Rested
<1>7. ~overlap => InTurn' BY DEF InTurn, InFlight, Creating, Modeling
<1>8. QED BY <1>1, <1>2, <1>3, <1>4, <1>5, <1>6, <1>7

-----------------------------------------------------------------------------
(* A call begins its work.                                                 *)

\* Call c is at work on t from now on, or is refused.  A task that has lost its session to c has
\* no session that is heard or runs a turn.
LEMMA CallBegins ==
  ASSUME IInv, NEW c \in Calls, NEW t \in Tasks, call[c].pc = "new", MayArrive(c, t),
         NEW r \in CallRecord, call' = [call EXCEPT ![c] = r],
         r.pc \in {"creating", "switching", "modeling", "over"},
         r.pc # "over" => r.task = t,
         r.pc \in {"creating", "switching"} => r.mode \in Modes /\ pool'[t] = None,
         r.pc = "modeling" => r.on \in 1..made /\ owner[r.on] = t /\ pool'[t] = r.on,
         UNCHANGED <<overlap, made, owner, mode, disposed, closed, turn>>,
         \/ UNCHANGED <<pool, subscribed>>
         \/ /\ pool[t] # None
            /\ pool' = [pool EXCEPT ![t] = None]
            /\ subscribed' = subscribed \ {pool[t]},
         idle' = idle \ {t}
  PROVE  IInv'
<1> USE DEF IInv
<1>1. /\ call' \in [Calls -> CallRecord] /\ call'[c] = r
      /\ \A d \in Calls \ {c} : call'[d] = call[d]
  BY DEF TypeOK, CallRecord
<1>2. \A u \in Tasks \ {t} : pool'[u] = pool[u] BY DEF TypeOK
<1>3. TypeOK'
  <2>1. pool' \in [Tasks -> Sessions \cup {None}] BY DEF TypeOK
  <2>2. idle' \subseteq {u \in Tasks : pool'[u] # None} BY <1>2 DEF TypeOK
  <2>3. QED BY <1>1, <2>1, <2>2 DEF TypeOK, CallRecord
<1>4. Counted'
  <2>1. Spent \subseteq Spent' BY <1>1 DEF Spent
  <2>2. QED BY <2>1, SpentGrows
<1>5. Owned' BY DEF Owned
<1>6. Alive'
  <2>1. \A u \in Tasks \ {t} : pool[u] # None => pool[u] # pool[t] BY DEF Alive
  <2>2. QED BY <1>2, <2>1 DEF Alive, TypeOK
<1>7. AtWork' BY <1>1 DEF AtWork, InFlight, Creating, Modeling
<1>8. Rested' BY <1>2 DEF Rested, TypeOK
<1>9. ASSUME ~overlap PROVE InTurn'
  <2>1. \A d \in Calls : call[d].task = t => ~InFlight(d) BY <1>9 DEF MayArrive
  <2>2. \A s \in Sessions : owner[s] = t => turn[s] = "none" \/ s \in disposed
    BY <1>9 DEF MayArrive
  <2>3. InTurn BY <1>9
  <2>4. \A d, e \in Calls :
          InFlight(d)' /\ InFlight(e)' /\ call'[d].task = call'[e].task => d = e
    BY <1>1, <2>1, <2>3 DEF InTurn, InFlight
  <2>5. \A d \in Calls : Creating(d)' => pool'[call'[d].task] = None
    BY <1>1, <1>2, <2>1, <2>3 DEF InTurn, InFlight, Creating, AtWork
  <2>6. \A d \in Calls : Modeling(d)' => \/ pool'[call'[d].task] = call'[d].on
                                         \/ call'[d].on \in closed'
    BY <1>1, <1>2, <2>1, <2>3 DEF InTurn, InFlight, Modeling, AtWork
  <2>7. ASSUME NEW s \in subscribed' PROVE pool'[owner'[s]] = s
    <3>1. s \in subscribed /\ s \in 1..made BY <2>7 DEF TypeOK
    <3>2. pool[owner[s]] = s /\ owner[s] \in Tasks BY <2>3, <3>1 DEF InTurn, Owned
    <3>3. CASE UNCHANGED <<pool, subscribed>> BY <3>2, <3>3
    <3>4. CASE subscribed' = subscribed \ {pool[t]}
      <4>1. s # pool[t] BY <2>7, <3>4
      <4>2. owner[s] # t BY <3>2, <4>1
      <4>3. QED BY <1>2, <3>2, <4>2
    <3>5. QED BY <3>3, <3>4
  <2>8. ASSUME NEW s \in Sessions, turn'[s] # "none", s \notin closed'
        PROVE  pool'[owner'[s]] = s
    <3>1. pool[owner[s]] = s BY <2>3, <2>8 DEF InTurn
    <3>2. s \in 1..made BY <2>8, SessionFacts DEF Owned, TypeOK
    <3>3. owner[s] \in Tasks BY <3>2 DEF Owned
    <3>4. CASE owner[s] = t
      <4>1. s \notin disposed BY <3>1, <3>4, SessionFacts, <2>8 DEF Alive
      <4>2. QED BY <2>2, <2>8, <3>4, <4>1
    <3>5. CASE owner[s] # t BY <1>2, <3>1, <3>3, <3>5
    <3>6. QED BY <3>4, <3>5
  <2>9. QED BY <2>4, <2>5, <2>6, <2>7, <2>8 DEF InTurn
<1>10. QED BY <1>3, <1>4, <1>5, <1>6, <1>7, <1>8, <1>9

LEMMA InThePool ==
  ASSUME IInv, NEW t \in Tasks, pool[t] # None
  PROVE  /\ pool[t] \in Sessions /\ pool[t] \in 1..made /\ owner[pool[t]] = t
         /\ pool[t] \in subscribed /\ pool[t] \notin disposed
<1>1. pool[t] \in Sessions BY DEF IInv, TypeOK
<1>2. pool[t] \in subscribed \ disposed /\ owner[pool[t]] = t BY DEF IInv, Alive
<1>3. pool[t] \in 1..made BY <1>2 DEF IInv, TypeOK
<1>4. QED BY <1>1, <1>2, <1>3

LEMMA CreateStartStep ==
  ASSUME IInv, NEW c \in Calls, NEW t \in Tasks, CreateStart(c, t) PROVE IInv'
<1>1. /\ call[c].pc = "new" /\ MayArrive(c, t)
      /\ UNCHANGED <<overlap, pool, idle, made, owner, mode, subscribed, disposed, closed, turn>>
  BY DEF CreateStart, sess
<1>2. CASE Over(c) BY <1>1, <1>2, CallOver
<1>3. CASE pool[t] = None /\ ~Over(c)
  <2>1. PICK m \in Modes : call' = [call EXCEPT ![c] =
          [pc |-> "creating", op |-> "create", task |-> t, mode |-> m, on |-> 0]]
    BY <1>3 DEF CreateStart
  <2> DEFINE r == [pc |-> "creating", op |-> "create", task |-> t, mode |-> m, on |-> 0]
  <2>2. r \in CallRecord /\ r.pc = "creating" /\ r.task = t /\ r.mode = m
    BY DEF CallRecord, Ops
  <2>3. call' = [call EXCEPT ![c] = r] BY <2>1
  <2>4. idle' = idle \ {t} BY <1>1, <1>3 DEF IInv, TypeOK
  <2> HIDE DEF r
  <2>5. QED BY <1>1, <1>3, <2>2, <2>3, <2>4, CallBegins
<1>4. QED BY <1>2, <1>3 DEF CreateStart

LEMMA SetModelStep ==
  ASSUME IInv, NEW c \in Calls, NEW t \in Tasks, SetModel(c, t) PROVE IInv'
<1>1. /\ call[c].pc = "new" /\ MayArrive(c, t) /\ pool[t] # None
      /\ UNCHANGED <<overlap, pool, made, owner, mode, subscribed, disposed, closed, turn>>
      /\ idle' = idle \ {t}
  BY DEF SetModel, sess, Touch
<1> DEFINE r == [pc |-> "modeling", op |-> "prompt", task |-> t, mode |-> None, on |-> pool[t]]
<1>2. call' = [call EXCEPT ![c] = r] BY DEF SetModel
<1>3. pool[t] \in Sessions /\ pool[t] \in 1..made /\ owner[pool[t]] = t
  BY <1>1, InThePool
<1>4. r \in CallRecord /\ r.pc = "modeling" /\ r.task = t /\ r.on = pool[t]
  BY <1>3 DEF CallRecord, Ops
<1> HIDE DEF r
<1>5. QED BY <1>1, <1>2, <1>3, <1>4, CallBegins

\* A mode switch takes the session of the task out, whatever comes of it.
LEMMA SwitchModeStep ==
  ASSUME IInv, NEW c \in Calls, NEW t \in Tasks, SwitchMode(c, t) PROVE IInv'
<1>1. /\ call[c].pc = "new" /\ MayArrive(c, t) /\ pool[t] # None
      /\ pool' = [pool EXCEPT ![t] = None]
      /\ subscribed' = subscribed \ {pool[t]}
      /\ idle' = idle \ {t}
      /\ UNCHANGED <<overlap, made, owner, mode, disposed, closed, turn>>
  BY DEF SwitchMode
<1>2. CASE ~Over(c)
  <2>1. PICK m \in Modes \ {mode[pool[t]]} : call' = [call EXCEPT ![c] =
          [pc |-> "switching", op |-> "prompt", task |-> t, mode |-> m, on |-> 0]]
    BY <1>2 DEF SwitchMode
  <2> DEFINE r == [pc |-> "switching", op |-> "prompt", task |-> t, mode |-> m, on |-> 0]
  <2>2. r \in CallRecord /\ r.pc = "switching" /\ r.task = t /\ r.mode \in Modes
    BY DEF CallRecord, Ops
  <2>3. call' = [call EXCEPT ![c] = r] BY <2>1
  <2>4. pool'[t] = None BY <1>1 DEF IInv, TypeOK
  <2> HIDE DEF r
  <2>5. QED BY <1>1, <2>2, <2>3, <2>4, CallBegins
<1>3. CASE Over(c)
  <2>1. call' = [call EXCEPT ![c] = OverCall] BY <1>3 DEF Over, OverCall
  <2>2. QED BY <1>1, <2>1, OverCallType, CallBegins
<1>4. QED BY <1>2, <1>3

-----------------------------------------------------------------------------
(* A call puts its session into the pool.                                  *)

LEMMA SessionAdded ==
  ASSUME IInv, NEW c \in Calls, Creating(c), UNCHANGED overlap,
         AddSession(call[c].task, call[c].mode),
         call' \in [Calls -> CallRecord],
         \A d \in Calls \ {c} : call'[d] = call[d],
         \/ call'[c].pc = "over"
         \/ call'[c].pc = "modeling" /\ call'[c].on = made + 1 /\ call'[c].task = call[c].task,
         \/ turn' = turn
         \/ turn' = [turn EXCEPT ![made + 1] = "starting"]
  PROVE  IInv'
<1> DEFINE t == call[c].task
           s == made + 1
<1>1. TypeOK /\ Counted /\ Owned /\ Alive /\ AtWork /\ Rested BY DEF IInv
<1>2. t \in Tasks /\ t \notin idle /\ call[c].mode \in Modes
  BY <1>1 DEF AtWork, Creating, InFlight
<1>3. c \notin Spent BY DEF Spent, Creating
<1>4. s \in Sessions /\ s <= Cardinality(Spent \cup {c}) BY <1>1, <1>3, RoomForOne
<1>5. made \in Nat /\ 1..made \subseteq Sessions BY <1>1, MadeFacts
<1>6. /\ made' = s /\ disposed' = disposed /\ closed' = closed /\ idle' = idle \ {t}
      /\ subscribed' = subscribed \cup {s}
      /\ owner' = [owner EXCEPT ![s] = t] /\ mode' = [mode EXCEPT ![s] = call[c].mode]
      /\ pool' = [pool EXCEPT ![t] = s]
  BY DEF AddSession
<1> HIDE DEF t, s
<1>7. s \in Nat /\ s = made + 1 /\ 1..made \subseteq 1..s /\ s \in 1..s /\ s \notin 1..made
      /\ 1..s = 1..made \cup {s}
  BY <1>5 DEF s
<1>8. /\ pool' \in [Tasks -> Sessions \cup {None}] /\ pool'[t] = s /\ s # None
      /\ \A u \in Tasks \ {t} : pool'[u] = pool[u]
  BY <1>1, <1>2, <1>4, <1>6, SessionFacts DEF TypeOK
<1>9. /\ owner' \in [Sessions -> Tasks \cup {None}] /\ owner'[s] = t
      /\ \A r \in 1..made : owner'[r] = owner[r]
  BY <1>1, <1>2, <1>4, <1>5, <1>6, <1>7 DEF TypeOK
<1>10. /\ turn' \in [Sessions -> {"none", "starting", "streaming"}]
       /\ \A r \in Sessions \ {s} : turn'[r] = turn[r]
  BY <1>1, <1>4 DEF TypeOK, s
<1>11. TypeOK'
  <2>1. idle' \subseteq {u \in Tasks : pool'[u] # None} BY <1>1, <1>6, <1>8 DEF TypeOK
  <2>2. mode' \in [Sessions -> Modes \cup {None}] BY <1>1, <1>2, <1>4, <1>6 DEF TypeOK
  <2>3. subscribed' \subseteq 1..made' /\ disposed' \subseteq 1..made' /\ closed' \subseteq disposed'
    BY <1>1, <1>6, <1>7 DEF TypeOK
  <2>4. QED BY <1>1, <1>4, <1>6, <1>8, <1>9, <1>10, <2>1, <2>2, <2>3 DEF TypeOK, CallRecord
<1>12. Counted'
  <2>1. Spent \cup {c} \subseteq Spent' BY DEF Spent
  <2>2. IsFiniteSet(Spent') BY CallCount, FS_Subset DEF Spent
  <2>3. /\ IsFiniteSet(Spent \cup {c}) /\ Cardinality(Spent \cup {c}) \in Nat
        /\ Cardinality(Spent \cup {c}) <= Cardinality(Spent') /\ Cardinality(Spent') \in Nat
    BY <2>1, <2>2, FS_Subset, FS_CardinalityType
  <2>4. QED BY <1>4, <1>6, <1>7, <2>3 DEF Counted
<1>13. Owned'
  <2>1. \A r \in 1..made' : owner'[r] \in Tasks BY <1>1, <1>2, <1>6, <1>7, <1>9 DEF Owned
  <2>2. ASSUME NEW r \in Sessions, r > made' PROVE turn'[r] = "none"
    <3>1. r \in Nat BY SessionFacts
    <3>2. r # s /\ r > made BY <1>5, <1>6, <1>7, <2>2, <3>1
    <3>3. QED BY <1>1, <1>10, <3>2 DEF Owned
  <2>3. QED BY <2>1, <2>2 DEF Owned
<1>14. Alive'
  <2>1. s \in subscribed' \ disposed' BY <1>1, <1>6, <1>7 DEF TypeOK
  <2>2. ASSUME NEW u \in Tasks \ {t}, pool[u] # None
        PROVE  pool[u] \in subscribed' \ disposed' /\ owner'[pool[u]] = u
    BY <1>6, <1>9, <2>2, InThePool
  <2>3. QED BY <1>8, <1>9, <2>1, <2>2 DEF Alive
<1>15. AtWork'
  <2>1. ASSUME NEW d \in Calls \ {c}, Modeling(d)'
        PROVE  call'[d].on \in 1..made' /\ owner'[call'[d].on] = call'[d].task
    BY <1>1, <1>6, <1>7, <1>9, <2>1 DEF AtWork, Modeling
  <2>2. ASSUME Modeling(c)'
        PROVE  call'[c].on \in 1..made' /\ owner'[call'[c].on] = call'[c].task
    BY <1>6, <1>7, <1>9, <2>2 DEF Modeling, t
  <2>3. \A d \in Calls : InFlight(d)' => call'[d].task \in Tasks \ idle'
    BY <1>1, <1>2, <1>6 DEF AtWork, InFlight, Creating, t
  <2>4. \A d \in Calls : Creating(d)' => call'[d].mode \in Modes
    BY <1>1 DEF AtWork, Creating
  <2>5. QED BY <2>1, <2>2, <2>3, <2>4 DEF AtWork
<1>16. Rested'
  <2>1. ASSUME NEW u \in idle' PROVE turn'[pool'[u]] # "starting"
    <3>1. u \in idle /\ u \in Tasks \ {t} /\ pool[u] # None BY <1>1, <1>6, <2>1 DEF TypeOK
    <3>2. pool[u] \in Sessions \ {s} BY <1>7, <3>1, InThePool
    <3>3. QED BY <1>1, <1>8, <1>10, <3>1, <3>2 DEF Rested
  <2>2. QED BY <2>1 DEF Rested
<1>17. ASSUME ~overlap PROVE InTurn'
  <2>1. InTurn BY <1>17 DEF IInv
  <2>2. \A d \in Calls : InFlight(d)' => InFlight(d) /\ call'[d].task = call[d].task
    BY DEF InFlight, Creating
  <2>3. \A d \in Calls \ {c} : InFlight(d) => call[d].task # t
    BY <2>1 DEF InTurn, InFlight, Creating, t
  <2>4. pool[t] = None BY <2>1 DEF InTurn, t
  <2>5. ASSUME NEW r \in 1..made, pool[owner[r]] = r PROVE pool'[owner'[r]] = r
    <3>1. r # None BY <1>5, SessionFacts
    <3>2. owner[r] \in Tasks \ {t} BY <1>1, <2>4, <2>5, <3>1 DEF Owned
    <3>3. QED BY <1>8, <1>9, <2>5, <3>2
  <2>6. \A d, e \in Calls :
          InFlight(d)' /\ InFlight(e)' /\ call'[d].task = call'[e].task => d = e
    BY <2>1, <2>2 DEF InTurn
  <2>7. \A d \in Calls : Creating(d)' => pool'[call'[d].task] = None
    <3>1. ASSUME NEW d \in Calls, Creating(d)' PROVE pool'[call'[d].task] = None
      <4>1. d # c /\ call'[d] = call[d] /\ Creating(d) /\ InFlight(d)
        BY <3>1 DEF Creating, InFlight
      <4>2. call[d].task \in Tasks \ {t} /\ pool[call[d].task] = None
        BY <1>1, <2>1, <2>3, <4>1 DEF InTurn, AtWork
      <4>3. QED BY <1>8, <4>1, <4>2
    <3>2. QED BY <3>1
  <2>8. ASSUME NEW d \in Calls, Modeling(d)'
        PROVE  pool'[call'[d].task] = call'[d].on \/ call'[d].on \in closed'
    <3>1. CASE d = c BY <1>8, <2>8, <3>1 DEF Modeling, t, s
    <3>2. CASE d # c
      <4>1. call'[d] = call[d] /\ Modeling(d) /\ InFlight(d) BY <2>8, <3>2 DEF Modeling, InFlight
      <4>2. call[d].task \in Tasks \ {t} BY <1>1, <2>3, <3>2, <4>1 DEF AtWork
      <4>3. QED BY <1>6, <1>8, <2>1, <4>1, <4>2 DEF InTurn
    <3>3. QED BY <3>1, <3>2
  <2>9. ASSUME NEW r \in subscribed' PROVE pool'[owner'[r]] = r
    <3>1. CASE r = s BY <1>8, <1>9, <3>1
    <3>2. CASE r # s
      <4>1. r \in subscribed /\ r \in 1..made BY <1>1, <1>6, <2>9, <3>2 DEF TypeOK
      <4>2. QED BY <2>1, <2>5, <4>1 DEF InTurn
    <3>3. QED BY <3>1, <3>2
  <2>10. ASSUME NEW r \in Sessions, turn'[r] # "none", r \notin closed' PROVE pool'[owner'[r]] = r
    <3>1. CASE r = s BY <1>8, <1>9, <3>1
    <3>2. CASE r # s
      <4>1. turn[r] # "none" BY <1>10, <2>10, <3>2
      <4>2. r \in 1..made BY <1>1, <1>5, <4>1, SessionFacts DEF Owned
      <4>3. QED BY <1>6, <2>1, <2>5, <2>10, <4>1, <4>2 DEF InTurn
    <3>3. QED BY <3>1, <3>2
  <2>11. QED BY <2>6, <2>7, <2>8, <2>9, <2>10 DEF InTurn
<1>18. QED BY <1>11, <1>12, <1>13, <1>14, <1>15, <1>16, <1>17 DEF IInv

-----------------------------------------------------------------------------
(* Sessions are closed.                                                    *)

\* What a close of ts does, whoever asks for it: a call that is at work on one of
\* the sessions finds it closed.
LEMMA TasksClosed ==
  ASSUME IInv, NEW ts \in SUBSET Pooled, CloseAll(ts), UNCHANGED overlap,
         closed \subseteq closed', closed' \subseteq disposed',
         call' \in [Calls -> CallRecord],
         \A c \in Calls : call'[c] = call[c] \/ call'[c].pc = "over",
         \A c \in Calls : Modeling(c) /\ call[c].task \in ts => pool[call[c].task] \in closed'
  PROVE  IInv'
<1> DEFINE gone == {pool[t] : t \in ts}
<1>1. TypeOK /\ Counted /\ Owned /\ Alive /\ AtWork /\ Rested BY DEF IInv
<1>2. /\ pool' = [t \in Tasks |-> IF t \in ts THEN None ELSE pool[t]]
      /\ idle' = idle \ ts
      /\ subscribed' = subscribed \ gone /\ disposed' = disposed \cup gone
      /\ turn' = [s \in Sessions |-> IF s \in gone THEN "none" ELSE turn[s]]
      /\ UNCHANGED <<made, owner, mode>>
  BY DEF CloseAll
<1>3. ts \subseteq Tasks /\ \A t \in ts : pool[t] # None BY DEF Pooled
<1>4. gone \subseteq 1..made BY <1>3, InThePool
<1>5. \A t \in Tasks \ ts : pool[t] # None => pool[t] \notin gone BY <1>3, InThePool
<1>6. \A s : pool[owner[s]] = s /\ s \notin gone => owner[s] \notin ts OBVIOUS
<1> HIDE DEF gone
<1>7. \A c \in Calls : /\ InFlight(c)' => InFlight(c) /\ call'[c] = call[c]
                       /\ Creating(c)' => Creating(c) /\ call'[c] = call[c]
                       /\ Modeling(c)' => Modeling(c) /\ call'[c] = call[c]
  BY DEF InFlight, Creating, Modeling
<1>8. \A s \in Sessions : turn'[s] # "none" => s \notin gone /\ turn'[s] = turn[s] BY <1>2
<1>9. TypeOK'
  <2>1. pool' \in [Tasks -> Sessions \cup {None}] BY <1>1, <1>2 DEF TypeOK
  <2>2. idle' \subseteq {t \in Tasks : pool'[t] # None} BY <1>1, <1>2 DEF TypeOK
  <2>3. subscribed' \subseteq 1..made' /\ disposed' \subseteq 1..made' BY <1>1, <1>2, <1>4 DEF TypeOK
  <2>4. turn' \in [Sessions -> {"none", "starting", "streaming"}] BY <1>1, <1>2 DEF TypeOK
  <2>5. QED BY <1>1, <1>2, <2>1, <2>2, <2>3, <2>4 DEF TypeOK, CallRecord
<1>10. Counted'
  <2>1. Spent \subseteq Spent' BY DEF Spent
  <2>2. QED BY <1>1, <1>2, <2>1, SpentGrows
<1>11. Owned' BY <1>1, <1>2, <1>8 DEF Owned
<1>12. Alive'
  <2>1. ASSUME NEW t \in Tasks, pool'[t] # None
        PROVE  pool'[t] \in subscribed' \ disposed' /\ owner'[pool'[t]] = t
    <3>1. t \in Tasks \ ts /\ pool'[t] = pool[t] BY <1>2, <2>1
    <3>2. QED BY <1>2, <1>5, <2>1, <3>1, InThePool
  <2>2. QED BY <2>1 DEF Alive
<1>13. AtWork' BY <1>1, <1>2, <1>7 DEF AtWork
<1>14. Rested'
  <2>1. ASSUME NEW t \in idle' PROVE turn'[pool'[t]] # "starting"
    <3>1. t \in idle /\ t \in Tasks \ ts /\ pool[t] \in Sessions /\ pool'[t] = pool[t]
      BY <1>1, <1>2, <2>1 DEF TypeOK
    <3>2. QED BY <1>1, <1>8, <3>1 DEF Rested
  <2>2. QED BY <2>1 DEF Rested
<1>15. ASSUME ~overlap PROVE InTurn'
  <2>1. InTurn BY <1>15 DEF IInv
  <2>2. \A c, d \in Calls :
          InFlight(c)' /\ InFlight(d)' /\ call'[c].task = call'[d].task => c = d
    BY <1>7, <2>1 DEF InTurn
  <2>3. ASSUME NEW c \in Calls, Creating(c)' PROVE pool'[call'[c].task] = None
    <3>1. call[c].task \in Tasks /\ pool[call[c].task] = None /\ call'[c] = call[c]
      BY <1>1, <1>7, <2>1, <2>3 DEF InTurn, AtWork, InFlight, Creating
    <3>2. QED BY <1>2, <3>1
  <2>4. ASSUME NEW c \in Calls, Modeling(c)'
        PROVE  pool'[call'[c].task] = call'[c].on \/ call'[c].on \in closed'
    <3>1. /\ Modeling(c) /\ call'[c] = call[c] /\ call[c].task \in Tasks
          /\ pool[call[c].task] = call[c].on \/ call[c].on \in closed
      BY <1>1, <1>7, <2>1, <2>4 DEF InTurn, AtWork, InFlight, Modeling
    <3>2. CASE call[c].task \in ts BY <3>1, <3>2
    <3>3. CASE call[c].task \notin ts BY <1>2, <3>1, <3>3
    <3>4. QED BY <3>2, <3>3
  <2>5. ASSUME NEW s \in 1..made, s \notin gone, pool[owner[s]] = s PROVE pool'[owner'[s]] = s
    <3>1. owner[s] \in Tasks \ ts BY <1>1, <1>6, <2>5 DEF Owned
    <3>2. QED BY <1>2, <2>5, <3>1
  <2>6. \A s \in subscribed' : pool'[owner'[s]] = s
    BY <1>1, <1>2, <2>1, <2>5 DEF InTurn, TypeOK
  <2>7. ASSUME NEW s \in Sessions, turn'[s] # "none", s \notin closed' PROVE pool'[owner'[s]] = s
    <3>1. s \notin gone /\ turn[s] # "none" /\ s \notin closed BY <1>8, <2>7
    <3>2. made \in Nat /\ s \in 1..made BY <1>1, <3>1, SessionFacts, MadeFacts DEF Owned
    <3>3. QED BY <2>1, <2>5, <3>1, <3>2 DEF InTurn
  <2>8. QED BY <2>2, <2>3, <2>4, <2>6, <2>7 DEF InTurn
<1>16. QED BY <1>9, <1>10, <1>11, <1>12, <1>13, <1>14, <1>15 DEF IInv

\* A close takes note of what it disposes, so that a prompt on it is known for one
\* on a closed session.
LEMMA CloseStep == ASSUME IInv, NEW c \in Calls, NEW t \in Tasks, Close(c, t) PROVE IInv'
<1> DEFINE ts == {t} \cap Pooled
<1>1. /\ ts \in SUBSET Pooled /\ CloseAll(ts) /\ UNCHANGED overlap
      /\ closed' = closed \cup (disposed' \ disposed) /\ Over(c)
  BY DEF Close
<1> HIDE DEF ts
<1>2. /\ call' \in [Calls -> CallRecord]
      /\ \A d \in Calls : call'[d] = call[d] \/ call'[d].pc = "over"
  BY <1>1, OverFacts DEF IInv
<1>3. disposed \subseteq disposed' BY <1>1 DEF CloseAll
<1>4. closed' \subseteq disposed' BY <1>1, <1>3 DEF IInv, TypeOK
<1>5. \A u \in ts : pool[u] \in disposed' \ disposed
  BY <1>1, InThePool DEF CloseAll, Pooled
<1>6. QED BY <1>1, <1>2, <1>4, <1>5, TasksClosed

\* The sweep closes tasks that no call is at work on.
LEMMA SweepStep == ASSUME IInv, Sweep PROVE IInv'
<1>1. CloseAll(Evictable) /\ UNCHANGED <<overlap, closed, call>> BY DEF Sweep
<1>2. Evictable \in SUBSET Pooled BY DEF IInv, TypeOK, Evictable, Pooled
<1>3. closed' \subseteq disposed' BY <1>1 DEF CloseAll, IInv, TypeOK
<1>4. call' \in [Calls -> CallRecord] BY <1>1 DEF IInv, TypeOK, CallRecord
<1>5. \A c \in Calls : Modeling(c) => call[c].task \notin Evictable
  BY DEF IInv, AtWork, InFlight, Modeling, Evictable
<1>6. QED BY <1>1, <1>2, <1>3, <1>4, <1>5, TasksClosed

-----------------------------------------------------------------------------
(* Every step, and the theorems.                                           *)

LEMMA Starts == ASSUME Init PROVE IInv
<1> USE DEF Init
<1>1. TypeOK BY DEF TypeOK, NewCall, Ops
<1>2. Counted
  <2>1. IsFiniteSet(Spent) /\ Cardinality(Spent) \in Nat
    BY CallCount, FS_Subset, FS_CardinalityType DEF Spent
  <2>2. QED BY <2>1 DEF Counted
<1>3. Owned BY SessionFacts DEF Owned
<1>4. Alive BY DEF Alive
<1>5. \A c \in Calls : call[c].pc = "new" BY DEF NewCall
<1>6. AtWork BY <1>5 DEF AtWork, InFlight, Creating, Modeling
<1>7. Rested BY DEF Rested
<1>8. InTurn BY <1>5 DEF InTurn, InFlight, Creating, Modeling
<1>9. QED BY <1>1, <1>2, <1>3, <1>4, <1>6, <1>7, <1>8 DEF IInv

LEMMA HandlerStep == ASSUME IInv, NEW c \in Calls, Handler(c) PROVE IInv'
<1>1. CASE CreateDone(c)
  <2>1. /\ call' \in [Calls -> CallRecord] /\ call'[c].pc = "over"
        /\ \A d \in Calls \ {c} : call'[d] = call[d]
    BY <1>1, OverFacts DEF CreateDone, IInv
  <2>2. QED BY <1>1, <2>1, SessionAdded DEF CreateDone, Creating
<1>2. CASE CreateFails(c) BY <1>2, CallOver DEF CreateFails, sess
<1>3. CASE SwitchDone(c)
  <2>1. /\ Creating(c) /\ AddSession(call[c].task, call[c].mode) /\ UNCHANGED overlap
    BY <1>3 DEF SwitchDone, Creating
  <2>2. CASE Begin(made + 1) /\ Over(c)
    <3>1. /\ call' \in [Calls -> CallRecord] /\ call'[c].pc = "over"
          /\ \A d \in Calls \ {c} : call'[d] = call[d]
      BY <2>2, OverFacts DEF IInv
    <3>2. QED BY <2>1, <2>2, <3>1, SessionAdded DEF Begin
  <2>3. CASE /\ call' = [call EXCEPT ![c].pc = "modeling", ![c].on = made + 1]
             /\ UNCHANGED turn
    <3>1. made + 1 \in Sessions
      BY <2>1, RoomForOne DEF IInv, Spent, Creating
    <3>2. call \in [Calls -> CallRecord] BY DEF IInv, TypeOK, CallRecord
    <3>3. /\ call' \in [Calls -> CallRecord]
          /\ \A d \in Calls \ {c} : call'[d] = call[d]
          /\ call'[c].pc = "modeling" /\ call'[c].on = made + 1 /\ call'[c].task = call[c].task
      BY <2>3, <3>1, <3>2 DEF CallRecord
    <3>4. QED BY <2>1, <2>3, <3>3, SessionAdded
  <2>4. QED BY <1>3, <2>2, <2>3 DEF SwitchDone
<1>4. CASE ModelDone(c)
  <2> DEFINE s == call[c].on
  <2>1. s \in 1..made /\ owner[s] = call[c].task /\ call[c].task \notin idle
    BY <1>4 DEF ModelDone, IInv, AtWork, Modeling, InFlight
  <2>2. ~overlap => pool[owner[s]] = s \/ s \in closed
    BY <1>4, <2>1 DEF ModelDone, IInv, InTurn, Modeling
  <2>3. IF IsStreaming(s) THEN UNCHANGED turn ELSE Begin(s) BY <1>4 DEF ModelDone
  <2> HIDE DEF s
  <2>4. QED BY <1>4, <2>1, <2>2, <2>3, PromptsSession DEF ModelDone
<1>5. QED BY <1>1, <1>2, <1>3, <1>4 DEF Handler

LEMMA ArrivalStep ==
  ASSUME IInv, NEW c \in Calls, NEW t \in Tasks, Arrival(c, t) PROVE IInv'
<1>1. CASE PromptNow(c, t)
  <2> DEFINE s == pool[t]
  <2>1. /\ s # None /\ Over(c) /\ idle' = idle \ {t}
        /\ IF IsStreaming(s) THEN UNCHANGED turn ELSE Begin(s)
    BY <1>1 DEF PromptNow, Touch
  <2>2. s \in 1..made /\ owner[s] = t BY <2>1, InThePool
  <2>3. pool[owner[s]] = s /\ owner[s] \notin idle' BY <2>1, <2>2
  <2> HIDE DEF s
  <2>4. QED BY <1>1, <2>1, <2>2, <2>3, PromptsSession DEF PromptNow
<1>2. CASE NotFound(c, t) BY <1>2, CallOver DEF NotFound, sess
<1>3. CASE TouchOnly(c, t) BY <1>3, CallOver DEF TouchOnly, sess, Touch
<1>4. CASE Abort(c, t)
  <2>1. /\ call' \in [Calls -> CallRecord]
        /\ \A d \in Calls : call'[d] = call[d] \/ call'[d].pc = "over"
    BY <1>4, OverFacts DEF IInv, Abort
  <2>2. /\ turn' \in [Sessions -> {"none", "starting", "streaming"}]
        /\ \A s \in Sessions : turn'[s] # "none" => turn'[s] = turn[s]
    BY <1>4 DEF IInv, TypeOK, Abort
  <2>3. idle' \subseteq idle BY <1>4 DEF Abort, Touch
  <2>4. \A u \in idle' : turn'[pool[u]] # "starting"
    BY <2>2, <2>3 DEF IInv, Rested, TypeOK
  <2>5. QED BY <1>4, <2>1, <2>2, <2>3, <2>4, PoolInPlace DEF Abort
<1>5. QED BY <1>1, <1>2, <1>3, <1>4, CreateStartStep, SwitchModeStep, SetModelStep, CloseStep
          DEF Arrival

LEMMA Stutters == ASSUME IInv, UNCHANGED vars PROVE IInv'
<1>1. call' \in [Calls -> CallRecord] BY DEF vars, IInv, TypeOK, CallRecord
<1>2. turn' \in [Sessions -> {"none", "starting", "streaming"}] BY DEF vars, IInv, TypeOK
<1>3. \A t \in idle' : turn'[pool[t]] # "starting" BY DEF vars, IInv, Rested
<1>4. QED BY <1>1, <1>2, <1>3, PoolInPlace DEF vars

LEMMA Steps == ASSUME IInv, [Next]_vars PROVE IInv'
<1>1. ASSUME NEW c \in Calls, Handler(c) PROVE IInv' BY <1>1, HandlerStep
<1>2. ASSUME NEW c \in Calls, NEW t \in Tasks, Arrival(c, t) PROVE IInv' BY <1>2, ArrivalStep
<1>3. CASE Sweep BY <1>3, SweepStep
<1>4. ASSUME NEW s \in Sessions, TurnStreams(s) PROVE IInv'
  BY <1>4, TurnAlone DEF TurnStreams
<1>5. ASSUME NEW s \in Sessions, TurnEnds(s) PROVE IInv' BY <1>5, TurnAlone DEF TurnEnds
<1>6. ASSUME NEW t \in Tasks, GoesIdle(t) PROVE IInv' BY <1>6, GoesIdleStep
<1>7. CASE UNCHANGED vars BY <1>7, Stutters
<1>8. QED BY <1>1, <1>2, <1>3, <1>4, <1>5, <1>6, <1>7 DEF Next

LEMMA Inductive == Spec => []IInv
<1>1. Init => IInv BY Starts
<1>2. IInv /\ [Next]_vars => IInv' BY Steps
<1>3. QED BY <1>1, <1>2, PTL DEF Spec

\* The state of the pool is what the code can hold, whatever the order of calls.
THEOREM PoolTypes == Spec => []TypeOK
<1>1. IInv => TypeOK BY DEF IInv
<1>2. QED BY <1>1, Inductive, PTL

\* Whatever calls overlap, a session that get hands out is subscribed to, is not
\* disposed and is of the task it was asked for.
THEOREM PoolHoldsTheLiving == Spec => []PoolIsAlive
<1>1. IInv => PoolIsAlive BY DEF IInv, Alive, PoolIsAlive, Pooled
<1>2. QED BY <1>1, Inductive, PTL

\* Where the calls of a task do not overlap, no mode switch, eviction or close leaves
\* a second session of the task with a listener.
THEOREM OneSessionPerTask == Spec => []OnePerTask
<1>1. IInv => OnePerTask
  <2>1. ASSUME IInv, ~overlap, NEW r \in subscribed, NEW s \in subscribed, owner[r] = owner[s]
        PROVE  r = s
    BY <2>1 DEF IInv, InTurn
  <2>2. QED BY <2>1 DEF OnePerTask, Single
<1>2. QED BY <1>1, Inductive, PTL

\* There, too, a running turn is on the session in the pool, and is heard, unless its
\* session was closed under the call.
THEOREM TurnsAreReachable == Spec => []TurnIsReachable
<1>1. IInv => TurnIsReachable
  <2>1. ASSUME IInv, ~overlap, NEW s \in Sessions, turn[s] # "none", s \notin closed
        PROVE  pool[owner[s]] = s /\ s \in subscribed
    <3>1. pool[owner[s]] = s BY <2>1 DEF IInv, InTurn
    <3>2. made \in Nat /\ s \in 1..made BY <2>1, MadeFacts, SessionFacts DEF IInv, Owned
    <3>3. owner[s] \in Tasks /\ s # None BY <2>1, <3>2, SessionFacts DEF IInv, Owned
    <3>4. QED BY <2>1, <3>1, <3>3, InThePool
  <2>2. QED BY <2>1 DEF TurnIsReachable
<1>2. QED BY <1>1, Inductive, PTL

\* No eviction disposes of a session with a turn, though a turn has begun before
\* isStreaming says so.
THEOREM SweepsSpareTurns == Spec => SweepSparesTurns
<1>1. ASSUME IInv, Sweep, NEW s \in Sessions, s \in disposed' \ disposed
      PROVE  turn[s] = "none"
  <2>1. PICK t \in Evictable : s = pool[t] BY <1>1 DEF Sweep, CloseAll
  <2>2. turn[s] # "starting" /\ turn[s] # "streaming"
    BY <1>1, <2>1 DEF IInv, Rested, Evictable, IsStreaming
  <2>3. QED BY <1>1, <2>2 DEF IInv, TypeOK
<1>2. IInv /\ [Next]_vars =>
        [Sweep => \A s \in Sessions : s \in disposed' \ disposed => turn[s] = "none"]_vars
  BY <1>1
<1>3. QED BY <1>2, Inductive, PTL DEF Spec, SweepSparesTurns
=============================================================================
