-------------------------- MODULE SkillLoop_proofs --------------------------
(***************************************************************************)
(* The description loop, for every eval set, split, number of runs,        *)
(* workers and iterations: what run_eval counts as triggered, what the     *)
(* prompts for improvements show, and what the loop returns in the end.    *)
(***************************************************************************)
EXTENDS SkillLoop, FiniteSetTheorems, TLAPS

Queries  == {eval_set[i].query : i \in DOMAIN eval_set}
Outcomes == [query : Queries, should_trigger : BOOLEAN, passed : BOOLEAN]

\* The eval set is a list that begins with the train set.
SetOK ==
  /\ Len(eval_set) \in Nat /\ DOMAIN eval_set = 1..Len(eval_set)
  /\ \A i \in DOMAIN eval_set : eval_set[i].should_trigger \in BOOLEAN
  /\ train_size \in 0..Len(eval_set)

-----------------------------------------------------------------------------
(* run_eval.                                                               *)

Files == [job : Jobs, round : Nat, description : Descriptions]
Notes == [type : {"tool", "delta", "stop", "assistant", "other"},
          names : Files \cup {None}]

\* A claude that names a job's own file is using it.
SaysWhatItUses(j) ==
  \A i \in DOMAIN pipe[j] :
    pipe[j][i].type \in {"delta", "assistant"} /\ pipe[j][i].names = OwnFile(j) =>
      used[j] = OwnFile(j)

EvalInv ==
  /\ EvalTypeOK
  /\ pipe \in [Jobs -> Seq(Notes)]
  /\ \A j \in Jobs : job[j] # "reads" => pipe[j] = <<>> /\ process[j] = "none"
  /\ \A j \in Jobs : SaysWhatItUses(j)
  /\ CommandFilesAreTemporary

\* The claudes run only while the loop waits for them, and on its description.
Waits ==
  /\ phase # "running" => \A j \in Jobs : job[j] = "done"
  /\ phase = "running" => tested = current

-----------------------------------------------------------------------------
(* run_loop.                                                               *)

Entries == [description : Descriptions, train_results : SUBSET Outcomes,
            test_results : (SUBSET Outcomes) \cup {None}]

\* Results of queries held out are in test_results, all others in train_results.
Split(h) ==
  /\ \A r \in h.train_results : r.query \in TrainQueries
  /\ test_size = 0 => h.test_results = None
  /\ test_size > 0 => /\ h.test_results \in SUBSET Outcomes
                      /\ \A r \in h.test_results : r.query \notin TrainQueries
                      /\ DistinctQueries => h.test_results # {}

Counted ==
  /\ phase \in {"evaluate", "running"} => Len(history) = iteration - 1
  /\ phase \in Phases \ {"evaluate", "running", "crashed"} =>
       /\ Len(history) = iteration
       /\ history[Len(history)].description = current
  /\ phase \in {"improve", "rewrite"} => iteration < MaxIterations

\* What run_loop returns is made from the whole history.
Returned ==
  phase \in {"final", "finished"} \/ output # None =>
    /\ phase \in {"final", "finished", "crashed"}
    /\ output.best_iteration = Best /\ Len(history) > 0
    /\ output.final_description = history[Len(history)].description

LoopInv ==
  /\ phase \in Phases /\ iteration \in 1..MaxIterations /\ current \in Descriptions
  /\ history \in Seq(Entries) /\ Len(history) <= MaxIterations
  /\ \A i \in DOMAIN history : Split(history[i])
  /\ report.shown \in 0..Len(history) /\ report.refreshes \in BOOLEAN
  /\ Counted /\ Returned /\ ReportAgrees

IInv == SetOK /\ EvalInv /\ Waits /\ LoopInv

-----------------------------------------------------------------------------
(* Numbers, sets and sequences.                                            *)

Below == {p \in Nat \X Nat : p[1] < p[2]}

\* There is a first one.
LEMMA FirstIs ==
  ASSUME NEW S \in SUBSET Nat, S # {}
  PROVE  \E i \in S : \A k \in S : i <= k
<1>1. IsWellFoundedOn(Below, Nat)
  BY NatLessThanWellFounded DEF OpToRel, Below
<1>2. PICK i \in S : \A k \in S : <<k, i>> \notin Below
  BY <1>1, WFMin
<1>3. \A k \in S : ~(k < i)
  BY <1>2 DEF Below
<1>4. QED BY <1>3

\* max() finds one, and the first one: none before it is as good.
LEMMA BestExists ==
  ASSUME NEW n \in Nat \ {0}, NEW f \in [1..n -> Nat]
  PROVE  \E i \in 1..n : /\ \A k \in 1..n : f[k] <= f[i]
                         /\ \A k \in 1..(i - 1) : f[k] < f[i]
<1> DEFINE above(i) == {k \in 1..n : f[i] < f[k]}
           count == [i \in 1..n |-> Cardinality(above(i))]
           counts == {count[i] : i \in 1..n}
<1>1. \A i \in 1..n : IsFiniteSet(above(i)) /\ Cardinality(above(i)) \in Nat
  <2>1. IsFiniteSet(1..n)
    BY FS_Interval
  <2>2. \A i \in 1..n : above(i) \in SUBSET (1..n)
    OBVIOUS
  <2>3. QED BY <2>1, <2>2, FS_Subset, FS_CardinalityType
<1>2. PICK i \in 1..n : \A k \in 1..n : Cardinality(above(i)) <= Cardinality(above(k))
  <2> HIDE DEF above
  <2>1. /\ \A k \in 1..n : count[k] = Cardinality(above(k)) /\ count[k] \in Nat
        /\ 1 \in 1..n
    BY <1>1
  <2> HIDE DEF count
  <2>2. counts \in SUBSET Nat /\ counts # {}
    BY <2>1
  <2>3. PICK c \in counts : \A d \in counts : c <= d
    BY <2>2, FirstIs
  <2>4. PICK i \in 1..n : c = count[i]
    OBVIOUS
  <2>5. \A k \in 1..n : count[i] <= count[k]
    BY <2>3, <2>4
  <2>6. QED BY <2>1, <2>5
<1>3. ASSUME NEW k \in 1..n, f[i] < f[k] PROVE FALSE
  <2>1. above(k) \subseteq above(i) /\ k \in above(i) /\ k \notin above(k)
    BY <1>3
  <2>2. Cardinality(above(k)) <= Cardinality(above(i))
    BY <1>1, <2>1, FS_Subset
  <2>3. Cardinality(above(k)) = Cardinality(above(i))
    <3>1. /\ Cardinality(above(i)) <= Cardinality(above(k))
          /\ Cardinality(above(i)) \in Nat /\ Cardinality(above(k)) \in Nat
      BY <1>1, <1>2
    <3> HIDE DEF above
    <3>2. QED BY <2>2, <3>1
  <2>4. QED BY <1>1, <2>1, <2>3, FS_Subset
<1>4. \A k \in 1..n : f[k] <= f[i]
  BY <1>3
<1> DEFINE best == {k \in 1..n : f[k] = f[i]}
<1>5. PICK b \in best : \A k \in best : b <= k
  <2>1. best \in SUBSET Nat /\ best # {}
    OBVIOUS
  <2>2. QED BY <2>1, FirstIs
<1>6. \A k \in 1..(b - 1) : k \in 1..n /\ k \notin best
  BY <1>5
<1>7. QED BY <1>4, <1>5, <1>6

\* A finite set can be listed.
LEMMA ListIs ==
  ASSUME NEW S, IsFiniteSet(S)
  PROVE  SetToSeq(S) \in Seq(S)
<1>1. /\ Cardinality(S) \in Nat
      /\ \E f : f \in Bijection(1..Cardinality(S), S)
  BY FS_CardinalityType DEF ExistsBijection
<1>2. \E f \in [1..Cardinality(S) -> S] : IsInjective(f)
  BY <1>1 DEF Bijection, Injection
<1>3. SetToSeq(S) \in [1..Cardinality(S) -> S]
  BY <1>2 DEF SetToSeq
<1>4. QED BY <1>1, <1>3

\* The parts of a split are lists of what was in the set.
LEMMA PickedIs ==
  ASSUME NEW T, NEW s \in Seq(T), NEW I \in SUBSET DOMAIN s
  PROVE  Picked(s, I) \in Seq(T)
<1> DEFINE order == SetToSeq(I \cap Indices(s, TRUE)) \o SetToSeq(I \cap Indices(s, FALSE))
<1>1. IsFiniteSet(DOMAIN s)
  <2>1. DOMAIN s = 1..Len(s) /\ Len(s) \in Nat
    OBVIOUS
  <2>2. QED BY <2>1, FS_Interval
<1>2. \A b \in BOOLEAN : /\ I \cap Indices(s, b) \subseteq DOMAIN s
                         /\ IsFiniteSet(I \cap Indices(s, b))
  BY <1>1, FS_Subset
<1>3. \A b \in BOOLEAN : SetToSeq(I \cap Indices(s, b)) \in Seq(DOMAIN s)
  <2>1. \A J \in SUBSET DOMAIN s : Seq(J) \subseteq Seq(DOMAIN s)
    OBVIOUS
  <2>2. QED BY <1>2, <2>1, ListIs
<1>4. order \in Seq(DOMAIN s)
  <2>1. /\ SetToSeq(I \cap Indices(s, TRUE)) \in Seq(DOMAIN s)
        /\ SetToSeq(I \cap Indices(s, FALSE)) \in Seq(DOMAIN s)
    BY <1>3, Zenon
  <2>2. \A a, b \in Seq(DOMAIN s) : a \o b \in Seq(DOMAIN s)
    OBVIOUS
  <2>3. QED BY <2>1, <2>2, Zenon
<1> HIDE DEF order
<1>5. [k \in DOMAIN order |-> s[order[k]]] \in Seq(T)
  BY <1>4
<1>6. QED BY <1>5 DEF Picked, order

LEMMA SplitsAre ==
  ASSUME NEW u \in Setups, NEW split \in Splits(u.set, u.holdout)
  PROVE  /\ split.train \in Seq(ToSet(u.set))
         /\ split.test \in Seq(ToSet(u.set))
<1> DEFINE T == ToSet(u.set)
<1>1. u.set \in Seq(T) /\ u.holdout \in 0..99
  BY LoopAssumption
<1>2. \A I \in SUBSET DOMAIN u.set : Picked(u.set, I) \in Seq(T)
  BY <1>1, PickedIs
<1>3. <<>> \in Seq(T)
  OBVIOUS
<1> HIDE DEF T
<1>4. CASE u.holdout = 0
  <2>1. split = [train |-> u.set, test |-> <<>>]
    BY <1>4 DEF Splits
  <2>2. QED BY <1>1, <1>3, <2>1 DEF T
<1>5. CASE u.holdout # 0
  <2>1. PICK I \in SUBSET DOMAIN u.set :
          split = [train |-> Picked(u.set, DOMAIN u.set \ I), test |-> Picked(u.set, I)]
    BY <1>5 DEF Splits
  <2>2. /\ Picked(u.set, DOMAIN u.set \ I) \in Seq(T)
        /\ Picked(u.set, I) \in Seq(T)
    BY <1>2
  <2>3. QED BY <2>1, <2>2 DEF T
<1>6. QED BY <1>4, <1>5

-----------------------------------------------------------------------------
(* The first state.                                                        *)

LEMMA InitIInv == Init => IInv
<1> SUFFICES ASSUME Init PROVE IInv
  OBVIOUS
<1>1. PICK u \in Setups : \E split \in Splits(u.set, u.holdout) :
        /\ EvalInit(split.train \o split.test, Original)
        /\ train_size = Len(split.train)
  BY DEF Init
<1>2. PICK split \in Splits(u.set, u.holdout) :
        /\ EvalInit(split.train \o split.test, Original)
        /\ train_size = Len(split.train)
  BY <1>1
<1>3. /\ round = 0 /\ tested = Original /\ files = {} /\ broken = FALSE
      /\ job = [j \in Jobs |-> "done"] /\ used = [j \in Jobs |-> None]
      /\ pipe = [j \in Jobs |-> <<>>] /\ process = [j \in Jobs |-> "none"]
      /\ pending = [j \in Jobs |-> FALSE] /\ triggered = [j \in Jobs |-> FALSE]
  BY <1>2 DEF EvalInit
<1>4. /\ phase = "evaluate" /\ iteration = 1 /\ current = Original
      /\ history = <<>> /\ report = [shown |-> 0, best |-> 0, refreshes |-> TRUE]
      /\ output = None
  BY DEF Init
<1>5. SetOK
  <2>1. \A x \in ToSet(u.set) : x.should_trigger \in BOOLEAN
    BY LoopAssumption DEF ToSet
  <2>2. PICK a \in Seq(ToSet(u.set)), b \in Seq(ToSet(u.set)) :
          a = split.train /\ b = split.test
    BY <1>2, SplitsAre
  <2> DEFINE T == ToSet(u.set)
  <2>3. a \in Seq(T) /\ b \in Seq(T)
    OBVIOUS
  <2> HIDE DEF T
  <2>4. a \o b \in Seq(T) /\ Len(a) \in 0..Len(a \o b)
    BY <2>3
  <2>5. PICK c \in Seq(T) : c = a \o b
    BY <2>4
  <2>6. eval_set = c /\ train_size = Len(a)
    BY <1>2, <2>2, <2>5 DEF EvalInit
  <2>7. Len(c) \in Nat /\ DOMAIN c = 1..Len(c) /\ \A i \in DOMAIN c : c[i] \in T
    OBVIOUS
  <2>8. QED BY <2>1, <2>4, <2>5, <2>6, <2>7 DEF SetOK, T
<1>6. EvalInv
  <2>1. EvalTypeOK
    BY <1>3, LoopAssumption DEF EvalTypeOK
  <2>2. \A j \in Jobs : pipe[j] = <<>> /\ SaysWhatItUses(j)
    BY <1>3 DEF SaysWhatItUses
  <2>3. CommandFilesAreTemporary
    BY <1>3 DEF CommandFilesAreTemporary
  <2>4. pipe \in [Jobs -> Seq(Notes)]
    BY <1>3
  <2>5. QED BY <1>3, <2>1, <2>2, <2>3, <2>4 DEF EvalInv
<1>7. Waits
  BY <1>4, <1>3 DEF Waits
<1>8. LoopInv
  BY <1>4, LoopAssumption DEF LoopInv, Phases, Counted, Returned, ReportAgrees
<1>9. QED BY <1>5, <1>6, <1>7, <1>8 DEF IInv

-----------------------------------------------------------------------------
(* Steps of run_eval.                                                      *)

\* The jobs and their files stay what they are in the whole of a run_eval call.
Same == UNCHANGED <<eval_set, round, tested>>

LEMMA SameJobs ==
  ASSUME Same
  PROVE  /\ Jobs' = Jobs /\ Files' = Files /\ Notes' = Notes
         /\ \A j : OwnFile(j)' = OwnFile(j)
BY DEF Same, Jobs, Files, Notes, OwnFile

LEMMA OwnFiles ==
  ASSUME EvalTypeOK, NEW j \in Jobs
  PROVE  /\ OwnFile(j) \in [job : Jobs, round : 0..round, description : Descriptions]
         /\ OwnFile(j) \in Files
         /\ \A k \in Jobs : OwnFile(k) = OwnFile(j) => k = j
BY DEF EvalTypeOK, OwnFile, Files

LEMMA TemporaryIs ==
  LET Is == ~broken => \A f : f \in files <=>
                                 \E k \in Jobs : job[k] = "reads" /\ f = OwnFile(k)
  IN (CommandFilesAreTemporary <=> Is) /\ (CommandFilesAreTemporary <=> Is)'
BY DEF CommandFilesAreTemporary

LEMMA SpeakStep ==
  ASSUME EvalInv, NEW j \in Jobs, Speak(j) PROVE EvalInv'
<1>1. PICK f \in files \cup {None} :
        /\ used' = [used EXCEPT ![j] = f]
        /\ \E q \in ToolReports(f) \cup (IF f = None THEN {OtherReport} ELSE {}) :
             pipe' = [pipe EXCEPT ![j] = q]
  BY DEF Speak
<1>2. PICK q \in ToolReports(f) \cup {OtherReport} : pipe' = [pipe EXCEPT ![j] = q]
  BY <1>1, Zenon
<1>3. /\ Same /\ process[j] = "starts" /\ process' = [process EXCEPT ![j] = "spoke"]
      /\ UNCHANGED <<job, files, pending, triggered, broken>>
  BY DEF Speak, Same
<1>4. job[j] = "reads" /\ EvalTypeOK
  BY <1>3 DEF EvalInv
<1>5. q \in Seq(Notes)
  <2>1. f \in Files \cup {None} /\ None \in Files \cup {None}
    BY <1>4 DEF EvalTypeOK, Files
  <2>2. \A t \in {"tool", "delta", "stop", "assistant", "other"} :
          Event(t, f) \in Notes /\ Event(t, None) \in Notes
    BY <2>1 DEF Event, Notes
  <2>3. /\ <<Event("tool", None), Event("delta", f), Event("stop", None)>> \in Seq(Notes)
        /\ <<Event("assistant", f)>> \in Seq(Notes)
        /\ <<Event("other", None)>> \in Seq(Notes)
    BY <2>2
  <2>4. QED BY <2>3, Zenon DEF ToolReports, OtherReport
<1>6. EvalTypeOK'
  BY <1>1, <1>3, <1>4, SameJobs DEF EvalTypeOK, Same
<1>7. \A k \in Jobs : SaysWhatItUses(k)'
  <2>1. ASSUME NEW k \in Jobs, k # j PROVE SaysWhatItUses(k)'
    BY <1>1, <1>2, <1>3, <2>1, SameJobs DEF EvalInv, EvalTypeOK, SaysWhatItUses
  <2>2. \A i \in DOMAIN q : q[i].type \in {"delta", "assistant"} => q[i].names = f
    BY DEF ToolReports, OtherReport, Event
  <2>3. pipe'[j] = q /\ used'[j] = f
    BY <1>1, <1>2 DEF EvalInv, EvalTypeOK
  <2>4. SaysWhatItUses(j)'
    BY <1>3, <2>2, <2>3, SameJobs DEF SaysWhatItUses
  <2>5. QED BY <2>1, <2>4
<1>8. pipe' \in [Jobs -> Seq(Notes)]
  BY <1>2, <1>5 DEF EvalInv
<1>9. CommandFilesAreTemporary'
  BY <1>3, SameJobs, TemporaryIs DEF EvalInv
<1>10. \A k \in Jobs : job'[k] # "reads" => pipe'[k] = <<>> /\ process'[k] = "none"
  BY <1>2, <1>3, <1>4 DEF EvalInv, EvalTypeOK
<1>11. QED BY <1>3, <1>6, <1>7, <1>8, <1>9, <1>10, SameJobs DEF EvalInv

LEMMA ExitStep ==
  ASSUME EvalInv, NEW j \in Jobs, ClaudeExits(j) PROVE EvalInv'
<1>1. /\ Same /\ process[j] # "none" /\ process' = [process EXCEPT ![j] = "exited"]
      /\ used' = [used EXCEPT ![j] = None] /\ pipe' = [pipe EXCEPT ![j] = <<>>]
      /\ \E x : x = FALSE /\ pending' = [pending EXCEPT ![j] = x]
      /\ UNCHANGED <<job, files, triggered, broken>>
  BY DEF ClaudeExits, Same
<1>2. job[j] = "reads" /\ EvalTypeOK
  BY <1>1 DEF EvalInv
<1>3. EvalTypeOK'
  <2>1. pending' \in [Jobs -> BOOLEAN]
    BY <1>1, <1>2 DEF EvalTypeOK
  <2>2. QED BY <1>1, <1>2, <2>1, SameJobs DEF EvalTypeOK, Same
<1>4. /\ pipe' \in [Jobs -> Seq(Notes)]
      /\ \A k \in Jobs : pipe'[k] = IF k = j THEN <<>> ELSE pipe[k]
      /\ \A k \in Jobs : used'[k] = IF k = j THEN None ELSE used[k]
  <2>1. <<>> \in Seq(Notes)
    OBVIOUS
  <2>2. QED BY <1>1, <1>2, <2>1 DEF EvalInv, EvalTypeOK
<1>5. \A k \in Jobs : SaysWhatItUses(k)'
  BY <1>1, <1>4, SameJobs DEF EvalInv, SaysWhatItUses
<1>6. CommandFilesAreTemporary'
  BY <1>1, SameJobs, TemporaryIs DEF EvalInv
<1>7. \A k \in Jobs : job'[k] # "reads" => pipe'[k] = <<>> /\ process'[k] = "none"
  BY <1>1, <1>2, <1>4 DEF EvalInv, EvalTypeOK
<1>8. QED BY <1>1, <1>3, <1>4, <1>5, <1>6, <1>7, SameJobs DEF EvalInv

LEMMA LaunchStep ==
  ASSUME EvalInv, NEW j \in Jobs, Launch(j) PROVE EvalInv'
<1>1. /\ Same /\ job[j] = "queued" /\ job' = [job EXCEPT ![j] = "reads"]
      /\ files' = files \cup {OwnFile(j)}
      /\ process' = [process EXCEPT ![j] = "starts"]
      /\ UNCHANGED <<used, pipe, pending, triggered, broken>>
  BY DEF Launch, NextUp, Same
<1>2. EvalTypeOK
  BY DEF EvalInv
<1>3. EvalTypeOK'
  BY <1>1, <1>2, SameJobs, OwnFiles DEF EvalTypeOK, Same
<1>4. \A k \in Jobs : SaysWhatItUses(k)'
  BY <1>1, SameJobs DEF EvalInv, SaysWhatItUses
<1>5. CommandFilesAreTemporary'
  <2>1. \A k \in Jobs : job'[k] = "reads" <=> job[k] = "reads" \/ k = j
    BY <1>1, <1>2 DEF EvalTypeOK
  <2>2. QED BY <1>1, <2>1, SameJobs, TemporaryIs DEF EvalInv
<1>6. \A k \in Jobs : job'[k] # "reads" => pipe'[k] = <<>> /\ process'[k] = "none"
  BY <1>1, <1>2 DEF EvalInv, EvalTypeOK
<1>7. QED BY <1>1, <1>3, <1>4, <1>5, <1>6, SameJobs DEF EvalInv

\* The files of the others stay, whatever they are used for.
LEMMA ReturnStep ==
  ASSUME EvalInv, NEW j \in Jobs, NEW result \in BOOLEAN, Return(j, result)
  PROVE  EvalInv'
<1>1. /\ Same /\ job' = [job EXCEPT ![j] = "done"]
      /\ triggered' = [triggered EXCEPT ![j] = result]
      /\ files' = files \ {OwnFile(j)}
      /\ used' = [k \in Jobs |-> IF k = j \/ used[k] = OwnFile(j) THEN None ELSE used[k]]
      /\ pipe' = [pipe EXCEPT ![j] = <<>>] /\ process' = [process EXCEPT ![j] = "none"]
      /\ \E x : x = FALSE /\ pending' = [pending EXCEPT ![j] = x]
      /\ UNCHANGED broken
  BY DEF Return, Same
<1>2. EvalTypeOK
  BY DEF EvalInv
<1>3. EvalTypeOK'
  <2>1. pending' \in [Jobs -> BOOLEAN]
    BY <1>1, <1>2 DEF EvalTypeOK
  <2>2. triggered' \in [Jobs -> BOOLEAN]
    BY <1>1, <1>2 DEF EvalTypeOK
  <2>3. used' \in [Jobs -> files' \cup {None}]
    BY <1>1, <1>2 DEF EvalTypeOK
  <2>4. QED BY <1>1, <1>2, <2>1, <2>2, <2>3, SameJobs DEF EvalTypeOK, Same
<1>4. /\ pipe' \in [Jobs -> Seq(Notes)]
      /\ \A k \in Jobs : pipe'[k] = IF k = j THEN <<>> ELSE pipe[k]
  <2>1. <<>> \in Seq(Notes)
    OBVIOUS
  <2>2. QED BY <1>1, <2>1 DEF EvalInv
<1>5. \A k \in Jobs : SaysWhatItUses(k)'
  <2>1. SaysWhatItUses(j)'
    BY <1>1, <1>4 DEF SaysWhatItUses
  <2>2. ASSUME NEW k \in Jobs, k # j, NEW i \in DOMAIN pipe[k],
               pipe[k][i].type \in {"delta", "assistant"}, pipe[k][i].names = OwnFile(k)
        PROVE  used'[k] = OwnFile(k)
    <3>1. used[k] = OwnFile(k)
      BY <2>2 DEF EvalInv, SaysWhatItUses
    <3>2. OwnFile(k) # OwnFile(j)
      BY <1>2, <2>2, OwnFiles
    <3>3. QED BY <1>1, <2>2, <3>1, <3>2
  <2>3. ASSUME NEW k \in Jobs, k # j PROVE SaysWhatItUses(k)'
    BY <1>1, <1>4, <2>2, <2>3, SameJobs DEF SaysWhatItUses
  <2>4. QED BY <2>1, <2>3
<1>6. CommandFilesAreTemporary'
  <2>1. \A k \in Jobs : job'[k] = "reads" <=> job[k] = "reads" /\ k # j
    BY <1>1, <1>2 DEF EvalTypeOK
  <2>2. \A k \in Jobs : OwnFile(k) = OwnFile(j) => k = j
    BY <1>2, OwnFiles
  <2>3. broken' = broken /\ \A f : f \in files' <=> f \in files /\ f # OwnFile(j)
    BY <1>1
  <2>4. /\ Jobs' = Jobs /\ \A k : OwnFile(k)' = OwnFile(k)
        /\ ~broken => \A f : f \in files <=> \E k \in Jobs : job[k] = "reads" /\ f = OwnFile(k)
    BY <1>1, SameJobs, TemporaryIs DEF EvalInv
  <2>5. ASSUME ~broken, NEW f
        PROVE  f \in files' <=> \E k \in Jobs : job'[k] = "reads" /\ f = OwnFile(k)
    BY <2>1, <2>2, <2>3, <2>4, <2>5
  <2>6. QED BY <2>3, <2>4, <2>5, TemporaryIs
<1>7. \A k \in Jobs : job'[k] # "reads" => pipe'[k] = <<>> /\ process'[k] = "none"
  BY <1>1, <1>2, <1>4 DEF EvalInv, EvalTypeOK
<1>8. QED BY <1>1, <1>3, <1>4, <1>5, <1>6, <1>7, SameJobs DEF EvalInv

\* What a worker makes of a chunk: the first event that decides, or what is left.
LEMMA ReadIs ==
  ASSUME EvalInv, NEW j \in Jobs, Read(j)
  PROVE  \/ \E result \in BOOLEAN :
              /\ Return(j, result)
              /\ result => used[j] = OwnFile(j)
         \/ /\ Same /\ UNCHANGED <<job, files, used, process, triggered, broken>>
            /\ \E pend \in BOOLEAN : pending' = [pending EXCEPT ![j] = pend]
            /\ \E n \in 1..Len(pipe[j]) :
                 pipe' = [pipe EXCEPT ![j] = SubSeq(pipe[j], n + 1, Len(pipe[j]))]
            /\ job[j] = "reads"
<1>1. PICK n \in DOMAIN pipe[j] :
        LET chunk   == SubSeq(pipe[j], 1, n)
            pend    == pending[j] \/ \E k \in 1..n : chunk[k].type = "tool"
            decided == {i \in 1..n : Decides(j, chunk[i], pend)}
            first   == chunk[CHOOSE i \in decided : \A k \in decided : i <= k]
        IN IF decided # {}
           THEN Return(j, Hit(j, first, pend) /\ NamesOwn(j, first.names))
           ELSE /\ pipe' = [pipe EXCEPT ![j] = SubSeq(@, n + 1, Len(@))]
                /\ pending' = [pending EXCEPT ![j] = pend]
                /\ UNCHANGED <<eval_set, round, tested, job, files, used, process,
                               triggered, broken>>
  BY DEF Read
<1> DEFINE chunk   == SubSeq(pipe[j], 1, n)
           pend    == pending[j] \/ \E k \in 1..n : chunk[k].type = "tool"
           decided == {i \in 1..n : Decides(j, chunk[i], pend)}
           c       == CHOOSE i \in decided : \A k \in decided : i <= k
<1>2. job[j] = "reads"
  BY DEF Read
<1>3. n \in 1..Len(pipe[j]) /\ Len(pipe[j]) \in Nat
  BY DEF EvalInv
<1>4. CASE decided # {}
  <2>1. c \in 1..n
    <3>1. decided \in SUBSET Nat
      BY <1>3
    <3>2. \E i \in decided : \A k \in decided : i <= k
      BY <1>4, <3>1, FirstIs
    <3>3. c \in decided
      BY <3>2
    <3>4. QED BY <3>3
  <2>2. chunk[c] = pipe[j][c] /\ c \in DOMAIN pipe[j]
    <3>1. pipe[j] \in Seq(Notes)
      BY DEF EvalInv
    <3>2. \A q \in Seq(Notes) : \A m \in 1..Len(q) : \A i \in 1..m :
            SubSeq(q, 1, m)[i] = q[i] /\ i \in DOMAIN q
      OBVIOUS
    <3>3. QED BY <1>3, <2>1, <3>1, <3>2
  <2> DEFINE result == Hit(j, chunk[c], pend) /\ NamesOwn(j, chunk[c].names)
  <2>3. Return(j, result)
    BY <1>1, <1>4
  <2>4. result => used[j] = OwnFile(j)
    <3> HIDE DEF chunk, c, pend
    <3>1. ASSUME result
          PROVE  /\ pipe[j][c].type \in {"delta", "assistant"}
                 /\ pipe[j][c].names = OwnFile(j)
      BY <2>2, <3>1 DEF Hit, NamesOwn
    <3>2. QED BY <2>2, <3>1 DEF EvalInv, SaysWhatItUses
  <2>5. result \in BOOLEAN
    BY DEF Hit, NamesOwn
  <2> HIDE DEF result
  <2>6. QED BY <2>3, <2>4, <2>5
<1>5. CASE decided = {}
  <2>1. /\ Same /\ UNCHANGED <<job, files, used, process, triggered, broken>>
        /\ pending' = [pending EXCEPT ![j] = pend]
        /\ pipe' = [pipe EXCEPT ![j] = SubSeq(@, n + 1, Len(@))]
    BY <1>1, <1>5 DEF Same
  <2>2. pend \in BOOLEAN
    BY DEF EvalInv, EvalTypeOK
  <2> HIDE DEF pend
  <2>3. QED BY <1>2, <1>3, <2>1, <2>2
<1>6. QED BY <1>4, <1>5

LEMMA ReadStep ==
  ASSUME EvalInv, NEW j \in Jobs, Read(j) PROVE EvalInv'
<1>1. CASE \E result \in BOOLEAN : Return(j, result)
  BY <1>1, ReturnStep
<1>2. ASSUME Same, UNCHANGED <<job, files, used, process, triggered, broken>>,
             NEW pend \in BOOLEAN, pending' = [pending EXCEPT ![j] = pend],
             NEW n \in 1..Len(pipe[j]),
             pipe' = [pipe EXCEPT ![j] = SubSeq(pipe[j], n + 1, Len(pipe[j]))],
             job[j] = "reads"
      PROVE  EvalInv'
  <2>1. EvalTypeOK'
    BY <1>2, SameJobs DEF EvalInv, EvalTypeOK, Same
  <2>2. PICK q \in Seq(Notes) : q = pipe[j]
    BY DEF EvalInv
  <2>3. PICK left \in Seq(Notes) :
          /\ left = SubSeq(q, n + 1, Len(q))
          /\ \A i \in DOMAIN left : i + n \in DOMAIN q /\ left[i] = q[i + n]
    <3>1. n \in 1..Len(q) /\ Len(q) \in Nat
      BY <1>2, <2>2
    <3> DEFINE left == SubSeq(q, n + 1, Len(q))
    <3>2. /\ left \in Seq(Notes) /\ Len(left) = Len(q) - n
          /\ \A i \in 1..(Len(q) - n) : left[i] = q[i + n]
      BY <3>1
    <3>3. DOMAIN left = 1..(Len(q) - n)
      BY <3>1, <3>2
    <3>4. \A i \in 1..(Len(q) - n) : i + n \in DOMAIN q
      BY <3>1
    <3> HIDE DEF left
    <3>5. QED BY <3>2, <3>3, <3>4 DEF left
  <2>4. /\ pipe' \in [Jobs -> Seq(Notes)]
        /\ \A k \in Jobs : pipe'[k] = IF k = j THEN left ELSE pipe[k]
    BY <1>2, <2>2, <2>3 DEF EvalInv
  <2>5. \A k \in Jobs : SaysWhatItUses(k)'
    <3>1. SaysWhatItUses(j)'
      BY <1>2, <2>2, <2>3, <2>4, SameJobs DEF EvalInv, SaysWhatItUses
    <3>2. ASSUME NEW k \in Jobs, k # j PROVE SaysWhatItUses(k)'
      BY <1>2, <2>4, <3>2, SameJobs DEF EvalInv, SaysWhatItUses
    <3>3. QED BY <3>1, <3>2
  <2>6. CommandFilesAreTemporary'
    BY <1>2, SameJobs, TemporaryIs DEF EvalInv
  <2>7. \A k \in Jobs : job'[k] # "reads" => pipe'[k] = <<>> /\ process'[k] = "none"
    BY <1>2, <2>4 DEF EvalInv
  <2>8. QED BY <1>2, <2>1, <2>4, <2>5, <2>6, <2>7, SameJobs DEF EvalInv
<1>3. QED BY <1>1, <1>2, ReadIs

LEMMA BreakStep ==
  ASSUME EvalInv, PoolBreaks PROVE EvalInv'
<1>1. /\ Same /\ broken' = TRUE /\ job' = [k \in Jobs |-> "done"]
      /\ used' = [k \in Jobs |-> None] /\ pipe' = [k \in Jobs |-> <<>>]
      /\ process' = [k \in Jobs |-> "none"] /\ pending' = [k \in Jobs |-> FALSE]
      /\ UNCHANGED <<files, triggered>>
  BY DEF PoolBreaks, Same
<1>2. EvalTypeOK'
  BY <1>1, SameJobs DEF EvalInv, EvalTypeOK, Same
<1>3. pipe' \in [Jobs -> Seq(Notes)]
  BY <1>1
<1>4. \A k \in Jobs : SaysWhatItUses(k)'
  BY <1>1 DEF SaysWhatItUses
<1>5. CommandFilesAreTemporary'
  BY <1>1 DEF CommandFilesAreTemporary
<1>6. QED BY <1>1, <1>2, <1>3, <1>4, <1>5, SameJobs DEF EvalInv

\* A call of run_eval begins when nothing of the last one is left, but for the files
\* of a pool that broke.
LEMMA SubmitStep ==
  ASSUME EvalInv, NEW d \in Descriptions, \A j \in Jobs : job[j] = "done", Submit(d)
  PROVE  EvalInv'
<1>1. /\ round' = round + 1 /\ tested' = d /\ job' = [k \in Jobs |-> "queued"]
      /\ triggered' = [k \in Jobs |-> FALSE]
      /\ UNCHANGED <<eval_set, files, used, pipe, process, pending, broken>>
  BY DEF Submit, claude
<1>2. Jobs' = Jobs /\ Files' = Files /\ Notes' = Notes
  BY <1>1 DEF Jobs, Files, Notes
<1>3. EvalTypeOK'
  <2>1. round \in Nat /\ 0..round \subseteq 0..(round + 1) /\ round + 1 \in Nat
    BY DEF EvalInv, EvalTypeOK
  <2>2. files \subseteq [job : Jobs, round : 0..(round + 1), description : Descriptions]
    BY <2>1 DEF EvalInv, EvalTypeOK
  <2>3. QED BY <1>1, <1>2, <2>1, <2>2 DEF EvalInv, EvalTypeOK
<1>4. \A k \in Jobs : pipe[k] = <<>> /\ process[k] = "none"
  BY DEF EvalInv
<1>5. \A k \in Jobs : SaysWhatItUses(k)'
  BY <1>1, <1>4 DEF SaysWhatItUses
<1>6. CommandFilesAreTemporary'
  BY <1>1, <1>2, TemporaryIs DEF EvalInv
<1>7. QED BY <1>1, <1>2, <1>3, <1>4, <1>5, <1>6 DEF EvalInv

\* Steps of run_eval, and what they leave alone.
LEMMA EvalStep ==
  ASSUME EvalInv, EvalNext
  PROVE  EvalInv' /\ Same /\ \E j \in Jobs : job[j] # "done"
<1>1. CASE PoolBreaks
  BY <1>1, BreakStep DEF PoolBreaks, Same
<1>2. ASSUME NEW j \in Jobs, Speak(j) \/ ClaudeExits(j)
      PROVE  EvalInv' /\ Same /\ job[j] # "done"
  <2>1. Same /\ process[j] # "none"
    BY <1>2 DEF Speak, ClaudeExits, Same
  <2>2. QED BY <1>2, <2>1, SpeakStep, ExitStep DEF EvalInv
<1>3. ASSUME NEW j \in Jobs, Worker(j)
      PROVE  EvalInv' /\ Same /\ job[j] # "done"
  <2>1. FALSE \in BOOLEAN
    OBVIOUS
  <2>2. CASE Launch(j)
    BY <2>2, LaunchStep DEF Launch, NextUp, Same
  <2>3. CASE LaunchFails(j) \/ Gone(j) \/ TimeOut(j)
    <3>1. Return(j, FALSE) /\ job[j] # "done"
      BY <2>3 DEF LaunchFails, Gone, TimeOut, NextUp
    <3>2. EvalInv'
      BY <2>1, <3>1, ReturnStep, Zenon
    <3>3. QED BY <3>1, <3>2 DEF Return, Same
  <2>4. CASE Read(j)
    <3>1. Same
      BY <2>4, ReadIs DEF Return, Same
    <3>2. QED BY <2>4, <3>1, ReadStep DEF Read
  <2>5. QED BY <1>3, <2>2, <2>3, <2>4 DEF Worker
<1>4. QED BY <1>1, <1>2, <1>3 DEF EvalNext

\* Only reading the job's own file counts.
LEMMA TriggerMeans ==
  ASSUME EvalInv, EvalNext, NEW j \in Jobs, ~triggered[j], triggered'[j]
  PROVE  used[j] = OwnFile(j)
<1>1. ASSUME NEW k \in Jobs, Return(k, FALSE) PROVE FALSE
  <2>1. PICK x : x = FALSE /\ triggered' = [triggered EXCEPT ![k] = x]
    BY <1>1 DEF Return
  <2>2. QED BY <2>1 DEF EvalInv, EvalTypeOK
<1>2. triggered' # triggered
  OBVIOUS
<1>3. PICK k \in Jobs : Read(k)
  BY <1>1, <1>2 DEF EvalNext, PoolBreaks, Speak, ClaudeExits, Worker, Launch,
                    LaunchFails, Gone, TimeOut
<1>4. PICK result \in BOOLEAN : /\ triggered' = [triggered EXCEPT ![k] = result]
                                /\ result => used[k] = OwnFile(k)
  BY <1>2, <1>3, ReadIs DEF Return
<1>5. j = k /\ result
  BY <1>4 DEF EvalInv, EvalTypeOK
<1>6. QED BY <1>4, <1>5

-----------------------------------------------------------------------------
(* Steps of the loop.                                                      *)

\* The eval set and its split never change, and nor does what they mean.
LEMMA FrozenIs ==
  ASSUME UNCHANGED <<eval_set, train_size>>
  PROVE  /\ Jobs' = Jobs /\ Outcomes' = Outcomes /\ Entries' = Entries
         /\ DistinctQueries' = DistinctQueries /\ test_size' = test_size
         /\ TrainQueries' = TrainQueries /\ (SetOK => SetOK')
         /\ \A h : Split(h)' <=> Split(h)
BY DEF Jobs, Outcomes, Queries, Entries, DistinctQueries, test_size, TrainQueries,
       SetOK, Split

\* While the history stays as it is, so does what it says.
LEMMA HistoryIs ==
  ASSUME UNCHANGED <<eval_set, train_size, history>>
  PROVE  /\ Best' = Best /\ BestRow' = BestRow /\ Renders' = Renders
         /\ Failed' = Failed
BY DEF Best, BestRow, FirstBest, TestPassed, TrainPassed, Passed, test_size, Renders, Failed

\* Steps that leave the loop where it is.
LEMMA LoopStays ==
  ASSUME LoopInv, UNCHANGED <<eval_set, loopVars>> PROVE LoopInv'
<1>1. UNCHANGED <<eval_set, train_size, reporting, phase, iteration, current, history,
                  report, output>>
  BY DEF loopVars
<1>2. Counted' /\ Returned' /\ ReportAgrees'
  BY <1>1, FrozenIs, HistoryIs DEF LoopInv, Counted, Returned, ReportAgrees
<1>3. \A i \in DOMAIN history : Split(history[i])'
  BY <1>1, FrozenIs DEF LoopInv
<1>4. QED BY <1>1, <1>2, <1>3, FrozenIs DEF LoopInv

\* Steps that do not add to the history.
LEMMA HistoryStays ==
  ASSUME LoopInv, UNCHANGED <<eval_set, train_size, reporting, history>>,
         phase' \in Phases, iteration' \in 1..MaxIterations, current' \in Descriptions,
         report'.shown \in 0..Len(history), report'.refreshes \in BOOLEAN,
         Counted', Returned', ReportAgrees'
  PROVE  LoopInv'
<1>1. \A i \in DOMAIN history : Split(history[i])'
  BY FrozenIs DEF LoopInv
<1>2. QED BY <1>1, FrozenIs DEF LoopInv

LEMMA EvaluateStep ==
  ASSUME IInv, Evaluate PROVE IInv'
<1>1. /\ phase = "evaluate" /\ phase' = "running" /\ Submit(current)
      /\ UNCHANGED <<eval_set, train_size, reporting, iteration, current, history,
                     report, output>>
  BY DEF Evaluate, Submit, Goto
<1>2. EvalInv'
  BY <1>1, SubmitStep DEF IInv, Waits, LoopInv
<1>3. Waits'
  BY <1>1 DEF Waits, Submit
<1>4. Counted' /\ Returned' /\ ReportAgrees'
  BY <1>1 DEF IInv, LoopInv, Counted, Returned, ReportAgrees
<1>5. LoopInv'
  BY <1>1, <1>4, HistoryStays DEF IInv, LoopInv, Phases
<1>6. QED BY <1>1, <1>2, <1>3, <1>5, FrozenIs DEF IInv

LEMMA EvalKept ==
  ASSUME EvalInv, Same,
         UNCHANGED <<job, files, used, pipe, process, pending, triggered, broken>>
  PROVE  EvalInv'
<1>1. EvalTypeOK'
  BY SameJobs DEF EvalInv, EvalTypeOK, Same
<1>2. \A k \in Jobs : SaysWhatItUses(k)'
  BY SameJobs DEF EvalInv, SaysWhatItUses
<1>3. CommandFilesAreTemporary'
  BY SameJobs, TemporaryIs DEF EvalInv
<1>4. QED BY <1>1, <1>2, <1>3, SameJobs DEF EvalInv

\* What run_eval leaves is left alone by the other steps of the loop.
LEMMA EvalStays ==
  ASSUME IInv, UNCHANGED <<evalVars, train_size>>, phase # "running", phase' # "running"
  PROVE  SetOK' /\ EvalInv' /\ Waits'
<1>1. Same /\ UNCHANGED <<eval_set, train_size, job, files, used, pipe, process, pending,
                          triggered, broken>>
  BY DEF evalVars, claude, Same
<1>2. EvalInv'
  BY <1>1, EvalKept DEF IInv
<1>3. QED BY <1>1, <1>2, FrozenIs DEF IInv, Waits

LEMMA HtmlIs ==
  ASSUME NEW b \in BOOLEAN, LoopInv
  PROVE  /\ Html(b).shown = Len(history) /\ Len(history) \in 0..Len(history)
         /\ Html(b).best = BestRow /\ Html(b).refreshes \in BOOLEAN
<1>1. Len(history) \in Nat
  BY DEF LoopInv
<1>2. QED BY <1>1 DEF Html

LEMMA WriteReportStep ==
  ASSUME IInv, WriteReport PROVE IInv'
<1>1. /\ phase = "report" /\ phase' \in {"crashed", "judge"}
      /\ UNCHANGED <<evalVars, train_size, reporting, iteration, current, history, output>>
      /\ UNCHANGED report \/ \E b \in BOOLEAN : report' = Html(b)
  BY DEF WriteReport, Goto
<1>2. UNCHANGED eval_set /\ SetOK' /\ EvalInv' /\ Waits'
  BY <1>1, EvalStays DEF evalVars
<1>3. Counted' /\ Returned' /\ ReportAgrees'
  BY <1>1 DEF IInv, LoopInv, Counted, Returned, ReportAgrees, Phases
<1>4. report'.shown \in 0..Len(history) /\ report'.refreshes \in BOOLEAN
  BY <1>1, HtmlIs DEF IInv, LoopInv
<1>5. LoopInv'
  BY <1>1, <1>2, <1>3, <1>4, HistoryStays DEF IInv, LoopInv, Phases
<1>6. QED BY <1>2, <1>5 DEF IInv

LEMMA JudgeStep ==
  ASSUME IInv, Judge PROVE IInv'
<1>1. /\ phase = "judge" /\ phase' \in {"pick", "improve"}
      /\ phase' = "improve" => iteration # MaxIterations
      /\ UNCHANGED <<evalVars, train_size, reporting, iteration, current, history, report,
                     output>>
  BY DEF Judge, Goto
<1>2. UNCHANGED eval_set /\ SetOK' /\ EvalInv' /\ Waits'
  BY <1>1, EvalStays DEF evalVars
<1>3. Counted' /\ Returned' /\ ReportAgrees'
  BY <1>1, LoopAssumption DEF IInv, LoopInv, Counted, Returned, ReportAgrees, Phases
<1>4. LoopInv'
  BY <1>1, <1>2, <1>3, HistoryStays DEF IInv, LoopInv, Phases
<1>5. QED BY <1>2, <1>4 DEF IInv

\* There is always another iteration for a new description.
LEMMA ImproveStep ==
  ASSUME IInv, Improve \/ Rewrite PROVE IInv'
<1>1. /\ phase \in {"improve", "rewrite"}
      /\ UNCHANGED <<evalVars, train_size, reporting, history, report, output>>
      /\ \/ ClaudeFails
         \/ \E d \in Descriptions : Improved(d)
         \/ Goto("rewrite") /\ UNCHANGED <<iteration, current>>
  BY DEF Improve, Rewrite
<1>2. iteration < MaxIterations /\ output = None
  BY <1>1 DEF IInv, LoopInv, Counted, Returned
<1>3. /\ phase' \in {"crashed", "evaluate", "rewrite"} /\ current' \in Descriptions
      /\ iteration' = IF phase' = "evaluate" THEN iteration + 1 ELSE iteration
      /\ phase' # "evaluate" => UNCHANGED current
  BY <1>1, <1>2 DEF ClaudeFails, Improved, Goto, IInv, LoopInv
<1>4. UNCHANGED eval_set /\ SetOK' /\ EvalInv' /\ Waits'
  BY <1>1, <1>3, EvalStays DEF evalVars
<1>5. iteration' \in 1..MaxIterations
  BY <1>2, <1>3, LoopAssumption DEF IInv, LoopInv
<1>6. Len(history) = iteration /\ iteration \in Nat
  BY <1>1 DEF IInv, LoopInv, Counted, Phases
<1>7. Counted' /\ Returned' /\ ReportAgrees'
  BY <1>1, <1>2, <1>3, <1>6 DEF IInv, LoopInv, Counted, Returned, ReportAgrees, Phases
<1>8. LoopInv'
  BY <1>1, <1>3, <1>4, <1>5, <1>7, HistoryStays DEF IInv, LoopInv, Phases
<1>9. QED BY <1>4, <1>8 DEF IInv

LEMMA PickStep ==
  ASSUME IInv, Pick PROVE IInv'
<1>1. /\ phase = "pick" /\ phase' = "final"
      /\ output' = [best_description |-> history[Best].description,
                    best_iteration |-> Best, final_description |-> current]
      /\ UNCHANGED <<evalVars, train_size, reporting, iteration, current, history, report>>
  BY DEF Pick, Goto
<1>2. UNCHANGED eval_set /\ SetOK' /\ EvalInv' /\ Waits'
  BY <1>1, EvalStays DEF evalVars
<1>3. /\ Len(history) = iteration /\ history[Len(history)].description = current
      /\ iteration \in 1..MaxIterations
  BY <1>1 DEF IInv, LoopInv, Counted, Phases
<1>4. Counted' /\ ReportAgrees'
  BY <1>1, <1>3 DEF Counted, ReportAgrees, Phases
<1>5. Returned'
  BY <1>1, <1>2, <1>3, HistoryIs, LoopAssumption DEF Returned
<1>6. LoopInv'
  BY <1>1, <1>2, <1>4, <1>5, HistoryStays DEF IInv, LoopInv, Phases
<1>7. QED BY <1>2, <1>6 DEF IInv

\* Where the report can be rendered there are results of queries held out, so it
\* scores as the loop does.
LEMMA RowIsBest ==
  ASSUME SetOK, LoopInv, Len(history) > 0, Renders, DistinctQueries
  PROVE  BestRow = Best
<1>1. 1 \in DOMAIN history /\ history[1] \in ToSet(history)
  BY DEF LoopInv, ToSet
<1>2. history[1].test_results # None /\ Split(history[1])
  BY <1>1 DEF Renders, LoopInv
<1>3. test_size \in Nat
  BY DEF test_size, SetOK
<1>4. test_size > 0 /\ history[1].test_results # {}
  BY <1>2, <1>3 DEF Split
<1>5. QED BY <1>2, <1>4 DEF BestRow, Best

LEMMA FinalReportStep ==
  ASSUME IInv, FinalReport PROVE IInv'
<1>1. /\ phase = "final" /\ phase' \in {"crashed", "finished"}
      /\ UNCHANGED <<evalVars, train_size, reporting, iteration, current, history, output>>
      /\ UNCHANGED report \/ \E b \in BOOLEAN : report' = Html(b)
      /\ phase' = "finished" /\ reporting =>
           Renders /\ \E b \in BOOLEAN : report' = Html(b)
  BY DEF FinalReport, Goto
<1>2. UNCHANGED eval_set /\ SetOK' /\ EvalInv' /\ Waits'
  BY <1>1, EvalStays DEF evalVars
<1>3. Counted' /\ Returned'
  BY <1>1, <1>2, HistoryIs DEF IInv, LoopInv, Counted, Returned, Phases
<1>4. ReportAgrees'
  <2>1. output.best_iteration = Best /\ Len(history) > 0
    BY <1>1 DEF IInv, LoopInv, Returned
  <2>2. DistinctQueries' = DistinctQueries
    BY <1>1, <1>2, FrozenIs
  <2>3. ASSUME phase' = "finished", reporting, DistinctQueries
        PROVE  report'.best = output.best_iteration /\ report'.shown = Len(history)
    BY <1>1, <2>1, <2>3, RowIsBest, HtmlIs DEF IInv
  <2>4. QED BY <1>1, <2>2, <2>3 DEF ReportAgrees
<1>5. report'.shown \in 0..Len(history) /\ report'.refreshes \in BOOLEAN
  BY <1>1, HtmlIs DEF IInv, LoopInv
<1>6. LoopInv'
  BY <1>1, <1>2, <1>3, <1>4, <1>5, HistoryStays DEF IInv, LoopInv, Phases
<1>7. QED BY <1>2, <1>6 DEF IInv

LEMMA ResultIs ==
  ASSUME SetOK, NEW i \in DOMAIN eval_set
  PROVE  Result(i) \in Outcomes /\ Result(i).query = eval_set[i].query
<1> DEFINE q == eval_set[i].query
           reached == 100 * Triggers(q) >= ThresholdPct * Cardinality(JobsFor(q))
<1>1. PICK b \in BOOLEAN : b = (reached <=> eval_set[i].should_trigger)
  OBVIOUS
<1>2. Result(i) = [query |-> q, should_trigger |-> eval_set[i].should_trigger, passed |-> b]
  BY <1>1, Zenon DEF Result
<1>3. q \in Queries /\ eval_set[i].should_trigger \in BOOLEAN
  BY DEF Queries, SetOK
<1>4. QED BY <1>2, <1>3 DEF Outcomes

\* Each query has a result.
LEMMA ResultsAre ==
  ASSUME SetOK, NEW results \in Results
  PROVE  /\ results \in SUBSET Outcomes
         /\ \A q \in Queries : \E r \in results : r.query = q
<1>1. PICK pick \in {p \in [Queries -> DOMAIN eval_set] :
                       \A q \in Queries : eval_set[p[q]].query = q} :
        results = {Result(pick[q]) : q \in Queries}
  BY DEF Results, Queries
<1>2. \A q \in Queries : pick[q] \in DOMAIN eval_set /\ eval_set[pick[q]].query = q
  OBVIOUS
<1>3. QED BY <1>1, <1>2, ResultIs

LEMMA CollectStep ==
  ASSUME IInv, Collect PROVE IInv'
<1>1. PICK results \in Results :
        LET train == {r \in results : r.query \in TrainQueries} IN
        history' = Append(history,
          [description |-> current, train_results |-> train,
           test_results |-> IF test_size > 0 THEN results \ train ELSE None])
  BY DEF Collect
<1>2. /\ phase = "running" /\ phase' = "report" /\ \A j \in Jobs : job[j] = "done"
      /\ UNCHANGED <<evalVars, train_size, reporting, iteration, current, report, output>>
      /\ UNCHANGED eval_set
  BY DEF Collect, Goto, evalVars
<1> DEFINE train == {r \in results : r.query \in TrainQueries}
           test == IF test_size > 0 THEN results \ train ELSE None
<1>3. PICK e : /\ e = [description |-> current, train_results |-> train,
                       test_results |-> test]
               /\ e.description = current /\ e.train_results = train
               /\ e.test_results = test /\ history' = Append(history, e)
  <2> DEFINE e == [description |-> current, train_results |-> train, test_results |-> test]
  <2>1. history' = Append(history, e)
    BY <1>1
  <2> HIDE DEF train, test
  <2>2. e.description = current /\ e.train_results = train /\ e.test_results = test
    OBVIOUS
  <2> HIDE DEF e
  <2>3. QED BY <2>1, <2>2 DEF e
<1>4. /\ results \in SUBSET Outcomes
      /\ \A q \in Queries : \E r \in results : r.query = q
  BY ResultsAre DEF IInv
<1>5. test_size \in Nat /\ SetOK
  BY DEF test_size, SetOK, IInv
<1>6. DistinctQueries /\ test_size > 0 => results \ train # {}
  <2>1. SUFFICES ASSUME DistinctQueries, test_size > 0 PROVE results \ train # {}
    OBVIOUS
  <2> DEFINE i == train_size + 1
  <2>2. /\ i \in DOMAIN eval_set /\ i \notin 1..train_size
        /\ 1..train_size \subseteq DOMAIN eval_set
    BY <1>5, <2>1 DEF SetOK, test_size
  <2>3. eval_set[i].query \notin TrainQueries /\ eval_set[i].query \in Queries
    BY <2>1, <2>2 DEF DistinctQueries, TrainQueries, Queries
  <2>4. QED BY <1>4, <2>3
<1>7. e \in Entries /\ Split(e)
  <2>1. test \in (SUBSET Outcomes) \cup {None} /\ train \in SUBSET Outcomes
    BY <1>4
  <2>2. current \in Descriptions
    BY DEF IInv, LoopInv
  <2>3. /\ \A r \in train : r.query \in TrainQueries
        /\ test_size = 0 => test = None
        /\ test_size > 0 => /\ test = results \ train
                            /\ \A r \in test : r.query \notin TrainQueries
    BY <1>5
  <2> HIDE DEF train, test
  <2>4. e \in Entries
    BY <1>3, <2>1, <2>2 DEF Entries
  <2>5. Split(e)
    BY <1>3, <1>4, <1>6, <2>3 DEF Split
  <2>6. QED BY <2>4, <2>5
<1> HIDE DEF train, test
<1>8. PICK old \in Seq(Entries) : old = history
  BY DEF IInv, LoopInv
<1>9. PICK new \in Seq(Entries) :
        /\ new = Append(old, e) /\ Len(new) = Len(old) + 1 /\ new[Len(new)] = e
        /\ \A i \in DOMAIN new : new[i] = e \/ (i \in DOMAIN old /\ new[i] = old[i])
        /\ Len(old) \in Nat
  <2> DEFINE new == Append(old, e)
  <2>1. /\ new \in Seq(Entries) /\ Len(new) = Len(old) + 1 /\ new[Len(old) + 1] = e
        /\ DOMAIN new = 1..(Len(old) + 1) /\ Len(old) \in Nat
        /\ \A i \in 1..Len(old) : i \in DOMAIN old /\ new[i] = old[i]
    BY <1>7
  <2> HIDE DEF new
  <2>2. \A i \in DOMAIN new : i \in 1..Len(old) \/ i = Len(old) + 1
    BY <2>1
  <2>3. QED BY <2>1, <2>2 DEF new
<1>10. history' = new
  BY <1>3, <1>8, <1>9
<1>11. \A i \in DOMAIN new : Split(new[i])'
  BY <1>2, <1>7, <1>8, <1>9, FrozenIs DEF IInv, LoopInv
<1>12. Len(old) = iteration - 1 /\ iteration \in 1..MaxIterations /\ output = None
  BY <1>2, <1>8 DEF IInv, LoopInv, Counted, Returned
<1>13. Counted' /\ Returned' /\ ReportAgrees'
  BY <1>2, <1>3, <1>9, <1>10, <1>12, LoopAssumption DEF Counted, Returned, ReportAgrees
<1>14. LoopInv'
  BY <1>2, <1>8, <1>9, <1>10, <1>11, <1>12, <1>13, FrozenIs, LoopAssumption
     DEF IInv, LoopInv, Phases
<1>15. SetOK' /\ EvalInv' /\ Waits'
  <2>1. SetOK'
    BY <1>2, <1>5, FrozenIs
  <2>2. Same /\ UNCHANGED <<job, files, used, pipe, process, pending, triggered, broken>>
    BY <1>2 DEF evalVars, claude, Same
  <2>3. EvalInv'
    BY <2>2, EvalKept DEF IInv
  <2>4. QED BY <1>2, <2>1, <2>2, <2>3, SameJobs DEF Waits
<1>16. QED BY <1>14, <1>15 DEF IInv

LEMMA NextIInv == IInv /\ [Next]_vars => IInv'
<1> SUFFICES ASSUME IInv, [Next]_vars PROVE IInv'
  OBVIOUS
<1>1. CASE UNCHANGED vars
  <2>1. Same /\ UNCHANGED <<job, files, used, pipe, process, pending, triggered, broken>>
    BY <1>1 DEF vars, evalVars, claude, Same
  <2>2. UNCHANGED loopVars /\ UNCHANGED eval_set
    BY <1>1, <2>1 DEF vars, Same
  <2>3. LoopInv' /\ EvalInv'
    BY <2>1, <2>2, EvalKept, LoopStays DEF IInv
  <2>4. SetOK'
    BY <2>2, FrozenIs DEF IInv, loopVars
  <2>5. Waits'
    BY <2>1, <2>2, SameJobs DEF IInv, Waits, Same, loopVars
  <2>6. QED BY <2>3, <2>4, <2>5 DEF IInv
<1>2. CASE EvalNext /\ UNCHANGED loopVars
  <2>1. EvalInv' /\ Same /\ phase = "running"
    BY <1>2, EvalStep DEF IInv, Waits
  <2>2. SetOK' /\ LoopInv'
    BY <1>2, <2>1, LoopStays, FrozenIs DEF IInv, Same, loopVars
  <2>3. Waits'
    BY <1>2, <2>1 DEF IInv, Waits, Same, loopVars
  <2>4. QED BY <2>1, <2>2, <2>3 DEF IInv
<1>3. CASE LoopStep
  BY <1>3, EvaluateStep, CollectStep, WriteReportStep, JudgeStep, ImproveStep, PickStep,
     FinalReportStep DEF LoopStep
<1>4. QED BY <1>1, <1>2, <1>3 DEF Next

-----------------------------------------------------------------------------
(* Theorems.                                                               *)

\* Every step of the loop, the workers and the claudes keeps the types.
THEOREM LoopTypes == Spec => []TypeOK
<1>1. ASSUME IInv PROVE TypeOK
  <2>1. \A h \in ToSet(history) : h \in Entries
    BY <1>1 DEF IInv, LoopInv, ToSet
  <2>2. ResultSets = SUBSET Outcomes
    BY DEF ResultSets, Outcomes, Queries
  <2>3. EvalTypeOK /\ train_size \in 0..Len(eval_set)
    BY <1>1 DEF IInv, EvalInv, SetOK
  <2>4. QED BY <1>1, <2>1, <2>2, <2>3 DEF IInv, LoopInv, Entries, TypeOK
<1>2. QED BY InitIInv, NextIInv, <1>1, PTL DEF Spec

\* Unless a pool broke, the commands directory holds the files of the queries that
\* run, and no others.
THEOREM NoFileIsLeft == Spec => []CommandFilesAreTemporary
<1>1. IInv => CommandFilesAreTemporary
  BY DEF IInv, EvalInv
<1>2. QED BY InitIInv, NextIInv, <1>1, PTL DEF Spec

\* No query that decides in the end is in a prompt, in any iteration.
THEOREM TestSetIsHeldOut == Spec => []HeldOut
<1>1. ASSUME IInv PROVE HeldOut
  <2>1. \A h \in ToSet(history) : Split(h)
    BY <1>1 DEF IInv, LoopInv, ToSet
  <2>2. test_size \in Nat
    BY <1>1 DEF IInv, SetOK, test_size
  <2>3. \A h \in ToSet(history) : h.test_results # None =>
          \A r \in h.test_results : r.query \notin TrainQueries
    BY <2>1, <2>2 DEF Split
  <2>4. PromptQueries \subseteq TrainQueries
    BY <2>1 DEF PromptQueries, Split
  <2>5. QED BY <2>3, <2>4 DEF HeldOut
<1>2. QED BY InitIInv, NextIInv, <1>1, PTL DEF Spec

LEMMA OutcomesFinite ==
  ASSUME SetOK PROVE IsFiniteSet(Outcomes)
<1>1. IsFiniteSet(DOMAIN eval_set)
  BY FS_Interval DEF SetOK
<1>2. IsFiniteSet(Queries)
  <2>1. [i \in DOMAIN eval_set |-> eval_set[i].query] \in Surjection(DOMAIN eval_set, Queries)
    BY DEF Surjection, Queries
  <2>2. QED BY <1>1, <2>1, FS_Surjection
<1> DEFINE Triples == (Queries \X BOOLEAN) \X BOOLEAN
           f == [x \in Triples |-> [query |-> x[1][1], should_trigger |-> x[1][2],
                                    passed |-> x[2]]]
<1>3. IsFiniteSet(BOOLEAN)
  <2>1. PICK a, b : BOOLEAN = {a} \cup {b}
    <3>1. BOOLEAN = {TRUE} \cup {FALSE}
      OBVIOUS
    <3>2. QED BY <3>1, Zenon
  <2>2. IsFiniteSet({a}) /\ IsFiniteSet({a} \cup {b})
    BY FS_Singleton, FS_AddElement
  <2>3. QED BY <2>1, <2>2
<1>4. IsFiniteSet(Triples)
  BY <1>2, <1>3, FS_Product
<1>5. f \in Surjection(Triples, Outcomes)
  <2>1. f \in [Triples -> Outcomes]
    BY DEF Outcomes
  <2>2. ASSUME NEW r \in Outcomes PROVE \E x \in Triples : f[x] = r
    <3>1. PICK q \in Queries, s \in BOOLEAN, b \in BOOLEAN :
            r = [query |-> q, should_trigger |-> s, passed |-> b]
      BY DEF Outcomes
    <3>2. << <<q, s>>, b >> \in Triples /\ f[<< <<q, s>>, b >>] = r
      BY <3>1
    <3>3. QED BY <3>2
  <2>3. QED BY <2>1, <2>2 DEF Surjection
<1>6. QED BY <1>4, <1>5, FS_Surjection

\* What run_loop returns was evaluated, and no other description did better on the
\* queries held out.
THEOREM BestIsReturned == Spec => []BestIsMeasured
<1>1. ASSUME IInv, test_size > 0, NEW k \in DOMAIN history PROVE TestPassed(k) \in Nat
  <2>1. history[k].test_results \in SUBSET Outcomes
    BY <1>1 DEF IInv, LoopInv, Split
  <2>2. {r \in history[k].test_results : r.passed} \in SUBSET Outcomes
    BY <2>1
  <2>3. Cardinality({r \in history[k].test_results : r.passed}) \in Nat
    BY <1>1, <2>2, OutcomesFinite, FS_Subset, FS_CardinalityType DEF IInv
  <2>4. QED BY <2>3 DEF TestPassed, Passed
<1>2. ASSUME IInv, Len(history) > 0, test_size > 0
      PROVE  \A k \in DOMAIN history : TestPassed(k) <= TestPassed(Best)
  <2> DEFINE n == Len(history)
             f == [k \in 1..n |-> TestPassed(k)]
  <2>1. n \in Nat \ {0} /\ DOMAIN history = 1..n
    BY <1>2 DEF IInv, LoopInv
  <2>2. \A k \in 1..n : f[k] = TestPassed(k) /\ f[k] \in Nat
    BY <1>1, <1>2, <2>1
  <2>3. PICK i \in 1..n : /\ \A k \in 1..n : f[k] <= f[i]
                          /\ \A k \in 1..(i - 1) : f[k] < f[i]
    <3>1. f \in [1..n -> Nat]
      BY <2>2
    <3> HIDE DEF f, n
    <3>2. QED BY <2>1, <3>1, BestExists
  <2>4. \A k \in 1..(i - 1) : k \in 1..n
    BY <2>1
  <2> HIDE DEF f
  <2>5. /\ i \in DOMAIN history
        /\ \A k \in DOMAIN history : TestPassed(k) <= TestPassed(i)
        /\ \A k \in 1..(i - 1) : TestPassed(k) < TestPassed(i)
    BY <2>1, <2>2, <2>3, <2>4
  <2>6. QED BY <1>2, <2>5 DEF Best, FirstBest
<1>3. ASSUME IInv, output # None
      PROVE  \E h \in ToSet(history) : h.description = output.final_description
  <2>1. Len(history) > 0 /\ output.final_description = history[Len(history)].description
    BY <1>3 DEF IInv, LoopInv, Returned
  <2>2. history[Len(history)] \in ToSet(history)
    BY <1>3, <2>1 DEF IInv, LoopInv, ToSet
  <2>3. QED BY <2>1, <2>2
<1>4. IInv => BestIsMeasured
  BY <1>2, <1>3 DEF IInv, LoopInv, Returned, BestIsMeasured
<1>5. QED BY InitIInv, NextIInv, <1>4, PTL DEF Spec

\* The last report highlights the iteration that run_loop returned.
THEOREM ReportIsRight == Spec => []ReportAgrees
<1>1. IInv => ReportAgrees
  BY DEF IInv, LoopInv
<1>2. QED BY InitIInv, NextIInv, <1>1, PTL DEF Spec

\* However many workers share the commands directory, a query counts as triggered
\* only by its own file, with the description under test.
THEOREM TriggersAreReal == Spec => NoFalseTrigger
<1>1. ASSUME IInv, Next, NEW j \in Jobs, ~triggered[j], triggered'[j]
      PROVE  used[j] = OwnFile(j) /\ used[j].description = current
  <2>1. CASE EvalNext
    <3>1. used[j] = OwnFile(j)
      BY <1>1, <2>1, TriggerMeans DEF IInv
    <3>2. tested = current
      BY <1>1, <2>1, EvalStep DEF IInv, Waits
    <3>3. QED BY <3>1, <3>2 DEF OwnFile
  <2>2. CASE LoopStep
    <3>1. UNCHANGED triggered \/ \E x : x = FALSE /\ triggered' = [k \in Jobs |-> x]
      BY <2>2 DEF LoopStep, Evaluate, Submit, Collect, WriteReport, Judge, Improve, Rewrite,
                  Pick, FinalReport, evalVars
    <3>2. QED BY <1>1, <3>1
  <2>3. QED BY <1>1, <2>1, <2>2 DEF Next
<1>2. IInv /\ [Next]_vars =>
        [\A j \in Jobs : ~triggered[j] /\ triggered'[j] =>
           used[j] = OwnFile(j) /\ used[j].description = current]_vars
  BY <1>1
<1>3. QED BY InitIInv, NextIInv, <1>2, PTL DEF Spec, NoFalseTrigger
=============================================================================
