------------------------------ MODULE SkillEval ------------------------------
(***************************************************************************)
(* run_eval.py of the skill-creator skill: does a description make Claude  *)
(* read the skill?  run_eval submits every query of the eval set a number  *)
(* of times to a pool of worker processes.  A worker puts a command file   *)
(* of its own, with a fresh name, into the project's commands directory,   *)
(* starts `claude -p` there and follows its output.                        *)
(*                                                                         *)
(* The directory is shared, so a claude process lists the command files of *)
(* the other workers too, and may pick any of them.  What a claude process *)
(* does is external: it uses a listed command, another tool, or none,      *)
(* reports that with or without partial messages, exits, or hangs.         *)
(***************************************************************************)
EXTENDS Naturals, Sequences, FiniteSets

CONSTANTS
  Descriptions,  \* texts a description may have
  RunsPerQuery,  \* runs_per_query
  NumWorkers,    \* max_workers of the process pool
  ThresholdPct,  \* trigger_threshold, in percent
  None           \* no command file, no description

ASSUME EvalAssumption ==
  /\ RunsPerQuery \in Nat \ {0} /\ NumWorkers \in Nat \ {0}
  /\ ThresholdPct \in 0..100
  /\ None \notin Descriptions

VARIABLES
  eval_set,   \* a sequence of [query, should_trigger]: never changes
  round,      \* number of the run_eval call
  tested,     \* the description this call evaluates
  job,        \* how far run_single_query is, for each submitted job
  files,      \* command files in .claude/commands
  used,       \* the command file a job's claude uses, or None
  pipe,       \* what claude has written and the worker has not read
  process,    \* the claude process
  pending,    \* pending_tool_name is set
  triggered,  \* result of a job that is done
  broken      \* the pool of this or an earlier call broke

claude   == <<used, pipe, process, pending>>
evalVars == <<eval_set, round, tested, job, files, claude, triggered, broken>>

\* One future per item of the set and run.
Jobs == {<<i, n>> : i \in DOMAIN eval_set, n \in 1..RunsPerQuery}

\* A job's command file: uuid4 makes its name different from all others.
OwnFile(j) == [job |-> j, round |-> round, description |-> tested]

EvalTypeOK ==
  /\ round \in Nat /\ tested \in Descriptions
  /\ job \in [Jobs -> {"queued", "reads", "done"}]
  /\ files \subseteq [job : Jobs, round : 0..round, description : Descriptions]
  /\ used \in [Jobs -> files \cup {None}]
  /\ process \in [Jobs -> {"none", "starts", "spoke", "exited"}]
  /\ pending \in [Jobs -> BOOLEAN] /\ triggered \in [Jobs -> BOOLEAN]
  /\ broken \in BOOLEAN

EvalInit(set, d) ==
  /\ eval_set = set
  /\ round = 0 /\ tested = d
  /\ job = [j \in Jobs |-> "done"]
  /\ files = {}
  /\ used = [j \in Jobs |-> None]
  /\ pipe = [j \in Jobs |-> <<>>]
  /\ process = [j \in Jobs |-> "none"]
  /\ pending = [j \in Jobs |-> FALSE]
  /\ triggered = [j \in Jobs |-> FALSE]
  /\ broken = FALSE

-----------------------------------------------------------------------------
(* The claude process.                                                     *)

Event(t, f) == [type |-> t, names |-> f]

\* What claude writes when its first tool is Skill or Read, on command f or on
\* another file: partial messages, or one whole message.
ToolReports(f) == {<<Event("tool", None), Event("delta", f), Event("stop", None)>>,
                   <<Event("assistant", f)>>}

\* Another tool, the end of the message or a result come first.
OtherReport == <<Event("other", None)>>

\* claude has listed the commands directory and acts.
Speak(j) ==
  /\ process[j] = "starts"
  /\ \E f \in files \cup {None} :
       /\ used' = [used EXCEPT ![j] = f]
       /\ \E s \in ToolReports(f) \cup (IF f = None THEN {OtherReport} ELSE {}) :
            pipe' = [pipe EXCEPT ![j] = s]
  /\ process' = [process EXCEPT ![j] = "spoke"]
  /\ UNCHANGED <<eval_set, round, tested, job, files, pending, triggered, broken>>

\* claude ends, or fails before it says anything.  The worker's next poll finds it
\* gone, reads what is left in the pipe, and never looks at it.
ClaudeExits(j) ==
  /\ process[j] \in {"starts", "spoke"}
  /\ process' = [process EXCEPT ![j] = "exited"]
  /\ used' = [used EXCEPT ![j] = None]
  /\ pipe' = [pipe EXCEPT ![j] = <<>>]
  /\ pending' = [pending EXCEPT ![j] = FALSE]
  /\ UNCHANGED <<eval_set, round, tested, job, files, triggered, broken>>

-----------------------------------------------------------------------------
(* run_single_query.                                                       *)

\* Every item of the set is submitted runs_per_query times, to a pool of the
\* call's own.
Submit(d) ==
  /\ round' = round + 1 /\ tested' = d
  /\ job' = [j \in Jobs |-> "queued"]
  /\ triggered' = [j \in Jobs |-> FALSE]
  /\ UNCHANGED <<eval_set, files, claude, broken>>

\* A worker is free, and j is the first job in the executor's queue.
NextUp(j) ==
  /\ job[j] = "queued"
  /\ Cardinality({k \in Jobs : job[k] = "reads"}) < NumWorkers
  /\ \A k \in Jobs : job[k] = "queued" =>
       j[1] < k[1] \/ (j[1] = k[1] /\ j[2] <= k[2])

\* The command file is written, then claude is started.
Launch(j) ==
  /\ NextUp(j)
  /\ job' = [job EXCEPT ![j] = "reads"]
  /\ files' = files \cup {OwnFile(j)}
  /\ process' = [process EXCEPT ![j] = "starts"]
  /\ UNCHANGED <<eval_set, round, tested, used, pipe, pending, triggered, broken>>

\* Mutant: the command file is left when claude has to be killed.
ReturnLeavesFile(j, result) ==
  /\ job' = [job EXCEPT ![j] = "done"]
  /\ triggered' = [triggered EXCEPT ![j] = result]
  /\ files' = IF process[j] = "exited" THEN files \ {OwnFile(j)} ELSE files
  /\ used' = [used EXCEPT ![j] = None]
  /\ pipe' = [pipe EXCEPT ![j] = <<>>]
  /\ process' = [process EXCEPT ![j] = "none"]
  /\ pending' = [pending EXCEPT ![j] = FALSE]
  /\ UNCHANGED <<eval_set, round, tested, broken>>

\* run_single_query returns, wherever it does: both finally clauses run, claude
\* is killed and the command file removed.
Return(j, result) ==
  /\ job' = [job EXCEPT ![j] = "done"]
  /\ triggered' = [triggered EXCEPT ![j] = result]
  /\ files' = files \ {OwnFile(j)}
  /\ used' = [k \in Jobs |-> IF k = j \/ used[k] = OwnFile(j) THEN None ELSE used[k]]
  /\ pipe' = [pipe EXCEPT ![j] = <<>>]
  /\ process' = [process EXCEPT ![j] = "none"]
  /\ pending' = [pending EXCEPT ![j] = FALSE]
  /\ UNCHANGED <<eval_set, round, tested, broken>>

\* An exception, claude not found for instance: run_eval counts it as False.
LaunchFails(j) == NextUp(j) /\ Return(j, FALSE)

\* Mutant: skill_name instead of clean_name.
NamesSkill(j, f) == f # None

\* clean_name in accumulated_json, or in the tool's input.
NamesOwn(j, f) == f = OwnFile(j)

\* An event ends the query: with TRUE when it is a delta or a message that names
\* the job's own file.
Hit(j, e, pend) == e.type = "assistant" \/ (e.type = "delta" /\ pend)
Decides(j, e, pend) ==
  \/ e.type \in {"other", "assistant"}
  \/ e.type = "stop" /\ pend
  \/ e.type = "delta" /\ pend /\ NamesOwn(j, e.names)

\* process.poll(), select and os.read: a chunk of whole lines, all of them looked
\* at before the next poll.
Read(j) ==
  /\ job[j] = "reads" /\ process[j] # "exited"
  /\ \E n \in DOMAIN pipe[j] :
       LET chunk   == SubSeq(pipe[j], 1, n)
           pend    == pending[j] \/ \E k \in 1..n : chunk[k].type = "tool"
           decided == {i \in 1..n : Decides(j, chunk[i], pend)}
           first   == chunk[CHOOSE i \in decided : \A k \in decided : i <= k]
       IN IF decided # {}
          THEN Return(j, Hit(j, first, pend) /\ NamesOwn(j, first.names))
          ELSE /\ pipe' = [pipe EXCEPT ![j] = SubSeq(@, n + 1, Len(@))]
               /\ pending' = [pending EXCEPT ![j] = pend]
               /\ UNCHANGED <<eval_set, round, tested, job, files, used, process,
                              triggered, broken>>

\* process.poll() finds claude gone.
Gone(j) ==
  /\ job[j] = "reads" /\ process[j] = "exited"
  /\ Return(j, FALSE)

\* Mutant: no time limit.
NeverTimesOut(j) == FALSE /\ Return(j, FALSE)

\* The while condition: the query has taken longer than its timeout.
TimeOut(j) == job[j] = "reads" /\ Return(j, FALSE)

\* A worker process dies.  The executor fails every job that is not done, and
\* terminates the other workers: no finally clause runs, their files stay.
PoolBreaks ==
  /\ ~broken /\ \E j \in Jobs : job[j] = "reads"
  /\ broken' = TRUE
  /\ job' = [j \in Jobs |-> "done"]
  /\ used' = [j \in Jobs |-> None]
  /\ pipe' = [j \in Jobs |-> <<>>]
  /\ process' = [j \in Jobs |-> "none"]
  /\ pending' = [j \in Jobs |-> FALSE]
  /\ UNCHANGED <<eval_set, round, tested, files, triggered>>

Worker(j) == Launch(j) \/ LaunchFails(j) \/ Read(j) \/ Gone(j) \/ TimeOut(j)

EvalNext ==
  \/ \E j \in Jobs : Speak(j) \/ ClaudeExits(j) \/ Worker(j)
  \/ PoolBreaks

-----------------------------------------------------------------------------
(* The results.                                                            *)

JobsFor(q)  == {j \in Jobs : eval_set[j[1]].query = q}
Triggers(q) == Cardinality({j \in JobsFor(q) : triggered[j]})

\* One result per query.  query_items[query] is the item of the future that
\* completed last: with a query twice in the set, either of the two.
Result(i) ==
  LET q == eval_set[i].query
      reached == 100 * Triggers(q) >= ThresholdPct * Cardinality(JobsFor(q))
  IN [query |-> q, should_trigger |-> eval_set[i].should_trigger,
      passed |-> (reached <=> eval_set[i].should_trigger)]

Results ==
  LET Queries == {eval_set[i].query : i \in DOMAIN eval_set} IN
  {{Result(pick[q]) : q \in Queries} :
     pick \in {p \in [Queries -> DOMAIN eval_set] :
                 \A q \in Queries : eval_set[p[q]].query = q}}
=============================================================================
