# Verification of AgentLuoss

AgentLuoss is a web platform on which users give tasks to LLM agents.  A Go
*task service* owns the tasks and schedules them onto Node *agent-runtimes*,
which host one `pi` agent session per task and push the session's events back.
The rest (accounts, capabilities, knowledge bases, models, files, usage) are
smaller Go services behind one gateway.  With the platform come *skills*: Python
programs an agent runs in its workspace.  Two of them are protocols of their own:
*skill-creator*, which evaluates and improves skills with the help of many
`claude` processes, subagents and a reviewing user, and *excel-master*, whose
tools write and judge a workbook that Excel and the agent change as well.

This directory holds TLA+ models of the parts where the system is hard to get
right: what keeps a task's turns apart, what a client sees of them, where they
run, which sessions are alive; what an evaluation counts, what a review saves, and
what an audit of a workbook is worth.  TLC checks each model on small instances,
and TLAPS proves the most important invariants for every instance.

```
tlc -config TurnSafe.cfg MCTaskTurn        # one run; PROJECT.json lists them all
tlapm TaskTurn_proofs.tla                  # the proofs about a module
```

`PROJECT.json` has the machine-readable side: the components, the runs, for each
property a mutation of the model that breaks it, the source lines behind each
definition, the findings, the hazards, and the theorems.

## Inventory

| Part | State | Operations | Meets the others by |
|---|---|---|---|
| task service, turns (`internal/task/server.go`, `store.go`, `watchdog.go`) | `task.tasks` row (status, runtime, session path), `lock:session:<id>` (15 min TTL), `task:lastev:<id>` | CreateTask, SendPrompt, SteerTask, AbortTask, UpdateTask, DeleteTask, onEvent, the watchdog's sweep | RPCs to runtimes, Postgres, Redis; goroutine per call, one per PushEvents stream |
| event pipeline (`pipeline.go`, `StreamEvents`, `GetMessages`, `gateway/tasks.go`, `TaskDetail.tsx`) | `seq:task:<id>`, `stream:task:<id>` (7 days), subscriber channels of 256, the page's cursor and anchor | Ingest, Subscribe, Replay, StreamEvents, GetMessages | gRPC stream, SSE, the browser's own reconnects |
| runtime registry (`registry.go`) | `runtime:ids`, `runtime:info:<id>`, `runtime:hb:<id>` (15 s TTL) | Register, Heartbeat, Get, List (prunes), Pick | the runtimes' timers; every SendPrompt and the watchdog |
| session pool (`agent-runtime/src/pool.ts`, `index.ts`) | a map task -> pi session, last use, subscription | createSession, prompt (with mode and model switch), steer, abort, closeSession, sweep | gRPC handlers of one thread that interleave at `await` |
| event bus (`eventbus.ts`) | a queue, one gRPC stream | push, flush, connect, heartbeats | client stream to PushEvents |
| runtime connections (`runtimes.go`) | a cached connection per runtime | Get, Drop, Close | shared by all calls |
| model router (`router.go`) | candidates from models.json | Resolve, pickTier | called by CreateTask and SendPrompt |
| usage (`internal/usage`) | events, daily sums, quotas, audit log | ReportUsage, CheckQuota, consumeAudit | called by SendPrompt and onEvent; Redis consumer group |
| caps (`internal/caps`) | MCP servers, skills, experts, scopes | Upsert*, Delete*, GetEffectiveCaps | called by ensureSession |
| kb (`internal/kb`) | knowledge bases, documents, chunks, embeddings | UploadDoc, ingestOnce, embedOnce, Search, Delete* | goroutine per upload, a ticker, caps |
| iam (`internal/iam`) | users, refresh tokens, departments | Login, Refresh, Logout, user changes | gateway |
| modelmgt (`internal/modelmgt`) | providers, models, models.json | Upsert*, Delete*, Render, notifyRuntimes | a file shared with the runtimes; ReloadConfig |
| artifact (`internal/artifact`) | files of a workspace | Upload, Download, Delete | file system shared with the sessions |
| gateway (`internal/gateway`) | limiter per address | HTTP to gRPC, SSE | all services |
| web (`web/`) | page state | | gateway |
| trigger evaluation (`skill-creator/scripts/run_eval.py`) | a process pool, one command file per query in the project's `.claude/commands` | run_eval, run_single_query | `claude -p` processes that read the shared directory and write events to a pipe |
| description loop (`run_loop.py`, `improve_description.py`, `generate_report.py`) | the split, the history, the current description; a report file | run_loop, improve_description, generate_html | calls run_eval and `claude -p`; nothing is persisted before the end |
| benchmark (`aggregate_benchmark.py`) | benchmark.json | load_run_results, aggregate_results | the directory tree that subagents and graders fill |
| review viewer (`eval-viewer/`) | feedback.json; per page a feedback map, a text box, a timer | GET, POST, navigate, auto-save, submit | HTTP between pages and a single-threaded server; the tree |
| excel-master (`skills/excel-master/tools/`) | a workbook with formulas and cached values | build, chart, summary, audit | the file, which Excel and the agent write too |
| mcp-builder evaluation (`mcp-builder/scripts/`) | a list of messages | agent_loop, run_evaluation | an external model and an external MCP server |

What is hard, and what makes each part correct:

* **Turns.**  A prompt is accepted by one runtime, its end arrives later as an
  event on another stream, and in between runtimes crash, heartbeats lapse,
  events and replies get lost, clients go, users abort, archive and delete, and a
  sweep fails what looks stuck.  Correct: one turn at a time; the lock of a turn is
  given back exactly when the turn is over; a prompt runs at most once; the
  status ends up right; final states stay final.
* **Events.**  Numbering, persisting and fan-out are three steps of concurrent
  producers, a subscriber reads the past and the present from two sources, and
  connections break.  Correct: no gap, no duplicate, no reordering, and a page
  shows what a reload would show.
* **Registry.**  TTLs are the failure detector, and every reader prunes.
  Correct: the least loaded runtime is picked; the dead are forgotten and the
  living are not.
* **Pool.**  Handlers interleave at `await`, and a sweep evicts.  Correct: one
  session per task; a running turn can always be reached; nothing stays for ever.
* **Trigger evaluation and loop.**  Parallel queries share a directory of commands, and
  claude may pick any of them, hang or die; the loop decides on noisy
  results.  Correct: a query counts only by its own command; no command is left
  behind; the held-out queries stay out of the prompts; the answer was measured; the
  program ends.
* **Benchmark and review.**  Aggregation and review run while the tree grows;
  a page saves by timer, navigation and submit.  Correct: each graded run counts
  once; feedback is kept, for the run it was given for.
* **Workbook.**  Formulas have values only after Excel has saved.  Correct:
  verdicts say what Excel would show, and a repaired workbook stays repaired.
* **The other services** have hazards at transaction boundaries (usage, caps),
  between workers (kb), and between stores (kb and caps, modelmgt and the
  runtimes).  `PROJECT.json` lists them at their lines; they are planned below.

## Modules

### TaskTurn

One task, every call that may act on it, and every runtime that may host it.
Tasks share no row or key, and meet only in a runtime's capacity, which is a
CreateSession that may fail; so one task is the whole protocol.

A call is one step per access to Postgres, Redis or a runtime.  `pc[c]` is the
line a SendPrompt or SteerTask has reached: *new, read, ensure, try, hosted, ensured,
accepted, marked, done*, and *unwind* on its error paths.  `callRt[c]` is the
call's own copy of `t.RuntimeID`, stale as in the code, and `tries[c]` the
`tryIDs` of `ensureSession`.  `lock` remembers which prompt set it: the code
stores only "1", and nothing in the model's guards looks at the owner; the
properties do.  `chan[r]` is the event stream of runtime `r`, and `step[r]` how
far `onEvent` is with its head: a terminal event is ingested, writes the status,
releases the lock and synthesizes a status in that order, with everything else
in between.  `view` is what the statuses in the stream add up to for a client
that reads them all.

`Scenarios` is a set of sets of interference; `env`, chosen in the first state and
frozen, is the one a behaviour meets: `abort`, `expire` (the lock's TTL),
`watchdog`, `archive`, `delete`, `lapse` (a heartbeat key runs out while the
process lives), `crash`, `evict`, `lose` (an event), `lostreply` (a Prompt or
CreateSession RPC fails although the runtime did what it asks), `hang` (the model
provider owes no end of a turn), `cancel`.  The last one is a context that is done
before its work is: that of a request whose client has gone (`ContextDone`,
`OpCancelled`), or that of a PushEvents stream that breaks while onEvent is at work
(`StreamBreaks`).  What is left of the work then fails, the release of the lock
included, since `ReleaseSessionLock` uses the same context and ignores the error; only
the synthetic statuses have a context of their own.  So one run asks a question under several kinds of interference, and
a property that needs the absence of some says which:

* `SerialTurns` and `LockCoversTurn` need `Unforced`: nothing deletes the lock, or
  gives up on an accepted prompt, behind the back of a turn.  The code does not
  promise more (an abort is meant to free the task at once), and with a lock
  that expires under a long turn it does not keep it; see *Seen without a run*.
* `ServesOneByOne` too: `OneTurn` is the abstract promise (`current`, the prompt
  whose turn runs, and `spent`, the prompts that have had their chance), and
  TaskTurn implements it by the mapping `Current`.  A step of any call, event or
  runtime is a Begin, a GiveUp, an End or a stutter.
* `LockIsAccountedFor` and `LockIsReleased` need `LossFree`: a runtime that dies
  with its turn, or a lost `agent_settled`, leaves the lock to its TTL or to the
  watchdog by design, and so does a context that is done, by the code as it is; see
  *Seen without a run*.

### EventPipeline

One task's stream.  An event is its number.  `Incr`, `Store` and `FanOut` are
the three steps of Ingest; `Subscribe`, `ReadReplay`, `SendReplay`, `SendStatus`
and `Forward` are StreamEvents; `LoadPage`, `OpenStream` and `Receive` are the
page, with its history anchor and its cursor.  `StoreFails` is a pipeline that fails
for good, with the XADD executed or not.  A reply that is lost once is `IncrLost` and
`StoreLost`: the client, built with its default options (`cmd/task/main.go:28`),
retries, so a number is skipped, or an event stored twice under one number.  `again`
has those numbers, of which `OneNumberEach` and `SentInOrder` allow copies.  `missed` collects what the code
gives up on knowingly: a full channel, a failed write, the replay limit.  A
scenario says which producers are at work (`active`), how often connections
break, and how many replies of Redis are lost.  With two producers the code orders events by luck only, so `SentInOrder`
and `NoGap` are about behaviours with one.

### RuntimeRegistry

The Redis keys, the runtimes' timers and any number of concurrent Lists.  A List
looks at one id per step in any order, as Redis sets have none.  `Boot` and
`Crash` are processes; a TTL may run out when nobody beats, and, with `lapse`,
also when a heartbeat is late.  `Faults` says for each runtime what may go wrong
with it.

### SessionPool

One runtime's map of sessions.  A handler is one step up to its next `await`:
`CreateStart`/`CreateDone`, `SwitchMode`/`SwitchDone`, `SetModel`/`ModelDone`.
pi is not part of the repository; a session is a number with a turn that starts,
streams and ends.  `overlap`, frozen in the first state, says whether the task
service lets calls of one task overlap: it does not where each is under the session lock, and it does
through SteerTask and after a lock was deleted early.

### SkillEval, SkillLoop

SkillEval is one `run_eval` call at a time.  A job is one query's nth run; it is
queued, reads, or is done.  `files` are the command files in the directory: every
claude process lists those of the other jobs as well, and `Speak` lets it use any.
What it writes is a short sequence of events, partial messages or one whole
message, that `Read` takes in chunks, deciding on the first event that does.
`PoolBreaks` is a worker process that dies: the executor fails all that is not done
and terminates the others, so their files stay, and later evaluations meet them.

SkillLoop composes it with the loop: `Init` splits the eval set every way
the shuffle may, `Evaluate` and `Collect` are the evaluation, `WriteReport`, `Judge`,
`Improve`, `Rewrite`, `Pick` and `FinalReport` the rest.  A history entry keeps the
results of train and test queries, each as the set of its queries' verdicts; the
descriptions are two, of which one is too long.  An exception ends the program
(*crashed*).

### Iteration, Benchmark

Iteration is the directory tree both scripts work on: per run no directory, none
graded, an unreadable grading, or a pass rate.  A run is its eval, its config and its
number.  Eval 0 stands for a directory that is not called `eval-*`, and run 0 for a run
whose files lie in the config's directory, as SKILL.md lays them out.

Benchmark is aggregate_benchmark.py, which lists and reads one directory per step
(`VisitEval`, `VisitConfig`, `ReadRun`) while subagents go on, and writes
benchmark.json at the end.  `walk` has the directories that are still to be visited
and the results so far.

### SkillReview

The server and its pages, over an Iteration.  A request is handled in two steps,
truncate and write, as `write_text` does, and either may fail (`FailOpen`,
`FailWrite`); fetch() resolves in any case, so the dialog opens.  A page is *loading*
until /api/feedback has *answered* it, and *open* once the first run is shown; its
keys, buttons and text box work from the beginning.  It has the runs it was loaded
with, its map, the text box, the pending timer and the requests on their way, each on
a connection of its own.  A feedback text remembers the run it was typed for, so that
a mix-up shows.  `Scenarios` fixes what may happen: subagents at work, kills, failing
writes, a user who does not wait for the page (`early`), requests that overtake one
another (`reorder`), a previous iteration, the tabs.  `Calm` names the reviews in which
feedback is safe: none of these but subagents, and one tab.  Outside of it the code
loses feedback; see *Seen without a run*.

Workspace composes script and review over one tree.  Neither writes anything the other
reads, so the model runs the script in a scenario without pages (`Aggregates`).

### ExcelReport

A workbook is a sequence of sheets, a sheet a grid of cells.  A cell's content is a
number, a text, a header or a formula, which is known by what it divides by, since
division is what fails: a cell, or a literal 0 written as `/0`, as `/(0)`, or inside
an IFERROR.  `DividesByZero` is what the audit's regular expression makes of the
three; `cached` is what Excel last saved for it.  `Shown` is what
Excel would show now.  Build, chart, summary and audit are an action each, and
so are the agent's rewrite of flagged cells, and Excel, with an edit or without.

## Runs

`MC*.tla` instantiate the modules; each `.cfg` is one question.

| Run | Question | Bounds |
|---|---|---|
| turn_safe | Are turns serial because the lock covers them, is the lock accounted for on every path, a prompt delivered at most once, archived final?  Does the whole implement OneTurn? | 2 runtimes, 2 prompts, one started by CreateTask, a steer, an abort; 4 scenarios |
| turn_live | Does a task leave *running*, whatever hangs, dies or is lost?  Does the lock come back by itself where turns end and events arrive? | 1 runtime, 2 prompts; 2 scenarios |
| pipe | No gap, no duplicate, and in order, across breaks, lost replies, a full channel and the limit?  Unique numbers with two producers?  Does the stored tail arrive? | 4 events, channel of 2, limit 3; 1 producer with 2 breaks, or with 1 and a lost reply; 2 producers with 1 break |
| reg_faults | Is the least loaded runtime picked?  Are dead runtimes forgotten and loads learned? | capacities 1 and 2, loads 0 and 1; the small runtime has every fault |
| pool_life | One session per task, alive, in reach, spared by the sweep while it works, and evicted in the end? | 4 calls, 2 tasks, 2 modes, capacity 1 |
| skill_loop | Does an evaluation count only what it should, and clean up?  Is the answer measured, on queries the improver has not seen?  Does it end? | 5 eval sets of 2 or 3 queries, 2 workers, 2 iterations, 1 run per query |
| skill_review | Is feedback for its run, whatever happens?  Is it kept, does what is typed arrive and does the dialog tell the truth, in a calm review?  Is each graded run counted once, and subtracted the right way round, while the tree is being filled? | 2 evals, 3 runs the script finds and one without run-*, 2 rates; 1 tab, 2 changes of a box, 2 loads, 2 requests on their way; 8 scenarios |
| excel | Are verdicts and summaries right in every order of tools, Excel and agent? | 5 workbooks of at most 2 sheets of 5 by 2 cells, 3 changes |

Two runtimes are what a failover needs; two prompts are what a race needs, and
the next turn after the race.  The four scenarios of turn_safe each leave out what
the properties at stake exclude or what another one covers; all kinds of
interference at once are beyond TLC.  turn_live has one runtime: whether the watchdog
reaches a task does not depend on a second one, and two prompts on one runtime
already give the lock to one turn after another.  Four events with a channel of
two and a limit of three overflow both.  The capacities 1 and 2 make the order by
ratio and the order by count differ.  Calls in SessionPool happen once each, so
four of them are a create, a switch and two to get in between; with a capacity
of one, two creations at once overfill the pool.  Two workers and three queries have a query wait while two run, and one of either
sort makes each polarity's share round to nothing.  Two iterations are an improvement
and a choice; the threshold of 50 % makes one run decide.  Two evals, of which one
runs with the skill only, give the configs of unequal counts.
Two changes and two loads are a text that is saved, and replaced or met again; two
requests on their way are what one needs to overtake another.  A second tab is left
to the theorem about any number of them.
The five workbooks have a computed column beside a raw one, a sheet of totals, a
chart sheet with a formula, a title with a summary, a column that ends in a loss,
and literal zeros; a limit of one note makes both verdicts of the audit happen.

The type invariants of RuntimeRegistry and SkillReview describe their
states for a reader; the runs on them ask for the properties only.

Symmetry (of the runtimes) is used in turn_safe, which checks no liveness.

`CHECK_DEADLOCK FALSE` stands where calls, events, breaks, iterations or changes
are finite, so the system comes to rest by design: everywhere but in reg_faults.

### Fairness

A handler that has begun goes on (each of its steps is a local step or an RPC
with an end), and so do `onEvent` and the two tickers (the watchdog each minute,
the sweep each minute).  Time passes: `Silence`, `GoesIdle`, TTLs.  A user, the
network and a crashed process owe nothing.  A model provider ends a turn at last
unless the scenario says `hang`: LockIsReleased assumes that it does, and
StuckTurnRecovers does not, since there the watchdog has to do it.  The page's browser opens
its connection again, as an EventSource does, and a run allows finitely many
breaks.

In SkillLoop each worker process and the loop go on, for a query and a call to
claude have time limits; no claude process ever has to do anything.  In SkillReview a
server that is up answers, and a timer fires; users and agents owe nothing.

## Findings

Runs that are expected to fail.  Each checks what a comment or a document of the
repository says, and finds the code doing something else.

* **turn_stream_end** - the terminal status is in the stream so that clients
  converge; a turn that ends before SendPrompt synthesizes `running` is followed
  by that `running`.
* **pipe_status_number** - a client gets exactly the tail it missed; the synthetic
  status borrows the number of the next event, which the page then drops.
* **pool_two_sessions** - one session per task; two creations in the same `await`
  make two.
* **review_submit** - the final submit reports every run as complete; the auto-save
  timer, or an arrow key under the dialog, posts in_progress after it.

### Seen without a run

Disagreements met while modelling that no run keeps.  Where a definition is named, the
configuration of its module's run finds it violated once it is added there.

* PLAN.md:89: sessions exclude one another by the lock.  AbortTask deletes it
  (`server.go:495`) although it has not called
  a runtime whose heartbeat has lapsed, or its Abort RPC has failed (`server.go:491`).  The
  turn streams on, and the next prompt streams beside it (`OneStream`, in TurnSafe.cfg).
* `viewer.html:637`: "Your feedback has been saved."  When the server cannot write it
  answers 500 (`generate_review.py:372`), and the page does not look at the status
  (`viewer.html:1048`): nothing is saved, nor offered as a download (`DialogIsTrue`).
* skill-creator/SKILL.md:260: a text box that auto-saves as they type.  What is typed while
  init() awaits the saved feedback (`viewer.html:666`) starts no timer and is replaced by
  the first run's text (`TextIsTakenOver`).
* `generate_review.py:6`: feedback auto-saves to feedback.json.  An arrow key
  (`viewer.html:1078`) or a submit in that time posts the map of a page that has loaded
  nothing, which replaces the file (`FeedbackIsKept`).
* skill-creator/SKILL.md:180, 188 and 225 put a run's outputs and its grading into
  `eval-<ID>/with_skill/`, in an eval's directory with a descriptive name.  The script counts
  only `eval-*/<config>/run-*` (`aggregate_benchmark.py:86`, `:105`) and skips
  the others, with a message only if there is no `eval-*` at all (`DocumentedRunsCount`).
* `excel_audit.py:234`: a FAIL's reason is so many error cells.  The regular expression of
  `excel_audit.py:106` also matches a guarded division, `=IFERROR(B5/0,"")`, the repair
  that excel-master's SKILL.md:116 asks for (`FailMeansError`); and it misses `=A1/(0)`, an example of
  its own docstring (`StaticZeroIsFound`).

* PLAN.md:89 makes sessions exclusive by the lock.  The lock lives for 15 minutes
  (`server.go:432`) and is not renewed, while a turn may be longer.  After a lapsed
  heartbeat two runtimes stream one session.  (Add `"expire", "lapse"` to
  `Scenarios` and drop `Unforced` from SerialTurns to see it.)
* `server.go:435`: the lock is released on settled, and its TTL bounds losses.  The error
  returns of SendPrompt release it with the context of the request (`server.go:438`,
  `server.go:450`), and onEvent with that of the stream (`server.go:595`): once it is done,
  go-redis sends no DEL, and the task is busy until the TTL or the watchdog.  (Drop `"cancel"` from
  `LossFree` to see it.)
* `server.go:259`: no keys of a deleted task linger.  A late event or prompt
  creates them again, `seq:task` without a TTL, since Ingest does not ask whether
  the task exists.
* `server.go:516`: the live loop skips what was already seen.  With two producers
  it also skips a lower number that was stored late (`NoGap` and `SentInOrder` are
  checked for one producer).
* `TaskDetail.tsx:243`: a reconnect uses Last-Event-ID.  The URL's `since` overrides
  it (`gateway/tasks.go:272`), and since=0 replays nothing.  `TailArrives` is
  therefore about a page with a real anchor.
* `registry.go:90`: ties go to fewer active sessions.  They go to the larger
  capacity at equal counts, and otherwise to the first runtime listed.
* PLAN.md:89: runtimes register by heartbeat.  A runtime that lapsed for fifteen
  seconds while a List ran is out of `runtime:ids` (`registry.go:82`); its heartbeats go
  on and do not add it again, so it is never picked until it restarts.
* PLAN.md:55: a session that is given up is disposed.  `switchMode` unsubscribes
  the old one and leaves it.
* `run_loop.py:254`: `--holdout 0` disables the split.  The report then iterates over
  test results that are None (`generate_report.py:241`) and the program crashes, unless it is
  told to write no report (`Renders`; the run has both).
* An exception in a query, or a pool that broke, counts as *not triggered*
  (`run_eval.py:223`): queries that should not trigger pass.  Events a claude has
  written before it exits are read and discarded (`run_eval.py:102`).
* `run_loop.py:309`: results are written once, in the end.  A failing improvement
  (nothing catches it) loses all iterations.  A small eval set may leave nothing to
  train on: then all of it passed.
* A rewrite may again be longer than the 1024 characters it was made for
  (`improve_description.py:174`).
* `pipeline.go:51`: a pipeline whose reply is lost is sent again by the client, so an event
  may be stored twice, and the history a page loads (`GetMessages`) shows it twice; the
  live page drops the second by its number.
* `viewer.html:662`: with a previous iteration a page does not load the saved
  feedback, so reloading it and typing overwrites what this iteration had; two
  tabs overwrite each other; a server killed between truncating and writing
  (`generate_review.py:369`) leaves no feedback; and a save that overtakes a later one
  replaces it.  `Calm` excludes the four.
* `find_runs` sorts by `eval_id` with a default that never applies
  (`generate_review.py:64`): some runs with an id and some without cannot be compared.
* `aggregate_benchmark.py:208`: the primary config is the first one met.  With
  `old_skill` beside `with_skill` that is the old one, and the delta changes its sign;
  so it does if the first eval has no run with the skill yet, which
  `DeltaIsSkillMinusBaseline` leaves out.
* `excel_audit.py:46`: errors are deterministic and always a FAIL.  In a workbook that
  openpyxl saved last there are no cached values, and only a literal `/0` is found; so
  `AuditIsRight` asks for recalculated formulas before it believes that there are none.  A sheet with errors lists no
  candidates, which come up after the one rewrite that is allowed.
* `excel_build.py:103`: the title row moves the table down, but not the coordinates of
  formulas, summary and charts.
* `excel_summary.py:56`: a column that ends below zero after more than a year has a
  complex growth rate, and the whole summary fails.

## Proofs

Each proof module extends the module it is about.  The theorems hold for every
value of the constants that the named assumption of the module allows.

| module | assumes | which says |
|---|---|---|
| TaskTurn (two proof modules) | `TurnAssumption` | the kinds of calls are disjoint, `None` is none of them, scenarios are sets of `Interference` |
| EventPipeline | `PipelineAssumption` | finitely many producers, bounds that are numbers, a channel with room and a limit that lets something through |
| SessionPool | `PoolAssumption` | finitely many calls, `None` is neither a task, a mode nor a number, there is a mode to start in and another to switch to |
| ExcelReport | `SpecAssumption` | the shape of a build spec; an error is none of a cell's contents |
| RuntimeRegistry | `RegistryAssumption` | capacities and the bound on loads are natural numbers, `None` is no runtime |
| SkillLoop | `EvalAssumption`, `LoopAssumption` | at least one run, worker and iteration, `None` is no description, an eval set is a list of queries with their polarity, and less than all of it is held out |
| SkillReview | `IterationAssumption`, `ReviewAssumption` | runs are numbered and finitely many, a tree gives each run its state, `None` is no text and no state of a run that is there, there are finitely many tabs |

The invariants about the lock, about overlapping calls and about one producer
carry their own condition (`Unforced` or `LossFree`; `~overlap`;
`OneProducer`), and what the code promises without it is proved without it.

* `TypeCorrect`: `TypeOK`, and `HandlerBusy`: onEvent works on an event that is
  there.  The two are inductive together: the type of `step` alone does not
  say that the channel has a head.
* `LockCovers`: `LockCoversTurn`, that is `Claimed` under `Unforced`, which is
  inductive together with the types (`IInv`).  SerialTurns is not
  inductive: a second turn could start if the lock were free while the first one
  streams, and it could become free through a terminal event of an *earlier*
  turn that is still in some channel.  So the invariant says who holds the
  lock in each phase (sending, streaming, terminal event not yet applied) and
  that at most one of these claims exists.  Failover is harmless because a
  prompt that has been sent is not sent again, and crashes and lost events
  because they only remove claims.
* `TurnsAreSerial`: `SerialTurns` follows.
* `ImplementsOneTurn`: the refinement.  `Current` is the prompt whose turn streams
  on some runtime, which `Claimed` makes unique; a prompt is `spent` once a runtime
  has accepted it or SendPrompt has given up on it.  Every step then maps to a step of OneTurn
  or leaves both unchanged: the proof goes by action, and the interesting one is the
  start of a turn, where the invariant says that no other turn runs.
* `ArchivingIsFinal`: the action property, from the types: each write to the row
  is a conditional SetStatus.
* `PromptsRunOnce` (`PromptAndLock_proofs`): `DeliveredAtMostOnce`, under any
  interference.  The invariant `Once` says that only delivered prompts have a
  trace, and each of them one.  Every step is of one of four kinds (`StepKind`):
  it delivers a prompt that had no trace, turns the trace of a running turn into that of its
  terminal event, takes an event away, or adds nothing.
* `LockIsReturned` (`PromptAndLock_proofs`): `LockIsAccountedFor`.  The invariant `LInv` adds
  that the lock's owner has come to the lock and that nothing is being deleted.  It is
  about `LossFree` behaviours: what is left of interference there are aborts, expiry,
  archiving, lapses, evictions, lost replies and turns that hang.
  The crux is that a runtime stays `Busy` until a release is applied: events that
  others push leave a waiting one where it is, a turn ends with its event, and
  onEvent takes a terminal event off only after the release (`PopBusy`).
* `LeastLoadedIsPicked` (`RuntimeRegistry_proofs`): `PickIsLeastLoaded`.  Pick's loop
  is the recursive function `BestOf`; that it exists for every list (`LoopExists`),
  and that after each step it holds a least loaded runtime of those seen (`BestOfIsLeast`),
  goes by the first step at which it would not.  `KeptIsLeast`, the one step, needs that comparing
  ratios by cross products is transitive among runtimes with a capacity
  (`PreferredIsBetter`); the second criterion never prefers a more loaded one.
* `AuditTellsTheTruth`, `OneRewriteIsEnough` (`ExcelReport_proofs`): AuditIsRight and
  RewriteRevealsNothing.  For the first, the invariant says that a cached value is what
  Excel would show (`NoneStale`: a tool's save leaves no value, and what Excel saves it
  shows), so an error the audit saw is one; the rest of a FAIL is the regular expression,
  which matches what divides by zero or is guarded.  The other way round, an error Excel shows is in a formula whose cached
  value the audit has read, if there is one.  For the second, `ReportStands`
  says of every sheet after an audit without errors: what is flagged in it was reported and not
  yet rewritten, or the sheet is a chart's, or it is raw data, which has no
  formulas and was asked for nothing.  A rewrite puts formulas
  where something was reported, so it only takes flags away (`Flagged` looks at a cell and
  its neighbours), and a raw sheet that was asked for nothing stays without formulas.
* `LoopTypes`, `NoFileIsLeft`, `TestSetIsHeldOut`, `BestIsReturned`, `ReportIsRight`,
  `TriggersAreReal` (`SkillLoop_proofs`): TypeOK, CommandFilesAreTemporary, HeldOut,
  BestIsMeasured, ReportAgrees and the action property NoFalseTrigger, from one `IInv`.
  For the workers it says that a claude names its own file only when it used it
  (`SaysWhatItUses`), and that workers run only while the loop waits for them
  (`Waits`), so that all of them work on the description that is current.  For the loop it
  says that every entry has the verdicts of the train queries in one part and of the others
  in the other (`Split`), and that the counts are those of the verdicts (`Counted`).
  That max() finds an iteration, and the first of equals, is proved by counting those
  that score higher (`BestExists`).  The report picks its row by another comparison than the loop;
  they agree wherever the page can be rendered and no query is twice in the set
  (`RowIsBest`).
* `FeedbackIsFiledRight` (`SkillReview_proofs`): `FeedbackIsForItsRun`, for every
  number of tabs and every tree of runs, in calm reviews and others.  The text box is the one place where a
  text does not carry the run it will be saved under, so the invariant says that its text was
  typed for the run shown (`Fits`), beside that every map, on the
  server, in a page or in a request, files each text under its own run.
* `DialogTellsTheTruth`, `FeedbackStaysSaved` (`SkillReview_proofs`): DialogIsRight and
  the action property SavedStaysSaved, both under `Calm`: one tab, a server that stays and
  can write, requests in their order, a user who waits until the page is there, no
  previous iteration.  Without it they fail; see *Seen without a run*.  Neither is inductive, since the file is written from requests
  that were sent long before.  The invariant `CInv` reads feedback.json, what is being
  written, the requests on their way and the map of the page as one chain (`Open`): each has
  whatever the one before it had, but for boxes that were emptied (`Kept`), and the
  last of them is the map of the page.  A page that still loads has sent nothing (`Loading`).
  What a page leaves out of a request because it does not show the run is nothing, as runs
  never vanish from the tree (`Present`, `OnPage`); that needs the order of `FindRuns` to
  exist, which is proved by counting the runs before each one.
* `PoolTypes`, `PoolHoldsTheLiving`, `OneSessionPerTask`, `TurnsAreReachable`,
  `SweepsSpareTurns` (`SessionPool_proofs`): TypeOK, PoolIsAlive, OnePerTask,
  TurnIsReachable and the action property SweepSparesTurns, all from one `IInv`.
  That the numbers of sessions suffice is itself part of it: each session is made by
  a call that makes no other, so `made` stays below the number of calls that are
  past it (`Counted`).  That a sweep spares turns needs `AtWork` and `Rested`: isStreaming
  does not know yet of a turn that begins, but the call that begins it has touched
  its task.  `InTurn` holds only under `~overlap`, which never comes back once calls have
  overlapped: a call at work has its task for itself, creates into an empty
  place, and whoever is heard or runs a turn is in its place.  PoolIsAlive
  and the sweep need none of it.
* `PipelineTypes`, `NumbersAreUnique`, `EventsAreSentInOrder`, `NothingIsLeftOut`
  (`EventPipeline_proofs`): TypeOK, OneNumberEach, SentInOrder and NoGap.  In the
  invariant every event is in one place, but for the copies of one in `again`: about to be
  replayed, sent, in the channel or on its way there; only one that was replayed can be there again, and
  it is not above maxSeq, where forward drops it (`SentOnce`).  With one
  producer the order of the numbers is the order of the log, the list to replay,
  the channel and the sent events (`InNumberOrder`), what is left behind is younger than
  everything sent (`LeftIsYounger`) and still in the channel or about to enter it
  (`LeftIsComing`).  What Replay returns, the last events of a set in order, is
  proved to exist and to be increasing by counting the smaller numbers of each one
  (`InOrderLists`), which needs no induction.

The proofs about TaskTurn go through lemmas per group of actions (`CallTypes`, `EventTypesOK`,
...), and through `Grows`: every step that is not onEvent leaves each channel
alone or appends to it, so positions in a channel keep their meaning.

Left to TLC: liveness (StuckTurnRecovers, LockIsReleased, TailArrives,
EvictedInTheEnd, TypedIsSaved, Terminates, GoneIsForgotten, LoadBecomesKnown), which needs
fairness and ENABLED; what nested folds compute for every tree, which is induction over
data (EveryGradedRunCounts and DeltaIsSkillMinusBaseline, the means of Benchmark);
and SummaryCoversTheData, which is about the specs of the run, whose formulas lie in the rows
of the table and whose rows fit in the sheet: `SpecAssumption` asks for neither.

## Not modelled

Text, layout, parsing and rendering; SQL aggregation; authentication and
permissions (every call in the models is one that is allowed); metrics and
logging; Postgres and Redis failing for good (single failing commands are
modelled where the code handles them: StoreFails, StoreLost, RegisterFails); that a
first XADD is executed only after the reply to its copy; restarts of the
task service itself, whose state is all in Redis and Postgres, but which would
drop calls in flight.  Of pi, which is not in the repository, only what the pool
relies on.

Of the skills: command-line parsing, printed messages and Markdown; the static page
of `--static`; packaging and validating a skill, which are one pass over a
directory; mcp-builder's evaluation, a sequential loop over an external model and
an external server that keeps no state between its tasks.  The model behind claude is
a nondeterministic writer, and the subagents that run evals are one step that leaves
a directory.

The other Go services (usage, caps, kb, iam, modelmgt, artifact) are in the
inventory and are not modelled yet.

## Plan

Done: TaskTurn with its proofs; OneTurn, the abstract turn it implements, with the
proof; EventPipeline; RuntimeRegistry; SessionPool; SkillEval and SkillLoop;
Iteration, Benchmark, SkillReview and Workspace; ExcelReport.

Each run keeps to one question, and the twelve there are cover the hazards at
hand; what comes next proves more of what they check before it adds to them.

1. An abstract specification of the event pipeline (a log that each connection reads in
   order) and one of the session pool (at most one session per task), each with
   its refinement proved from the invariants above.
2. **EventBus** - queue, stream, drain and reconnect; lost, kept and reordered
   events; composed with SessionPool's subscriptions and TaskTurn's `chan`.
3. **UsageLedger** - two-statement reports, quota check and spend, audit consumer.
4. **KbIngest** - upload, ticker, parse, embed, delete; chunks without a document.
5. **CapsScopes**, **ModelMgt**, **IamTokens** - replaced scopes, rendered models
   against reloads, single-use refresh.
6. **AutoRouter** - pickTier against a reference; **RateLimit**, **ArtifactUpload**.
7. A restart of the task service in TaskTurn; the model and mode columns.
