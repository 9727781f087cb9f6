----------------------------- MODULE SkillReview -----------------------------
(***************************************************************************)
(* Reviewing an iteration: generate_review.py, the server that renders the *)
(* runs of the workspace into a page and writes the feedback the page      *)
(* posts to feedback.json, and the page, viewer.html.  The page saves the  *)
(* whole map of its feedback, 800 ms after the last key, on every          *)
(* navigation, and with "Submit All Reviews".                              *)
(*                                                                         *)
(* The server handles one request at a time.  A page's requests have a     *)
(* connection each, and may overtake one another.  There may be several    *)
(* tabs, a write may fail, and the server may be killed, by the next one   *)
(* that wants its port or by the agent.                                    *)
(***************************************************************************)
EXTENDS Iteration

CONSTANTS
  Tabs,       \* browser tabs
  Texts,      \* what a user may type
  Scenarios,  \* what happens in a behaviour: see Situations
  MaxTyped,   \* bound of the model: changes of a text box
  MaxLoads,   \* bound of the model: page loads
  MaxPosts    \* bound of the model: requests of a tab on their way

\* tree: what is there before; work: runs that subagents work on meanwhile;
\* previous: the previous iteration has outputs or feedback to show; fails: writing
\* feedback.json may fail; early: the user does not wait for the saved feedback;
\* reorder: requests overtake one another.
Situations == [tree : Trees, work : SUBSET Runs, tabs : SUBSET Tabs, kills : BOOLEAN,
               previous : BOOLEAN, fails : BOOLEAN, early : BOOLEAN, reorder : BOOLEAN]

ASSUME ReviewAssumption ==
  /\ Scenarios \subseteq Situations
  /\ {MaxTyped, MaxLoads, MaxPosts} \subseteq Nat /\ IsFiniteSet(Tabs)
  /\ None \notin Texts

VARIABLES
  env,     \* the scenario: never changes
  server,  \* up, writing feedback.json, or down
  body,    \* the feedback being written
  file,    \* feedback.json
  tab,     \* the pages
  typed,   \* changes of a text box so far
  loads    \* page loads so far

reviewVars == <<env, server, body, file, tab, typed, loads>>
vars       == <<tree, reviewVars>>

NoReviews == [r \in Runs |-> None]

\* listed: the runs that have an entry, which in a submit may be an empty text.
Absent == [status |-> "absent", reviews |-> NoReviews, listed |-> {}]
Torn   == [status |-> "torn", reviews |-> NoReviews, listed |-> {}]

\* A text is typed for a run, and remembers it.
Entries == [run : Runs, text : Texts]
Maps    == [Runs -> Entries \cup {None}]

Closed == [state |-> "closed", runs |-> <<>>, at |-> 1, map |-> NoReviews,
           box |-> None, emptied |-> {}, timer |-> FALSE, posts |-> <<>>,
           done |-> FALSE, answer |-> Absent]

TypeOK ==
  /\ tree \in [Runs -> RunStates]
  /\ server \in {"up", "writing", "down"}
  /\ file.status \in {"absent", "torn", "in_progress", "complete"}
  /\ file.reviews \in Maps
  /\ \A t \in Tabs :
       /\ tab[t].state \in {"closed", "loading", "answered", "open"}
       /\ ToSet(tab[t].runs) \subseteq Runs
       /\ tab[t].state # "closed" => tab[t].at \in DOMAIN tab[t].runs
       /\ tab[t].emptied \subseteq Runs
       /\ tab[t].map \in Maps /\ tab[t].box \in Entries \cup {None}
       /\ Len(tab[t].posts) <= MaxPosts

Init ==
  /\ env \in Scenarios
  /\ tree = env.tree
  /\ server = "up" /\ body = None
  /\ file = Absent
  /\ tab = [t \in Tabs |-> Closed]
  /\ typed = 0 /\ loads = 0

-----------------------------------------------------------------------------
(* The server.                                                             *)

\* find_runs: directories with outputs/, by eval and by name.
Before(a, b) == \/ a[1] < b[1]
                \/ a[1] = b[1] /\ a[2] < b[2]
                \/ a[1] = b[1] /\ a[2] = b[2] /\ a[3] < b[3]

InOrder(S) == CHOOSE s \in [1..Cardinality(S) -> S] :
                \A i, j \in 1..Cardinality(S) : i < j => Before(s[i], s[j])

FindRuns == InOrder({r \in Runs : tree[r] # None})

\* do_GET of the page: the tree as it is at the moment.  Next to the outputs of a
\* previous iteration the page asks for no saved feedback.
LoadPage(t) ==
  /\ t \in env.tabs /\ loads < MaxLoads
  /\ server = "up" /\ FindRuns # <<>>
  /\ tab' = [tab EXCEPT ![t] = [Closed EXCEPT
       !.state = IF env.previous THEN "open" ELSE "loading", !.runs = FindRuns]]
  /\ loads' = loads + 1
  /\ UNCHANGED <<tree, env, server, body, file, typed>>

\* do_POST takes a request of a tab, and write_text truncates the file first.
StartWrite(t) ==
  /\ server = "up"
  /\ \E i \in DOMAIN tab[t].posts :
       /\ i = 1 \/ env.reorder
       /\ body' = [from |-> t, feedback |-> tab[t].posts[i]]
       /\ tab' = [tab EXCEPT ![t].posts = RemoveAt(@, i)]
  /\ server' = "writing"
  /\ file' = Torn
  /\ UNCHANGED <<tree, env, typed, loads>>

\* The answer opens the dialog if it is that to a submit: fetch() resolves whatever
\* its status, and the page does not look at it.
Answered(t, feedback) ==
  IF t # None /\ feedback.status = "complete"
    THEN [tab EXCEPT ![t].done = TRUE] ELSE tab

FinishWrite ==
  /\ server = "writing"
  /\ server' = "up" /\ body' = None
  /\ file' = body.feedback
  /\ tab' = Answered(body.from, body.feedback)
  /\ UNCHANGED <<tree, env, typed, loads>>

\* OSError: 500.  The file has been truncated...
FailWrite ==
  /\ env.fails /\ server = "writing"
  /\ server' = "up" /\ body' = None
  /\ tab' = Answered(body.from, body.feedback)
  /\ UNCHANGED <<tree, env, file, typed, loads>>

\* ...or could not be opened at all.
FailOpen(t) ==
  /\ env.fails /\ server = "up" /\ tab[t].posts # <<>>
  /\ tab' = [Answered(t, Head(tab[t].posts)) EXCEPT ![t].posts = Tail(@)]
  /\ UNCHANGED <<tree, env, server, body, file, typed, loads>>

\* _kill_port of another viewer, or the agent.  Requests on their way fail: a
\* submit is offered as a download instead.
Kill ==
  /\ env.kills /\ server # "down"
  /\ server' = "down" /\ body' = None
  /\ LET Submits(t) ==
           \/ \E i \in DOMAIN tab[t].posts : tab[t].posts[i].status = "complete"
           \/ body # None /\ body.from = t /\ body.feedback.status = "complete"
     IN tab' = [t \in Tabs |->
                  [tab[t] EXCEPT !.posts = <<>>, !.done = @ \/ Submits(t)]]
  /\ UNCHANGED <<tree, env, file, typed, loads>>

Serve ==
  /\ server = "down"
  /\ server' = "up"
  /\ UNCHANGED <<tree, env, body, file, tab, typed, loads>>

-----------------------------------------------------------------------------
(* The page.                                                               *)

Run(p) == p.runs[p.at]

\* GET /api/feedback, which init() awaits.
GetFeedback(t) ==
  /\ tab[t].state = "loading" /\ server # "writing"
  /\ tab' = [tab EXCEPT ![t].state = "answered",
                        ![t].answer = IF server = "down" THEN Absent ELSE file]
  /\ UNCHANGED <<tree, env, server, body, file, typed, loads>>

\* The map with the saved feedback over it: a file that does not parse, or no answer,
\* leaves it as it is.
Loaded(p) == [r \in Runs |-> IF r \in p.answer.listed THEN p.answer.reviews[r] ELSE p.map[r]]

\* Mutant: saved feedback is not loaded.
LoadNothing(t) ==
  /\ tab[t].state = "answered"
  /\ LET p == tab[t] IN
     tab' = [tab EXCEPT ![t] = [p EXCEPT !.state = "open", !.at = 1,
                                         !.box = p.map[p.runs[1]], !.answer = Absent]]
  /\ UNCHANGED <<tree, env, server, body, file, typed, loads>>

\* The rest of init(): showRun(0), which replaces what is in the text box.
LoadFeedback(t) ==
  /\ tab[t].state = "answered"
  /\ LET p == tab[t] IN
     tab' = [tab EXCEPT ![t] = [p EXCEPT !.state = "open", !.at = 1, !.map = Loaded(p),
                                         !.box = Loaded(p)[p.runs[1]], !.answer = Absent]]
  /\ UNCHANGED <<tree, env, server, body, file, typed, loads>>

\* feedbackMap with what the text box holds for the current run.
Saved(p) == [p.map EXCEPT ![Run(p)] = p.box]

\* A submit lists all runs of the page, a save those with a text.
Listed(p, status, map) ==
  IF status = "complete" THEN ToSet(p.runs) ELSE {r \in Runs : map[r] # None}

\* fetch POST: without a server the request fails at once.
Post(p, status, map) ==
  LET q == [p EXCEPT !.map = map]
      feedback == [status |-> status, reviews |-> map, listed |-> Listed(p, status, map)] IN
  IF server = "down"
    THEN [q EXCEPT !.done = @ \/ status = "complete"]
    ELSE [q EXCEPT !.posts = Append(@, feedback)]

\* saveCurrentFeedback
SaveCurrent(p) == Post(p, "in_progress", Saved(p))

\* Buttons, keys and the text box are there from the beginning, the box without its
\* listener, while init() awaits the saved feedback.
Live(t) == tab[t].state \in (IF env.early THEN {"loading", "answered", "open"} ELSE {"open"})

MayPost(t) == Live(t) /\ Len(tab[t].posts) < MaxPosts

\* A key in the text box, which may empty it: the timer starts again.
Type(t) ==
  /\ Live(t) /\ ~tab[t].done /\ typed < MaxTyped
  /\ LET p == tab[t] IN
     \E box \in {[run |-> Run(p), text |-> x] : x \in Texts} \cup {None} :
       /\ p.box # box
       /\ tab' = [tab EXCEPT ![t].box = box, ![t].timer = (p.state = "open"),
                             ![t].emptied = IF box = None THEN @ \cup {Run(p)} ELSE @]
  /\ typed' = typed + 1
  /\ UNCHANGED <<tree, env, server, body, file, loads>>

TimerFires(t) ==
  /\ MayPost(t) /\ tab[t].timer
  /\ tab' = [tab EXCEPT ![t] = [SaveCurrent(@) EXCEPT !.timer = FALSE]]
  /\ UNCHANGED <<tree, env, server, body, file, typed, loads>>

\* Mutant: the other run is shown, then the box is saved.
NavigateThenSave(t) ==
  /\ MayPost(t)
  /\ \E i \in DOMAIN tab[t].runs :
       /\ i \in {tab[t].at - 1, tab[t].at + 1}
       /\ tab' = [tab EXCEPT ![t] = SaveCurrent([@ EXCEPT !.at = i])]
  /\ UNCHANGED <<tree, env, server, body, file, typed, loads>>

\* Mutant: the other run is shown, and nothing is saved.
NavigateUnsaved(t) ==
  /\ MayPost(t)
  /\ \E i \in DOMAIN tab[t].runs :
       /\ i \in {tab[t].at - 1, tab[t].at + 1}
       /\ tab' = [tab EXCEPT ![t].at = i, ![t].box = tab[t].map[tab[t].runs[i]]]
  /\ UNCHANGED <<tree, env, server, body, file, typed, loads>>

\* navigate, by button or, under the dialog too, by key: the timer goes on.
Navigate(t) ==
  /\ MayPost(t)
  /\ \E i \in DOMAIN tab[t].runs :
       /\ i \in {tab[t].at - 1, tab[t].at + 1}
       /\ tab' = [tab EXCEPT ![t] =
                    [SaveCurrent(@) EXCEPT !.at = i, !.box = Saved(tab[t])[tab[t].runs[i]]]]
  /\ UNCHANGED <<tree, env, server, body, file, typed, loads>>

\* Mutant: the text box is taken over after the request was made.
SubmitMap(t) ==
  /\ MayPost(t) /\ ~tab[t].done
  /\ tab' = [tab EXCEPT ![t] = [Post(@, "complete", @.map) EXCEPT !.map = Saved(tab[t])]]
  /\ UNCHANGED <<tree, env, server, body, file, typed, loads>>

\* showDoneDialog: all runs of the page, and nobody stops the timer.
Submit(t) ==
  /\ MayPost(t) /\ ~tab[t].done
  /\ LET p == tab[t]
         OfPage == [r \in Runs |-> IF r \in ToSet(p.runs) THEN Saved(p)[r] ELSE None]
     IN tab' = [tab EXCEPT ![t] =
                  [Post(p, "complete", OfPage) EXCEPT !.map = Saved(p)]]
  /\ UNCHANGED <<tree, env, server, body, file, typed, loads>>

CloseDialog(t) ==
  /\ MayPost(t) /\ tab[t].done
  /\ tab' = [tab EXCEPT ![t] = [SaveCurrent(@) EXCEPT !.done = FALSE]]
  /\ UNCHANGED <<tree, env, server, body, file, typed, loads>>

\* The tab is closed, or about to be loaded again: requests that have not reached
\* the server are cancelled, and an answer finds nobody.  (One that has reached it
\* is handled before any of the next page's, as if it had been handled before.)
Leave(t) ==
  /\ tab[t].state # "closed"
  /\ tab' = [tab EXCEPT ![t] = Closed]
  /\ body' = IF server = "writing" /\ body.from = t THEN [body EXCEPT !.from = None] ELSE body
  /\ UNCHANGED <<tree, env, server, file, typed, loads>>

ServerStep == FinishWrite \/ FailWrite \/ \E t \in Tabs : StartWrite(t) \/ FailOpen(t)

PageStep(t) == \/ GetFeedback(t) \/ LoadFeedback(t) \/ Type(t) \/ TimerFires(t) \/ Navigate(t)
               \/ Submit(t) \/ CloseDialog(t) \/ Leave(t)

Next ==
  \/ SubagentStep(env.work) /\ UNCHANGED reviewVars
  \/ ServerStep \/ Kill \/ Serve
  \/ \E t \in Tabs : LoadPage(t) \/ PageStep(t)

Spec == Init /\ [][Next]_vars

\* A server that runs answers, and timers fire.  Users owe nothing.
Fairness == WF_vars(ServerStep) /\ \A t \in Tabs : WF_vars(TimerFires(t))

FairSpec == Spec /\ Fairness

-----------------------------------------------------------------------------
(* Properties.                                                             *)

\* One tab, no previous iteration, a server that stays and can write, requests in
\* their order, and a user who waits until the page is there: what holds then and not
\* beyond is what the protocol of page and server does not secure.
Calm == /\ ~env.kills /\ ~env.previous /\ Cardinality(env.tabs) <= 1
        /\ ~env.fails /\ ~env.early /\ ~env.reorder

\* A text is saved for the run it was typed for, whichever run the page shows when
\* a timer fires or a request is handled, in any order and any number of tabs, and
\* before or after the saved feedback has been loaded.
FeedbackIsForItsRun ==
  \A r \in Runs : file.reviews[r] # None => file.reviews[r].run = r

\* A save drops a run's feedback only if its box was emptied.
SaveKeeps ==
  server = "up" /\ server' = "writing" =>
    \A r \in Runs : file.reviews[r] # None =>
      \/ body'.feedback.reviews[r] # None
      \/ r \in tab[body'.from].emptied

\* In a calm review, reloading, runs that are added, and whatever is sent while another
\* request is on its way do not cost feedback.
SavedStaysSaved == [][Calm => SaveKeeps]_vars

\* "Your feedback has been saved": with the dialog open and nothing on its way,
\* the file has what the page has.
DialogIsRight ==
  \A t \in env.tabs :
    Calm /\ tab[t].done /\ tab[t].posts = <<>> /\ server = "up" =>
      \A r \in ToSet(tab[t].runs) : file.reviews[r] = tab[t].map[r]

\* What is typed arrives in the file, unless it is changed or the tab is left.
TypedIsSaved ==
  \A t \in Tabs, r \in Runs, x \in Texts :
    LET entry == [run |-> r, text |-> x] IN
    (Calm /\ tab[t].timer /\ tab[t].box = entry)
      ~> (\/ file.reviews[r] = entry \/ tab[t].state # "open"
          \/ Run(tab[t]) = r /\ tab[t].box # entry)

\* viewer.html, the dialog: "Your feedback has been saved."  What the page has sent is
\* in the file once the dialog is open and nothing is on its way.  (A server that was
\* killed does not answer, and the feedback is downloaded.)
DialogIsTrue ==
  \A t \in env.tabs :
    ~env.kills /\ tab[t].done /\ tab[t].posts = <<>> /\ server = "up" =>
      \A r \in ToSet(tab[t].runs) : tab[t].map[r] # None => file.reviews[r] = tab[t].map[r]

\* generate_review.py: feedback auto-saves to feedback.json.  No save drops what has
\* been saved.
FeedbackIsKept == [][SaveKeeps]_vars

\* SKILL.md: a text box that auto-saves as they type.  Unless the user changes it, or
\* leaves the page, a text leaves the box only into the map the page posts.
TextIsTakenOver ==
  [][\A t \in Tabs : LET box == tab[t].box IN
       box \notin {None, tab'[t].box} /\ UNCHANGED <<typed, loads>> /\ tab'[t].state # "closed" =>
         tab'[t].map[box.run] = box]_vars

\* viewer.html: one POST with status complete, with all runs, so that the model
\* can distinguish no feedback from not reviewed.
SubmittedIsComplete ==
  \A t \in env.tabs :
    Calm /\ tab[t].done /\ tab[t].posts = <<>> /\ server = "up" =>
      file.status = "complete"
=============================================================================
