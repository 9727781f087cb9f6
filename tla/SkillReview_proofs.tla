------------------------- MODULE SkillReview_proofs -------------------------
(***************************************************************************)
(* Feedback is saved for the run it was typed for, in any number of tabs,  *)
(* over every tree of runs, with timers, kills, reloads and closed tabs.   *)
(*                                                                         *)
(* The text box is the one place where a text does not carry the run it is *)
(* saved under: it belongs to the run the page shows, and every step that  *)
(* changes one changes the other in the same step.  All other places hold  *)
(* maps, whose entries stay where they are.                                *)
(*                                                                         *)
(* In a calm review (one tab, nothing of a previous iteration, a server    *)
(* that stays and can write, requests in their order, a user who waits for *)
(* the page) what was saved stays saved: the file, what is being written,  *)
(* the requests on their way and the map of the page each have what the    *)
(* one before it had.                                                      *)
(***************************************************************************)
EXTENDS SkillReview, FiniteSetTheorems, SequenceTheorems, TLAPS

\* Maps whose texts were typed for the run they are filed under.
OwnMaps == {m \in Maps : \A r \in Runs : m[r] # None => m[r].run = r}

FileStates == {"absent", "torn", "in_progress", "complete"}

\* Feedback that has been posted or stored: a run that it does not list has no text.
Unlisted(f) == \A r \in Runs \ f.listed : f.reviews[r] = None
Feedback    == {f \in [status : FileStates, reviews : OwnMaps, listed : SUBSET Runs] :
                  Unlisted(f)}

\* What may stand in the text box while run r is shown.
Fits(box, r) == r \in Runs => /\ box \in Entries \cup {None}
                              /\ box # None => box.run = r

IsPage(p) ==
  /\ p = [state |-> p.state, runs |-> p.runs, at |-> p.at, map |-> p.map,
          box |-> p.box, emptied |-> p.emptied, timer |-> p.timer,
          posts |-> p.posts, done |-> p.done, answer |-> p.answer]
  /\ p.map \in OwnMaps
  /\ p.posts \in Seq(Feedback) /\ p.answer \in Feedback
  /\ ToSet(p.runs) \subseteq Runs
  /\ Fits(p.box, Run(p))

IsBody(b) == /\ b = [from |-> b.from, feedback |-> b.feedback]
             /\ b.feedback \in Feedback

\* The inductive invariant.
IInv ==
  /\ file \in Feedback
  /\ server = "writing" => IsBody(body)
  /\ tab = [t \in Tabs |-> tab[t]]
  /\ \A t \in Tabs : IsPage(tab[t])

-----------------------------------------------------------------------------
(* The runs of a page.                                                     *)

LEMMA BeforeIsOrder ==
  /\ \A a \in Runs : ~Before(a, a)
  /\ \A a, b \in Runs : a # b => Before(a, b) \/ Before(b, a)
  /\ \A a, b, c \in Runs : Before(a, b) /\ Before(b, c) => Before(a, c)
<1>1. \A a \in Runs : /\ a = <<a[1], a[2], a[3]>>
                      /\ a[1] \in Nat /\ a[2] \in Nat /\ a[3] \in Nat
  BY IterationAssumption
<1>2. \A a \in Runs : ~Before(a, a)
  BY <1>1 DEF Before
<1>3. ASSUME NEW a \in Runs, NEW b \in Runs, a # b PROVE Before(a, b) \/ Before(b, a)
  <2>1. a[1] # b[1] \/ a[2] # b[2] \/ a[3] # b[3]
    BY <1>1, <1>3
  <2>2. /\ a[1] \in Nat /\ a[2] \in Nat /\ a[3] \in Nat
        /\ b[1] \in Nat /\ b[2] \in Nat /\ b[3] \in Nat
    BY <1>1
  <2>3. QED BY <2>1, <2>2 DEF Before
<1>4. ASSUME NEW a \in Runs, NEW b \in Runs, NEW c \in Runs, Before(a, b), Before(b, c)
      PROVE  Before(a, c)
  <2>1. /\ a[1] \in Nat /\ a[2] \in Nat /\ a[3] \in Nat
        /\ b[1] \in Nat /\ b[2] \in Nat /\ b[3] \in Nat
        /\ c[1] \in Nat /\ c[2] \in Nat /\ c[3] \in Nat
    BY <1>1
  <2>2. QED BY <1>4, <2>1 DEF Before
<1>5. QED BY <1>2, <1>3, <1>4

\* Every set of runs can be listed in order: a run's place is the number of runs
\* that are not after it.
LEMMA ListedInOrder ==
  ASSUME NEW S \in SUBSET Runs
  PROVE  InOrder(S) \in Seq(Runs) /\ ToSet(InOrder(S)) = S
<1> DEFINE upto(i) == {j \in S : j = i \/ Before(j, i)}
           n == Cardinality(S)
           rank == [i \in S |-> Cardinality(upto(i))]
<1>1. IsFiniteSet(S) /\ n \in Nat
  BY IterationAssumption, FS_Subset, FS_CardinalityType
<1>2. ASSUME NEW i \in S PROVE rank[i] \in 1..n
  <2>1. upto(i) \in SUBSET S /\ i \in upto(i)
    OBVIOUS
  <2>2. IsFiniteSet(upto(i)) /\ Cardinality(upto(i)) <= n
    BY <1>1, <2>1, FS_Subset
  <2>3. Cardinality(upto(i)) \in Nat /\ Cardinality(upto(i)) # 0
    BY <2>1, <2>2, FS_CardinalityType, FS_EmptySet
  <2>4. QED BY <1>1, <2>2, <2>3
<1>3. ASSUME NEW i \in S, NEW j \in S, Before(i, j) PROVE rank[i] < rank[j]
  <2>1. upto(i) \in SUBSET upto(j) /\ j \in upto(j) /\ j \notin upto(i)
    <3>1. ASSUME NEW k \in upto(i) PROVE k \in upto(j)
      BY <1>3, <3>1, BeforeIsOrder
    <3>2. j # i /\ ~Before(j, i)
      BY <1>3, BeforeIsOrder
    <3>3. QED BY <3>1, <3>2
  <2>2. IsFiniteSet(upto(j))
    BY <1>1, FS_Subset
  <2>3. /\ Cardinality(upto(i)) <= Cardinality(upto(j))
        /\ Cardinality(upto(j)) # Cardinality(upto(i))
    BY <2>1, <2>2, FS_Subset
  <2>4. rank[i] \in 1..n /\ rank[j] \in 1..n
    BY <1>2
  <2>5. QED BY <1>1, <2>3, <2>4
<1> HIDE DEF rank
<1>4. rank \in [S -> 1..n]
  BY <1>2 DEF rank
<1>5. ASSUME NEW i \in S, NEW j \in S, rank[i] = rank[j] PROVE i = j
  <2>1. rank[i] \in Nat
    BY <1>1, <1>4
  <2>2. ~Before(i, j) /\ ~Before(j, i)
    BY <1>3, <1>5, <2>1
  <2>3. QED BY <2>2, BeforeIsOrder
<1>6. rank \in Injection(S, 1..n)
  BY <1>4, <1>5 DEF Injection, IsInjective
<1>7. IsFiniteSet(1..n) /\ Cardinality(1..n) = n
  BY <1>1, FS_Interval
<1>8. rank \in Surjection(S, 1..n)
  BY <1>1, <1>6, <1>7, FS_Injection
<1>9. \A k \in 1..n : \E i \in S : rank[i] = k
  BY <1>8 DEF Surjection
<1> DEFINE at == [k \in 1..n |-> CHOOSE i \in S : rank[i] = k]
<1>10. at \in [1..n -> S] /\ \A k \in 1..n : rank[at[k]] = k
  BY <1>9
<1> HIDE DEF at
<1>11. ASSUME NEW j \in 1..n, NEW k \in 1..n, j < k PROVE Before(at[j], at[k])
  <2>1. at[j] \in S /\ at[k] \in S /\ rank[at[j]] = j /\ rank[at[k]] = k
    BY <1>10
  <2>2. at[j] # at[k]
    BY <1>11, <2>1
  <2>3. ASSUME Before(at[k], at[j]) PROVE FALSE
    <3>1. rank[at[k]] < rank[at[j]]
      BY <1>3, <2>1, <2>3
    <3>2. k < j /\ j \in Nat /\ k \in Nat
      BY <1>1, <2>1, <3>1
    <3>3. QED BY <1>11, <3>2
  <2>4. QED BY <2>1, <2>2, <2>3, BeforeIsOrder
<1> DEFINE s == InOrder(S)
<1>12. \E f \in [1..n -> S] : \A j, k \in 1..n : j < k => Before(f[j], f[k])
  BY <1>10, <1>11
<1> HIDE DEF n
<1>13. /\ s \in [1..n -> S]
       /\ \A j, k \in 1..n : j < k => Before(s[j], s[k])
  BY <1>12 DEF InOrder, n
<1> HIDE DEF s
<1>14. ASSUME NEW j \in 1..n, NEW k \in 1..n, s[j] = s[k] PROVE j = k
  <2>1. s[j] \in Runs /\ j \in Nat /\ k \in Nat
    BY <1>1, <1>13
  <2>2. ~(j < k) /\ ~(k < j)
    BY <1>13, <1>14, <2>1, BeforeIsOrder
  <2>3. QED BY <2>1, <2>2
<1>15. s \in Injection(1..n, S)
  BY <1>13, <1>14 DEF Injection, IsInjective
<1>16. s \in Surjection(1..n, S)
  BY <1>1, <1>7, <1>15, FS_Injection DEF n
<1>17. \A r \in S : \E k \in 1..n : s[k] = r
  BY <1>16 DEF Surjection
<1>18. s \in Seq(Runs) /\ DOMAIN s = 1..n
  BY <1>1, <1>13
<1>19. ToSet(s) = S
  BY <1>13, <1>17, <1>18 DEF ToSet
<1>20. QED BY <1>18, <1>19 DEF s

LEMMA FoundRuns ==
  /\ FindRuns \in Seq(Runs)
  /\ \A r \in Runs : r \in ToSet(FindRuns) <=> tree[r] # None
BY ListedInOrder DEF FindRuns

-----------------------------------------------------------------------------
(* Maps and pages.                                                         *)

LEMMA NoReviewsOwn == NoReviews \in OwnMaps
BY DEF NoReviews, OwnMaps, Maps

LEMMA NothingFiled == Absent \in Feedback /\ Torn \in Feedback
BY NoReviewsOwn DEF Absent, Torn, NoReviews, Feedback, FileStates, Unlisted

\* What a page consists of.
LEMMA PageParts ==
  ASSUME NEW p, IsPage(p)
  PROVE  /\ p.map \in OwnMaps /\ p.posts \in Seq(Feedback) /\ p.answer \in Feedback
         /\ ToSet(p.runs) \subseteq Runs /\ Fits(p.box, p.runs[p.at])
BY DEF IsPage, Run

LEMMA PageMade ==
  ASSUME NEW state, NEW runs, NEW at, NEW map \in OwnMaps, NEW box, NEW emptied,
         NEW timer, NEW posts \in Seq(Feedback), NEW done, NEW answer \in Feedback,
         Fits(box, runs[at]), ToSet(runs) \subseteq Runs
  PROVE  IsPage([state |-> state, runs |-> runs, at |-> at, map |-> map, box |-> box,
                 emptied |-> emptied, timer |-> timer, posts |-> posts, done |-> done, answer |-> answer])
BY DEF IsPage, Run

\* A map with the text box taken over is still one of own texts.
LEMMA SavedOwn ==
  ASSUME NEW p, IsPage(p)
  PROVE  Saved(p) \in OwnMaps
<1> DEFINE m == [p.map EXCEPT ![Run(p)] = p.box]
<1>1. p.map \in OwnMaps /\ Fits(p.box, Run(p))
  BY DEF IsPage
<1>2. CASE Run(p) \in Runs
  <2>1. p.box \in Entries \cup {None} /\ (p.box # None => p.box.run = Run(p))
    BY <1>1, <1>2 DEF Fits
  <2>2. m \in Maps
    BY <1>1, <2>1 DEF OwnMaps, Maps
  <2>3. \A r \in Runs : m[r] = IF r = Run(p) THEN p.box ELSE p.map[r]
    BY <1>1 DEF OwnMaps, Maps
  <2> HIDE DEF m
  <2>4. m \in OwnMaps
    BY <1>1, <2>1, <2>2, <2>3 DEF OwnMaps
  <2> QED BY <2>4 DEF Saved, m
<1>3. CASE Run(p) \notin Runs
  <2>1. m = p.map
    BY <1>1, <1>3 DEF OwnMaps, Maps
  <2> QED BY <1>1, <2>1 DEF Saved
<1> QED BY <1>2, <1>3

\* Feedback is for runs of a page.
OnPage(m, runs) == \A r \in Runs : m[r] # None => r \in ToSet(runs)

\* What a page posts.
Posting(p, status, map) ==
  [status |-> status, reviews |-> map, listed |-> Listed(p, status, map)]

LEMMA PostingIsFeedback ==
  ASSUME NEW p, IsPage(p), NEW status \in FileStates, NEW map \in OwnMaps,
         status = "complete" => OnPage(map, p.runs)
  PROVE  Posting(p, status, map) \in Feedback
<1> DEFINE listed == Listed(p, status, map)
<1>1. listed \in SUBSET Runs
  BY PageParts DEF Listed
<1>2. \A r \in Runs \ listed : map[r] = None
  BY DEF Listed, OnPage
<1> HIDE DEF listed
<1>3. QED BY <1>1, <1>2 DEF Posting, Feedback, Unlisted, listed

\* A request takes the page's map over, and leaves the box and the run alone.
LEMMA PostPage ==
  ASSUME NEW p, IsPage(p), NEW status \in FileStates, NEW map \in OwnMaps,
         status = "complete" => OnPage(map, p.runs)
  PROVE  /\ IsPage(Post(p, status, map))
         /\ Post(p, status, map).map = map
         /\ Post(p, status, map).runs = p.runs
         /\ Post(p, status, map).at = p.at
         /\ Post(p, status, map).box = p.box
<1> DEFINE q == [p EXCEPT !.map = map]
           f == Posting(p, status, map)
<1>1. q = [state |-> p.state, runs |-> p.runs, at |-> p.at, map |-> map,
           box |-> p.box, emptied |-> p.emptied, timer |-> p.timer,
           posts |-> p.posts, done |-> p.done, answer |-> p.answer]
  BY DEF IsPage
<1>2. /\ p.map \in OwnMaps /\ p.posts \in Seq(Feedback) /\ p.answer \in Feedback
      /\ ToSet(p.runs) \subseteq Runs /\ Fits(p.box, p.runs[p.at])
  BY PageParts
<1>3. Append(p.posts, f) \in Seq(Feedback)
  <2>1. f \in Feedback
    BY PostingIsFeedback
  <2> HIDE DEF f
  <2>2. QED BY <1>2, <2>1
<1>4. CASE server = "down"
  <2>1. Post(p, status, map) = [q EXCEPT !.done = @ \/ status = "complete"]
    BY <1>4 DEF Post
  <2> HIDE DEF q
  <2> QED BY <1>1, <1>2, <2>1 DEF IsPage, Run
<1>5. CASE server # "down"
  <2>1. Post(p, status, map) = [q EXCEPT !.posts = Append(@, f)]
    BY <1>5 DEF Post, Posting
  <2>2. q.posts = p.posts
    BY <1>1
  <2> HIDE DEF q, f
  <2> QED BY <1>1, <1>2, <1>3, <2>1, <2>2 DEF IsPage, Run
<1> QED BY <1>4, <1>5

\* saveCurrentFeedback
LEMMA SaveCurrentPage ==
  ASSUME NEW p, IsPage(p)
  PROVE  /\ IsPage(SaveCurrent(p))
         /\ SaveCurrent(p).runs = p.runs
         /\ SaveCurrent(p).at = p.at
         /\ SaveCurrent(p).box = p.box
<1>1. Saved(p) \in OwnMaps /\ "in_progress" \in FileStates /\ "in_progress" # "complete"
  BY SavedOwn DEF FileStates
<1> QED BY <1>1, PostPage DEF SaveCurrent

\* Fields of a page that no part of the invariant is about may change.
LEMMA OtherFields ==
  ASSUME NEW p, IsPage(p), NEW x
  PROVE  /\ IsPage([p EXCEPT !.timer = x])
         /\ IsPage([p EXCEPT !.done = x])
BY DEF IsPage, Run

\* Another run is shown with the text its map has.
LEMMA ShownPage ==
  ASSUME NEW p, IsPage(p), NEW i, NEW box, Fits(box, p.runs[i])
  PROVE  IsPage([p EXCEPT !.at = i, !.box = box])
<1> DEFINE q   == [p EXCEPT !.at = i]
           new == [p EXCEPT !.at = i, !.box = box]
<1>1. q = [state |-> p.state, runs |-> p.runs, at |-> i, map |-> p.map,
           box |-> p.box, emptied |-> p.emptied, timer |-> p.timer,
           posts |-> p.posts, done |-> p.done, answer |-> p.answer]
  BY DEF IsPage
<1>2. new = [q EXCEPT !.box = box]
  OBVIOUS
<1>3. /\ p.map \in OwnMaps /\ p.posts \in Seq(Feedback) /\ p.answer \in Feedback
      /\ ToSet(p.runs) \subseteq Runs
  BY PageParts
<1> HIDE DEF q, new
<1>4. new = [state |-> p.state, runs |-> p.runs, at |-> i, map |-> p.map,
             box |-> box, emptied |-> p.emptied, timer |-> p.timer,
             posts |-> p.posts, done |-> p.done, answer |-> p.answer]
  BY <1>1, <1>2
<1>5. IsPage(new)
  BY <1>3, <1>4, PageMade
<1> QED BY <1>5 DEF new

\* A page without a text shows the runs it is given.
LEMMA LoadedPage ==
  ASSUME NEW p, IsPage(p), p.box = None, NEW state, NEW runs, ToSet(runs) \subseteq Runs
  PROVE  IsPage([p EXCEPT !.state = state, !.runs = runs])
<1> DEFINE q   == [p EXCEPT !.state = state]
           new == [p EXCEPT !.state = state, !.runs = runs]
<1>1. q = [state |-> state, runs |-> p.runs, at |-> p.at, map |-> p.map,
           box |-> p.box, emptied |-> p.emptied, timer |-> p.timer,
           posts |-> p.posts, done |-> p.done, answer |-> p.answer]
  BY DEF IsPage
<1>2. new = [q EXCEPT !.runs = runs]
  OBVIOUS
<1>3. /\ p.map \in OwnMaps /\ p.posts \in Seq(Feedback) /\ p.answer \in Feedback
      /\ Fits(p.box, runs[p.at])
  BY PageParts DEF Fits
<1> HIDE DEF q, new
<1>4. new = [state |-> state, runs |-> runs, at |-> p.at, map |-> p.map,
             box |-> p.box, emptied |-> p.emptied, timer |-> p.timer,
             posts |-> p.posts, done |-> p.done, answer |-> p.answer]
  BY <1>1, <1>2
<1>5. IsPage(new)
  BY <1>3, <1>4, PageMade
<1> QED BY <1>5 DEF new

\* A text that fits the run shown is in the box.
LEMMA TypedPage ==
  ASSUME NEW p, IsPage(p), NEW box, Fits(box, Run(p)), NEW timer, NEW emptied
  PROVE  IsPage([p EXCEPT !.box = box, !.timer = timer, !.emptied = emptied])
<1> DEFINE q   == [p EXCEPT !.box = box]
           r   == [q EXCEPT !.timer = timer]
           new == [p EXCEPT !.box = box, !.timer = timer, !.emptied = emptied]
<1>1. q = [state |-> p.state, runs |-> p.runs, at |-> p.at, map |-> p.map,
           box |-> box, emptied |-> p.emptied, timer |-> p.timer,
           posts |-> p.posts, done |-> p.done, answer |-> p.answer]
  BY DEF IsPage
<1>2. new = [r EXCEPT !.emptied = emptied]
  OBVIOUS
<1>3. /\ p.map \in OwnMaps /\ p.posts \in Seq(Feedback) /\ p.answer \in Feedback
      /\ ToSet(p.runs) \subseteq Runs /\ Fits(box, p.runs[p.at])
  BY PageParts DEF Run
<1> HIDE DEF q
<1>4. r = [state |-> p.state, runs |-> p.runs, at |-> p.at, map |-> p.map,
           box |-> box, emptied |-> p.emptied, timer |-> timer,
           posts |-> p.posts, done |-> p.done, answer |-> p.answer]
  BY <1>1
<1> HIDE DEF r, new
<1>5. new = [state |-> p.state, runs |-> p.runs, at |-> p.at, map |-> p.map,
             box |-> box, emptied |-> emptied, timer |-> timer,
             posts |-> p.posts, done |-> p.done, answer |-> p.answer]
  BY <1>2, <1>4
<1>6. IsPage(new)
  BY <1>3, <1>5, PageMade
<1> QED BY <1>6 DEF new

\* A page gets the answer it waits for.
LEMMA GotPage ==
  ASSUME NEW p, IsPage(p), NEW state, NEW answer \in Feedback
  PROVE  IsPage([p EXCEPT !.state = state, !.answer = answer])
<1> DEFINE q   == [p EXCEPT !.state = state]
           new == [p EXCEPT !.state = state, !.answer = answer]
<1>1. q = [state |-> state, runs |-> p.runs, at |-> p.at, map |-> p.map,
           box |-> p.box, emptied |-> p.emptied, timer |-> p.timer,
           posts |-> p.posts, done |-> p.done, answer |-> p.answer]
  BY DEF IsPage
<1>2. new = [q EXCEPT !.answer = answer]
  OBVIOUS
<1> HIDE DEF q, new
<1>3. new = [state |-> state, runs |-> p.runs, at |-> p.at, map |-> p.map,
             box |-> p.box, emptied |-> p.emptied, timer |-> p.timer,
             posts |-> p.posts, done |-> p.done, answer |-> answer]
  BY <1>1, <1>2
<1>4. IsPage(new)
  BY <1>3, PageParts, PageMade
<1> QED BY <1>4 DEF new

\* A page is opened with the feedback it has loaded.
LEMMA OpenedPage ==
  ASSUME NEW p, IsPage(p)
  PROVE  [p EXCEPT !.state = "open", !.at = 1, !.map = Loaded(p),
                   !.box = Loaded(p)[p.runs[1]], !.answer = Absent] =
           [state |-> "open", runs |-> p.runs, at |-> 1, map |-> Loaded(p),
            box |-> Loaded(p)[p.runs[1]], emptied |-> p.emptied, timer |-> p.timer,
            posts |-> p.posts, done |-> p.done, answer |-> Absent]
<1>0. PICK map, box : map = Loaded(p) /\ box = map[p.runs[1]]
  OBVIOUS
<1> DEFINE q1 == [p EXCEPT !.state = "open"]
           q2 == [q1 EXCEPT !.at = 1]
           q3 == [q2 EXCEPT !.map = map]
           q4 == [q3 EXCEPT !.box = box]
           q  == [p EXCEPT !.state = "open", !.at = 1, !.map = map, !.box = box,
                           !.answer = Absent]
<1>1. q = [q4 EXCEPT !.answer = Absent]
  OBVIOUS
<1>2. q1 = [state |-> "open", runs |-> p.runs, at |-> p.at, map |-> p.map,
            box |-> p.box, emptied |-> p.emptied, timer |-> p.timer,
            posts |-> p.posts, done |-> p.done, answer |-> p.answer]
  BY DEF IsPage
<1> HIDE DEF q1
<1>3. q2 = [state |-> "open", runs |-> p.runs, at |-> 1, map |-> p.map,
            box |-> p.box, emptied |-> p.emptied, timer |-> p.timer,
            posts |-> p.posts, done |-> p.done, answer |-> p.answer]
  BY <1>2
<1> HIDE DEF q2
<1>4. q3 = [state |-> "open", runs |-> p.runs, at |-> 1, map |-> map,
            box |-> p.box, emptied |-> p.emptied, timer |-> p.timer,
            posts |-> p.posts, done |-> p.done, answer |-> p.answer]
  BY <1>3
<1> HIDE DEF q3
<1>5. q4 = [state |-> "open", runs |-> p.runs, at |-> 1, map |-> map,
            box |-> box, emptied |-> p.emptied, timer |-> p.timer,
            posts |-> p.posts, done |-> p.done, answer |-> p.answer]
  BY <1>4
<1> HIDE DEF q4, q
<1>6. q = [state |-> "open", runs |-> p.runs, at |-> 1, map |-> map,
           box |-> box, emptied |-> p.emptied, timer |-> p.timer,
           posts |-> p.posts, done |-> p.done, answer |-> Absent]
  BY <1>1, <1>5
<1>7. QED BY <1>0, <1>6 DEF q

\* The saved feedback over the map.
LEMMA LoadedOwn ==
  ASSUME NEW p, IsPage(p)
  PROVE  Loaded(p) \in OwnMaps
<1>1. p.map \in OwnMaps /\ p.answer.reviews \in OwnMaps
  BY PageParts DEF Feedback
<1>2. QED BY <1>1 DEF Loaded, OwnMaps, Maps

LEMMA OwnTextFits ==
  ASSUME NEW m \in OwnMaps, NEW r
  PROVE  Fits(m[r], r)
BY DEF OwnMaps, Maps, Fits

LEMMA ClosedIsPage == IsPage(Closed)
<1>1. ToSet(<<>>) \subseteq Runs /\ <<>> \in Seq(Feedback)
  BY DEF ToSet
<1>2. Absent \in Feedback /\ NoReviews \in OwnMaps
  BY NoReviewsOwn, NothingFiled
<1>3. QED BY <1>1, <1>2 DEF Closed, IsPage, Fits, Run

-----------------------------------------------------------------------------
(* The steps of the server.                                                *)

\* A step that changes one page only.
LEMMA OnePage ==
  ASSUME IInv, NEW t \in Tabs, NEW p, IsPage(p),
         tab' = [tab EXCEPT ![t] = p], UNCHANGED <<server, body, file>>
  PROVE  IInv'
<1>1. tab' = [s \in Tabs |-> IF s = t THEN p ELSE tab[s]]
  BY DEF IInv
<1>2. \A s \in Tabs : tab'[s] = IF s = t THEN p ELSE tab[s]
  BY <1>1
<1>3. \A s \in Tabs : IsPage(tab'[s])
  BY <1>2 DEF IInv
<1>4. tab' = [s \in Tabs |-> tab'[s]]
  BY <1>1
<1>5. file' \in Feedback /\ (server' = "writing" => IsBody(body'))
  BY DEF IInv
<1> QED BY <1>3, <1>4, <1>5 DEF IInv, IsPage, Run

\* Requests are taken out of a page.
LEMMA Removed ==
  ASSUME NEW S, NEW q \in Seq(S), NEW i \in DOMAIN q
  PROVE  /\ q[i] \in S /\ RemoveAt(q, i) \in Seq(S)
         /\ Len(RemoveAt(q, 1)) = Len(q) - 1
         /\ \A k \in 1..(Len(q) - 1) : RemoveAt(q, 1)[k] = q[k + 1]
<1> DEFINE n == Len(q)
           a(k) == SubSeq(q, 1, k - 1)
           b(k) == SubSeq(q, k + 1, Len(q))
<1>1. n \in Nat /\ DOMAIN q = 1..n /\ \A k \in 1..n : q[k] \in S
  OBVIOUS
<1>2. i \in 1..n /\ 1 \in 1..n
  BY <1>1
<1>3. ASSUME NEW k \in 1..n
      PROVE  /\ a(k) \in Seq(S) /\ b(k) \in Seq(S)
             /\ Len(a(k)) = k - 1 /\ Len(b(k)) = n - k
             /\ \A j \in 1..(n - k) : b(k)[j] = q[k + j]
  <2>1. /\ k \in Int /\ 1 \in Int /\ k - 1 \in Int /\ k + 1 \in Int /\ n \in Int
        /\ \A j \in 1..(k - 1) : q[j] \in S
        /\ \A j \in (k + 1)..n : q[j] \in S
    BY <1>1
  <2> HIDE DEF n
  <2>2. /\ SubSeq(q, 1, k - 1) \in Seq(S)
        /\ Len(SubSeq(q, 1, k - 1)) = IF 1 <= k - 1 THEN k - 1 - 1 + 1 ELSE 0
    BY <2>1, SubSeqProperties
  <2>3. /\ SubSeq(q, k + 1, n) \in Seq(S)
        /\ Len(SubSeq(q, k + 1, n)) = IF k + 1 <= n THEN n - (k + 1) + 1 ELSE 0
        /\ \A j \in 1..(n - (k + 1) + 1) : SubSeq(q, k + 1, n)[j] = q[k + 1 + j - 1]
    BY <2>1, SubSeqProperties
  <2>4. \A j \in 1..(n - k) : SubSeq(q, k + 1, n)[j] = q[k + j]
    <3>1. n - (k + 1) + 1 = n - k
      BY <2>1
    <3>2. ASSUME NEW j \in 1..(n - k) PROVE k + 1 + j - 1 = k + j
      BY <2>1
    <3>3. QED BY <2>3, <3>1, <3>2
  <2>5. /\ (IF 1 <= k - 1 THEN k - 1 - 1 + 1 ELSE 0) = k - 1
        /\ (IF k + 1 <= n THEN n - (k + 1) + 1 ELSE 0) = n - k
    BY <1>1, <2>1
  <2>6. b(k) = SubSeq(q, k + 1, n)
    BY DEF n
  <2>7. QED BY <2>2, <2>3, <2>4, <2>5, <2>6
<1>4. \A k : RemoveAt(q, k) = a(k) \o b(k)
  BY DEF RemoveAt
<1> HIDE DEF a, b, n
<1>5. RemoveAt(q, i) \in Seq(S)
  BY <1>2, <1>3, <1>4, ConcatProperties
<1>6. /\ Len(a(1)) = 0 /\ Len(b(1)) = n - 1 /\ a(1) \in Seq(S) /\ b(1) \in Seq(S)
      /\ \A j \in 1..(n - 1) : b(1)[j] = q[1 + j]
  BY <1>2, <1>3
<1>7. /\ Len(a(1) \o b(1)) = n - 1
      /\ \A j \in 1..(n - 1) : (a(1) \o b(1))[j] = q[j + 1]
  <2>1. /\ Len(a(1) \o b(1)) = 0 + (n - 1)
        /\ \A j \in 1..(0 + (n - 1)) :
             (a(1) \o b(1))[j] = IF j <= 0 THEN a(1)[j] ELSE b(1)[j - 0]
    BY <1>6, ConcatProperties
  <2>2. QED BY <1>1, <1>6, <2>1
<1>8. QED BY <1>1, <1>2, <1>4, <1>5, <1>7 DEF n

\* A page whose requests change.
LEMMA PostsChange ==
  ASSUME NEW p, IsPage(p), NEW posts \in Seq(Feedback)
  PROVE  IsPage([p EXCEPT !.posts = posts])
<1> DEFINE q == [p EXCEPT !.posts = posts]
<1>1. q = [state |-> p.state, runs |-> p.runs, at |-> p.at, map |-> p.map,
           box |-> p.box, emptied |-> p.emptied, timer |-> p.timer,
           posts |-> posts, done |-> p.done, answer |-> p.answer]
  BY DEF IsPage
<1> HIDE DEF q
<1>2. IsPage(q)
  BY <1>1, PageParts, PageMade
<1>3. QED BY <1>2 DEF q

LEMMA StartWriteStep == ASSUME IInv, NEW t \in Tabs, StartWrite(t) PROVE IInv'
<1>1. PICK i \in DOMAIN tab[t].posts :
        /\ body' = [from |-> t, feedback |-> tab[t].posts[i]]
        /\ tab' = [tab EXCEPT ![t].posts = RemoveAt(@, i)]
  BY DEF StartWrite
<1> DEFINE p == [tab[t] EXCEPT !.posts = RemoveAt(@, i)]
<1>2. tab[t].posts \in Seq(Feedback) /\ IsPage(tab[t])
  BY PageParts DEF IInv
<1>3. tab[t].posts[i] \in Feedback /\ RemoveAt(tab[t].posts, i) \in Seq(Feedback)
  BY <1>1, <1>2, Removed
<1>4. IsPage(p)
  BY <1>2, <1>3, PostsChange
<1>5. tab' = [s \in Tabs |-> IF s = t THEN p ELSE tab[s]]
  BY <1>1 DEF IInv
<1>6. \A s \in Tabs : tab'[s] = IF s = t THEN p ELSE tab[s]
  BY <1>5
<1>7. \A s \in Tabs : IsPage(tab'[s])
  BY <1>4, <1>6 DEF IInv
<1>8. tab' = [s \in Tabs |-> tab'[s]]
  BY <1>5
<1>9. IsBody(body')
  BY <1>1, <1>3 DEF IsBody
<1>10. file' \in Feedback
  BY NothingFiled DEF StartWrite
<1> QED BY <1>7, <1>8, <1>9, <1>10 DEF IInv, IsPage, Run

\* An answer opens the dialog of a page at most.
LEMMA AnsweredPages ==
  ASSUME IInv, NEW t, NEW f, NEW tabs, tabs = Answered(t, f)
  PROVE  /\ tabs = [s \in Tabs |-> tabs[s]]
         /\ \A s \in Tabs : IsPage(tabs[s])
<1>1. CASE tabs = tab
  BY <1>1 DEF IInv
<1>2. CASE tabs = [tab EXCEPT ![t].done = TRUE]
  <2> DEFINE new(s) == IF s = t THEN [tab[s] EXCEPT !.done = TRUE] ELSE tab[s]
  <2>1. tabs = [s \in Tabs |-> new(s)]
    BY <1>2 DEF IInv
  <2>2. \A s \in Tabs : IsPage(new(s))
    BY OtherFields DEF IInv
  <2> HIDE DEF new
  <2>3. QED BY <2>1, <2>2
<1> QED BY <1>1, <1>2 DEF Answered

LEMMA FinishWriteStep == ASSUME IInv, FinishWrite \/ FailWrite PROVE IInv'
<1>1. file' \in Feedback /\ server' = "up"
  BY DEF IInv, FinishWrite, FailWrite, IsBody
<1>2. tab' = Answered(body.from, body.feedback)
  BY DEF FinishWrite, FailWrite
<1>3. tab' = [s \in Tabs |-> tab'[s]] /\ \A s \in Tabs : IsPage(tab'[s])
  BY <1>2, AnsweredPages
<1> QED BY <1>1, <1>3 DEF IInv, IsPage, Run

LEMMA FailOpenStep == ASSUME IInv, NEW t \in Tabs, FailOpen(t) PROVE IInv'
<1>1. PICK tabs : tabs = Answered(t, Head(tab[t].posts))
  OBVIOUS
<1>2. tabs = [s \in Tabs |-> tabs[s]] /\ \A s \in Tabs : IsPage(tabs[s])
  BY <1>1, AnsweredPages
<1>3. tabs[t].posts = tab[t].posts
  <2>1. IsPage(tab[t])
    BY DEF IInv
  <2>2. tabs[t] = tab[t] \/ tabs[t] = [tab[t] EXCEPT !.done = TRUE]
    BY <1>1 DEF Answered, IInv
  <2>3. [tab[t] EXCEPT !.done = TRUE].posts = tab[t].posts
    BY <2>1 DEF IsPage
  <2>4. QED BY <2>2, <2>3
<1>4. tab[t].posts \in Seq(Feedback) /\ tab[t].posts # <<>>
  BY PageParts DEF IInv, FailOpen
<1>5. Tail(tabs[t].posts) \in Seq(Feedback)
  BY <1>3, <1>4
<1> DEFINE p == [tabs[t] EXCEPT !.posts = Tail(@)]
<1>6. IsPage(p)
  BY <1>2, <1>5, PostsChange
<1>7. tab' = [tabs EXCEPT ![t].posts = Tail(@)]
  BY <1>1 DEF FailOpen
<1>8. tab' = [s \in Tabs |-> IF s = t THEN p ELSE tabs[s]]
  BY <1>2, <1>7
<1> HIDE DEF p
<1>9. tab' = [s \in Tabs |-> tab'[s]] /\ \A s \in Tabs : IsPage(tab'[s])
  BY <1>2, <1>6, <1>8
<1> QED BY <1>9 DEF IInv, FailOpen, IsPage, Run, IsBody

LEMMA KillStep == ASSUME IInv, Kill PROVE IInv'
<1>1. PICK done : tab' = [t \in Tabs |-> [tab[t] EXCEPT !.posts = <<>>, !.done = done[t]]]
  <2> DEFINE Submits(t) ==
               \/ \E i \in DOMAIN tab[t].posts : tab[t].posts[i].status = "complete"
               \/ body # None /\ body.from = t /\ body.feedback.status = "complete"
             d == [t \in Tabs |-> tab[t].done \/ Submits(t)]
  <2>1. tab' = [t \in Tabs |-> [tab[t] EXCEPT !.posts = <<>>, !.done = @ \/ Submits(t)]]
    BY Zenon DEF Kill
  <2>2. \A t \in Tabs : d[t] = (tab[t].done \/ Submits(t))
    BY Zenon
  <2> HIDE DEF d
  <2> QED BY <2>1, <2>2
<1>2. \A t \in Tabs : tab'[t] = [tab[t] EXCEPT !.posts = <<>>, !.done = done[t]]
  BY <1>1
<1>3. <<>> \in Seq(Feedback)
  OBVIOUS
<1>4. ASSUME NEW t \in Tabs PROVE IsPage(tab'[t])
  <2> DEFINE q == tab[t]
  <2>1. IsPage(q)
    BY DEF IInv
  <2>2. tab'[t] = [state |-> q.state, runs |-> q.runs, at |-> q.at, map |-> q.map,
                   box |-> q.box, emptied |-> q.emptied, timer |-> q.timer,
                   posts |-> <<>>, done |-> done[t], answer |-> q.answer]
    BY <1>2, <2>1 DEF IsPage
  <2>3. /\ q.map \in OwnMaps /\ q.posts \in Seq(Feedback) /\ q.answer \in Feedback
        /\ ToSet(q.runs) \subseteq Runs /\ Fits(q.box, q.runs[q.at])
    BY <2>1, PageParts
  <2> HIDE DEF q
  <2>4. PICK posts \in Seq(Feedback) : posts = <<>>
    BY <1>3
  <2>5. IsPage([state |-> q.state, runs |-> q.runs, at |-> q.at, map |-> q.map,
                box |-> q.box, emptied |-> q.emptied, timer |-> q.timer,
                posts |-> posts, done |-> done[t], answer |-> q.answer])
    BY <2>3, PageMade
  <2> QED BY <2>2, <2>4, <2>5
<1>5. tab' = [t \in Tabs |-> tab'[t]]
  BY <1>1
<1>6. file' \in Feedback /\ server' = "down"
  BY DEF IInv, Kill
<1> QED BY <1>4, <1>5, <1>6 DEF IInv, IsPage, Run

LEMMA Unchanged ==
  ASSUME IInv, UNCHANGED <<body, file, tab>>, server' = server \/ server' = "up"
  PROVE  IInv'
BY DEF IInv, IsPage, Run, IsBody

-----------------------------------------------------------------------------
(* The steps of a page.                                                    *)

LEMMA LoadPageStep == ASSUME IInv, NEW t \in Tabs, LoadPage(t) PROVE IInv'
<1> DEFINE state == IF env.previous THEN "open" ELSE "loading"
<1>1. Closed.box = None
  BY DEF Closed
<1>2. ToSet(FindRuns) \subseteq Runs
  BY FoundRuns DEF ToSet
<1>3. tab' = [tab EXCEPT ![t] = [Closed EXCEPT !.state = state, !.runs = FindRuns]]
  BY DEF LoadPage
<1> HIDE DEF state
<1>4. IsPage([Closed EXCEPT !.state = state, !.runs = FindRuns])
  BY <1>1, <1>2, ClosedIsPage, LoadedPage
<1> QED BY <1>3, <1>4, OnePage DEF LoadPage

LEMMA GetFeedbackStep == ASSUME IInv, NEW t \in Tabs, GetFeedback(t) PROVE IInv'
<1>1. PICK answer \in Feedback :
        tab' = [tab EXCEPT ![t].state = "answered", ![t].answer = answer]
  <2>1. (IF server = "down" THEN Absent ELSE file) \in Feedback
    BY NothingFiled DEF IInv
  <2>2. QED BY <2>1 DEF GetFeedback
<1>2. PICK state : state = "answered"
  OBVIOUS
<1> DEFINE p == [tab[t] EXCEPT !.state = state, !.answer = answer]
<1>3. tab' = [tab EXCEPT ![t] = p]
  BY <1>1, <1>2
<1>4. IsPage(p)
  BY GotPage DEF IInv
<1> QED BY <1>3, <1>4, OnePage DEF GetFeedback

LEMMA LoadFeedbackStep == ASSUME IInv, NEW t \in Tabs, LoadFeedback(t) PROVE IInv'
<1>1. PICK o : o = tab[t] /\ IsPage(o)
  BY DEF IInv
<1> DEFINE p == [o EXCEPT !.state = "open", !.at = 1, !.map = Loaded(o),
                          !.box = Loaded(o)[o.runs[1]], !.answer = Absent]
<1>2. tab' = [tab EXCEPT ![t] = p]
  BY <1>1, Zenon DEF LoadFeedback
<1>3. Loaded(o) \in OwnMaps
  BY <1>1, LoadedOwn
<1>4. Fits(Loaded(o)[o.runs[1]], o.runs[1])
  BY <1>3, OwnTextFits
<1>5. p = [state |-> "open", runs |-> o.runs, at |-> 1, map |-> Loaded(o),
           box |-> Loaded(o)[o.runs[1]], emptied |-> o.emptied, timer |-> o.timer,
           posts |-> o.posts, done |-> o.done, answer |-> Absent]
  BY <1>1, OpenedPage
<1> HIDE DEF p
<1>6. IsPage(p)
  BY <1>1, <1>3, <1>4, <1>5, PageParts, NothingFiled, PageMade
<1> QED BY <1>2, <1>6, OnePage DEF LoadFeedback

LEMMA TypeStep == ASSUME IInv, NEW t \in Tabs, Type(t) PROVE IInv'
<1>1. PICK box \in {[run |-> Run(tab[t]), text |-> x] : x \in Texts} \cup {None} :
        \E timer :
          tab' = [tab EXCEPT ![t].box = box, ![t].timer = timer,
                             ![t].emptied = IF box = None THEN @ \cup {Run(tab[t])} ELSE @]
  BY DEF Type
<1>2. Fits(box, Run(tab[t]))
  BY <1>1 DEF Fits, Entries
<1>3. PICK timer :
        tab' = [tab EXCEPT ![t].box = box, ![t].timer = timer,
                           ![t].emptied = IF box = None THEN @ \cup {Run(tab[t])} ELSE @]
  BY <1>1
<1> DEFINE e == IF box = None THEN tab[t].emptied \cup {Run(tab[t])} ELSE tab[t].emptied
<1>4. tab' = [tab EXCEPT ![t] =
                [tab[t] EXCEPT !.box = box, !.timer = timer, !.emptied = e]]
  BY <1>3
<1> HIDE DEF e
<1>5. IsPage([tab[t] EXCEPT !.box = box, !.timer = timer, !.emptied = e])
  BY <1>2, TypedPage DEF IInv
<1> QED BY <1>4, <1>5, OnePage DEF Type

LEMMA TimerStep == ASSUME IInv, NEW t \in Tabs, TimerFires(t) PROVE IInv'
<1>1. IsPage(SaveCurrent(tab[t]))
  BY SaveCurrentPage DEF IInv
<1>2. IsPage([SaveCurrent(tab[t]) EXCEPT !.timer = FALSE])
  BY <1>1, OtherFields
<1> QED BY <1>2, OnePage DEF TimerFires

LEMMA CloseDialogStep == ASSUME IInv, NEW t \in Tabs, CloseDialog(t) PROVE IInv'
<1>1. IsPage(SaveCurrent(tab[t]))
  BY SaveCurrentPage DEF IInv
<1>2. IsPage([SaveCurrent(tab[t]) EXCEPT !.done = FALSE])
  BY <1>1, OtherFields
<1> QED BY <1>2, OnePage DEF CloseDialog

LEMMA NavigateStep == ASSUME IInv, NEW t \in Tabs, Navigate(t) PROVE IInv'
<1>1. PICK i : tab' = [tab EXCEPT ![t] = [SaveCurrent(@) EXCEPT !.at = i,
                                            !.box = Saved(tab[t])[tab[t].runs[i]]]]
  BY Zenon DEF Navigate
<1>2. IsPage(SaveCurrent(tab[t])) /\ SaveCurrent(tab[t]).runs = tab[t].runs
  BY SaveCurrentPage DEF IInv
<1>3. Saved(tab[t]) \in OwnMaps
  BY SavedOwn DEF IInv
<1>4. Fits(Saved(tab[t])[tab[t].runs[i]], tab[t].runs[i])
  BY <1>3, OwnTextFits
<1>5. IsPage([SaveCurrent(tab[t]) EXCEPT !.at = i, !.box = Saved(tab[t])[tab[t].runs[i]]])
  BY <1>2, <1>4, ShownPage
<1> QED BY <1>1, <1>5, OnePage DEF Navigate

LEMMA SubmitStep == ASSUME IInv, NEW t \in Tabs, Submit(t) PROVE IInv'
<1> DEFINE p == tab[t]
           OfPage == [r \in Runs |-> IF r \in ToSet(p.runs) THEN Saved(p)[r] ELSE None]
           q == Post(p, "complete", OfPage)
<1>1. Saved(p) \in OwnMaps /\ IsPage(p)
  BY SavedOwn DEF IInv
<1>2. OfPage \in OwnMaps
  <2> HIDE DEF p
  <2> QED BY <1>1 DEF OwnMaps, Maps
<1>3. IsPage(q)
  <2>1. "complete" \in FileStates
    BY DEF FileStates
  <2>2. OnPage(OfPage, p.runs)
    <3> HIDE DEF p
    <3>1. QED BY DEF OnPage
  <2> HIDE DEF p, OfPage
  <2> QED BY <1>1, <1>2, <2>1, <2>2, PostPage
<1>4. IsPage([q EXCEPT !.map = Saved(p)])
  <2> HIDE DEF p, q
  <2> QED BY <1>1, <1>3 DEF IsPage, Run
<1>5. tab' = [tab EXCEPT ![t] = [q EXCEPT !.map = Saved(p)]]
  BY Zenon DEF Submit
<1> QED BY <1>4, <1>5, OnePage DEF Submit

LEMMA LeaveStep == ASSUME IInv, NEW t \in Tabs, Leave(t) PROVE IInv'
<1>1. tab' = [s \in Tabs |-> IF s = t THEN Closed ELSE tab[s]]
  BY DEF IInv, Leave
<1>2. \A s \in Tabs : tab'[s] = IF s = t THEN Closed ELSE tab[s]
  BY <1>1
<1>3. \A s \in Tabs : IsPage(tab'[s])
  BY <1>2, ClosedIsPage DEF IInv
<1>4. tab' = [s \in Tabs |-> tab'[s]]
  BY <1>1
<1>5. server' = "writing" => IsBody(body')
  BY DEF IInv, Leave, IsBody
<1>6. file' \in Feedback
  BY DEF IInv, Leave
<1> QED BY <1>3, <1>4, <1>5, <1>6 DEF IInv, IsPage, Run

-----------------------------------------------------------------------------
(* What a calm review keeps.                                               *)

\* Later, a map has every text that an earlier one has, but for emptied boxes.
Kept(earlier, later, emptied) ==
  \A r \in Runs : earlier[r] # None => later[r] # None \/ r \in emptied

\* What the file has, or will have once the write has finished.
Base == IF server = "writing" THEN body.feedback.reviews ELSE file.reviews

\* What it will have when all requests are handled.
Latest(t) == IF tab[t].posts = <<>> THEN Base
             ELSE tab[t].posts[Len(tab[t].posts)].reviews

\* Feedback is for runs that are there.
Present(m) == \A r \in Runs : m[r] # None => tree[r] # None

\* The page shows a run, of those that are there.
Shows(p) == /\ p.runs \in Seq(Runs) /\ p.at \in DOMAIN p.runs
            /\ \A r \in ToSet(p.runs) : tree[r] # None

Loading(t) ==
  /\ tab[t].state \in {"loading", "answered"} /\ Shows(tab[t])
  /\ tab[t].posts = <<>> /\ ~tab[t].done /\ tab[t].map = NoReviews
  /\ server = "up" /\ OnPage(file.reviews, tab[t].runs)
  /\ tab[t].state = "answered" => tab[t].answer.reviews = file.reviews

\* The requests of a page lead from the file to its map, each with what the one
\* before had.
Open(t) ==
  LET p == tab[t] IN
  /\ p.state = "open" /\ Shows(p)
  /\ OnPage(p.map, p.runs)
  /\ p.map[Run(p)] # None /\ p.box = None => Run(p) \in p.emptied
  /\ Latest(t) = p.map
  /\ p.posts # <<>> => Kept(Base, p.posts[1].reviews, p.emptied)
  /\ \A i \in 1..(Len(p.posts) - 1) :
       Kept(p.posts[i].reviews, p.posts[i + 1].reviews, p.emptied)
  /\ \A i \in 1..Len(p.posts) : Present(p.posts[i].reviews)

Calmly ==
  /\ server \in {"up", "writing"}
  /\ Present(file.reviews)
  /\ server = "writing" => Present(body.feedback.reviews)
  /\ server = "writing" =>
       \/ body.from = None /\ \A t \in Tabs : tab[t].state = "closed"
       \/ body.from \in Tabs /\ tab[body.from].state = "open"
  /\ \A t \in Tabs : \/ tab[t] = Closed
                     \/ t \in env.tabs /\ (Loading(t) \/ Open(t))

CInv ==
  /\ tree \in [Runs -> RunStates] /\ env \in Situations
  /\ Calm => Calmly

-----------------------------------------------------------------------------
(* The steps of a calm review.                                             *)

LEMMA OneTab ==
  ASSUME env \in Situations, Calm, NEW s \in env.tabs, NEW t \in env.tabs
  PROVE  s = t
<1>1. env.tabs \in SUBSET Tabs
  BY DEF Situations
<1>2. IsFiniteSet(env.tabs) /\ Cardinality(env.tabs) \in Nat
  BY <1>1, ReviewAssumption, FS_Subset, FS_CardinalityType
<1>3. ASSUME s # t PROVE FALSE
  <2>1. IsFiniteSet({s}) /\ Cardinality({s}) = 1
    BY FS_Singleton
  <2>2. Cardinality({s} \cup {t}) = 2
    <3>1. t \notin {s}
      BY <1>3
    <3>2. Cardinality({s} \cup {t}) = Cardinality({s}) + 1
      BY <2>1, <3>1, FS_AddElement
    <3>3. QED BY <2>1, <3>2
  <2>3. {s} \cup {t} \in SUBSET env.tabs
    OBVIOUS
  <2>4. Cardinality({s} \cup {t}) <= Cardinality(env.tabs)
    BY <1>2, <2>3, FS_Subset
  <2>5. QED BY <1>2, <2>2, <2>4 DEF Calm
<1>4. QED BY <1>3

\* Beside an open or a loading page there are only closed ones.
LEMMA OthersClosed ==
  ASSUME CInv, Calm, NEW t \in Tabs, tab[t] # Closed
  PROVE  /\ t \in env.tabs /\ (Loading(t) \/ Open(t))
         /\ \A s \in Tabs : s # t => tab[s] = Closed
BY OneTab DEF CInv, Calmly

LEMMA ClosedState ==
  ASSUME NEW t, tab[t] = Closed
  PROVE  tab[t].state = "closed" /\ tab[t].posts = <<>>
BY DEF Closed

\* A page that shows a run: the box belongs to a run of the page.
LEMMA SavedIs ==
  ASSUME NEW p, IsPage(p), Shows(p)
  PROVE  /\ Run(p) \in Runs /\ Run(p) \in ToSet(p.runs)
         /\ \A r \in Runs : Saved(p)[r] = IF r = Run(p) THEN p.box ELSE p.map[r]
<1>1. Run(p) \in Runs /\ Run(p) \in ToSet(p.runs)
  BY DEF Shows, Run, ToSet
<1>2. p.map \in [Runs -> Entries \cup {None}]
  BY DEF IsPage, OwnMaps, Maps
<1>3. QED BY <1>1, <1>2 DEF Saved

\* What a page posts is of its runs, and has all that its map had.
LEMMA SavedKeeps ==
  ASSUME NEW t \in Tabs, IsPage(tab[t]), Open(t)
  PROVE  LET p == tab[t] IN
         /\ OnPage(Saved(p), p.runs) /\ Present(Saved(p))
         /\ Kept(p.map, Saved(p), p.emptied)
<1> DEFINE p == tab[t]
<1>1. /\ IsPage(p) /\ Shows(p) /\ OnPage(p.map, p.runs)
      /\ p.map[Run(p)] # None /\ p.box = None => Run(p) \in p.emptied
  BY DEF Open
<1>2. /\ Run(p) \in Runs /\ Run(p) \in ToSet(p.runs)
      /\ \A r \in Runs : Saved(p)[r] = IF r = Run(p) THEN p.box ELSE p.map[r]
  BY <1>1, SavedIs
<1>3. \A r \in ToSet(p.runs) : tree[r] # None
  BY <1>1 DEF Shows
<1> HIDE DEF p
<1>4. OnPage(Saved(p), p.runs)
  BY <1>1, <1>2 DEF OnPage
<1>5. Present(Saved(p))
  BY <1>3, <1>4 DEF OnPage, Present
<1>6. Kept(p.map, Saved(p), p.emptied)
  BY <1>1, <1>2 DEF Kept
<1>7. QED BY <1>4, <1>5, <1>6 DEF p

\* One open page changes, and stays open.
LEMMA PageChanges ==
  ASSUME IInv, CInv, Calm, NEW t \in Tabs, Open(t), NEW q,
         tab' = [tab EXCEPT ![t] = q], UNCHANGED <<tree, env, server, body, file>>,
         Open(t)'
  PROVE  CInv'
<1>1. /\ tab[t] # Closed /\ tab[t].state = "open" /\ tab'[t].state = "open"
  BY DEF Open, Closed
<1>2. t \in env.tabs /\ \A s \in Tabs : s # t => tab[s] = Closed
  BY <1>1, OthersClosed
<1>3. \A s \in Tabs : tab'[s] = IF s = t THEN q ELSE tab[s]
  BY DEF IInv
<1>4. \A s \in Tabs : tab'[s] = Closed \/ (s \in env'.tabs /\ Open(s)')
  <2>1. ASSUME NEW s \in Tabs, s # t PROVE tab'[s] = Closed
    BY <1>2, <1>3, <2>1
  <2>2. t \in env'.tabs /\ Open(t)'
    BY <1>2
  <2>3. QED BY <2>1, <2>2
<1>5. server = "writing" => body.from = t
  <2>1. ASSUME server = "writing" PROVE body.from = t
    <3>1. body.from \in Tabs /\ tab[body.from].state = "open"
      BY <1>1, <2>1 DEF CInv, Calmly
    <3>2. tab[body.from] # Closed
      BY <3>1, ClosedState
    <3>3. QED BY <1>2, <3>1, <3>2
  <2>2. QED BY <2>1
<1>6. /\ server \in {"up", "writing"} /\ Present(file.reviews)
      /\ server = "writing" => Present(body.feedback.reviews)
  BY DEF CInv, Calmly
<1>7. Calmly'
  BY <1>1, <1>4, <1>5, <1>6 DEF Calmly, Present
<1>8. QED BY <1>7 DEF CInv

\* The page posts its map with what the box holds.
LEMMA Posted ==
  ASSUME IInv, CInv, Calm, NEW t \in Tabs, Open(t), NEW q, NEW f \in Feedback,
         tab' = [tab EXCEPT ![t] = q], UNCHANGED <<tree, env, server, body, file>>,
         q.state = "open", q.runs = tab[t].runs, q.at \in DOMAIN q.runs,
         q.emptied = tab[t].emptied, q.map = Saved(tab[t]), q.box = q.map[Run(q)],
         f.reviews = Saved(tab[t]), q.posts = Append(tab[t].posts, f)
  PROVE  CInv'
<1> DEFINE p == tab[t]
           n == Len(p.posts)
<1>1. tab'[t] = q
  BY DEF IInv
<1>2. IsPage(p) /\ p.posts \in Seq(Feedback) /\ n \in Nat
  BY DEF IInv, IsPage
<1>3. /\ Len(q.posts) = n + 1 /\ q.posts # <<>> /\ q.posts[n + 1] = f
      /\ \A i \in 1..n : q.posts[i] = p.posts[i]
  BY <1>2
<1>4. /\ OnPage(Saved(p), p.runs) /\ Present(Saved(p))
      /\ Kept(p.map, Saved(p), p.emptied)
  BY <1>2, SavedKeeps
<1>5. /\ Shows(p) /\ Latest(t) = p.map
      /\ p.posts # <<>> => Kept(Base, p.posts[1].reviews, p.emptied)
      /\ \A i \in 1..(n - 1) : Kept(p.posts[i].reviews, p.posts[i + 1].reviews, p.emptied)
      /\ \A i \in 1..n : Present(p.posts[i].reviews)
  BY DEF Open
<1>6. Base' = Base
  BY DEF Base
<1>7. Latest(t) = IF p.posts = <<>> THEN Base ELSE p.posts[n].reviews
  BY DEF Latest
<1>8. p.posts = <<>> <=> n = 0
  BY <1>2
<1> HIDE DEF p, n
<1>9. Kept(Base, q.posts[1].reviews, q.emptied)
  <2>1. CASE n = 0
    BY <1>3, <1>4, <1>5, <1>7, <1>8, <2>1 DEF p
  <2>2. CASE n # 0
    <3>1. 1 \in 1..n
      BY <1>2, <2>2
    <3>2. q.posts[1] = p.posts[1] /\ p.posts # <<>>
      BY <1>3, <1>8, <2>2, <3>1
    <3>3. QED BY <1>5, <3>2 DEF p
  <2>3. QED BY <2>1, <2>2
<1>10. ASSUME NEW i \in 1..n
       PROVE  Kept(q.posts[i].reviews, q.posts[i + 1].reviews, q.emptied)
  <2>1. CASE i = n
    <3>1. n # 0 /\ q.posts[i] = p.posts[n] /\ q.posts[i + 1] = f
      BY <1>2, <1>3, <1>10, <2>1
    <3>2. QED BY <1>4, <1>5, <1>7, <1>8, <3>1 DEF p
  <2>2. CASE i # n
    <3>1. i \in 1..(n - 1) /\ i + 1 \in 1..n
      BY <1>2, <2>2
    <3>2. q.posts[i] = p.posts[i] /\ q.posts[i + 1] = p.posts[i + 1]
      BY <1>3, <3>1
    <3>3. QED BY <1>5, <3>1, <3>2 DEF p
  <2>3. QED BY <2>1, <2>2
<1>11. ASSUME NEW i \in 1..(n + 1) PROVE Present(q.posts[i].reviews)
  <2>1. i \in 1..n \/ i = n + 1
    BY <1>2
  <2>2. QED BY <1>3, <1>4, <1>5, <2>1 DEF p
<1>12. Open(t)'
  <2>1. Shows(q)'
    BY <1>5 DEF Shows, p
  <2>2. OnPage(q.map, q.runs)
    BY <1>4 DEF p
  <2>3. Latest(t)' = q.map
    BY <1>1, <1>3 DEF Latest
  <2>4. 1..(Len(q.posts) - 1) = 1..n
    BY <1>2, <1>3
  <2>5. \A i \in 1..Len(q.posts) : Present(q.posts[i].reviews)'
    BY <1>3, <1>11 DEF Present
  <2>6. \A i \in 1..(Len(q.posts) - 1) :
          Kept(q.posts[i].reviews, q.posts[i + 1].reviews, q.emptied)
    BY <1>10, <2>4
  <2>7. q.map[Run(q)] # None /\ q.box = None => Run(q) \in q.emptied
    OBVIOUS
  <2>8. Kept(Base', q.posts[1].reviews, q.emptied)
    BY <1>6, <1>9
  <2>9. QED BY <1>1, <2>1, <2>2, <2>3, <2>5, <2>6, <2>7, <2>8 DEF Open, Shows, Present
<1>13. QED BY <1>12, PageChanges

\* saveCurrentFeedback of a page whose server runs.
LEMMA PostIs ==
  ASSUME NEW p, IsPage(p), server # "down", NEW status \in FileStates,
         NEW map \in OwnMaps, status = "complete" => OnPage(map, p.runs)
  PROVE  LET q == Post(p, status, map)
             f == Posting(p, status, map)
         IN  /\ q.state = p.state /\ q.runs = p.runs /\ q.at = p.at /\ q.map = map
             /\ q.box = p.box /\ q.emptied = p.emptied
             /\ q.posts = Append(p.posts, f) /\ f \in Feedback /\ f.reviews = map
<1> DEFINE q == [p EXCEPT !.map = map]
           f == Posting(p, status, map)
<1>1. q = [state |-> p.state, runs |-> p.runs, at |-> p.at, map |-> map,
           box |-> p.box, emptied |-> p.emptied, timer |-> p.timer,
           posts |-> p.posts, done |-> p.done, answer |-> p.answer]
  BY DEF IsPage
<1>2. Post(p, status, map) = [q EXCEPT !.posts = Append(@, f)]
  BY DEF Post, Posting
<1>3. f \in Feedback /\ f.reviews = map
  BY PostingIsFeedback DEF Posting
<1> HIDE DEF q, f
<1>4. QED BY <1>1, <1>2, <1>3 DEF f

\* In a calm review a page is not used before it is open.
LEMMA LiveIsOpen ==
  ASSUME Calm, NEW t, Live(t)
  PROVE  tab[t].state = "open"
BY DEF Calm, Live

\* An open page of a calm review, and what saveCurrentFeedback makes of it.
LEMMA SavePosts ==
  ASSUME IInv, CInv, Calm, NEW t \in Tabs, tab[t].state = "open"
  PROVE  LET p == tab[t]
             q == SaveCurrent(p)
             f == Posting(p, "in_progress", Saved(p))
         IN  /\ Open(t) /\ IsPage(p) /\ IsPage(q) /\ f \in Feedback
             /\ f.reviews = Saved(p) /\ q.state = "open" /\ q.runs = p.runs /\ q.at = p.at
             /\ q.map = Saved(p) /\ q.box = p.box /\ q.emptied = p.emptied
             /\ q.posts = Append(p.posts, f)
             /\ Shows(p) /\ p.at \in DOMAIN p.runs
             /\ p.box = Saved(p)[Run(p)]
<1>1. Open(t)
  <2>1. tab[t] # Closed
    BY ClosedState
  <2>2. Loading(t) \/ Open(t)
    BY <2>1, OthersClosed
  <2>3. QED BY <2>2 DEF Loading
<1>2. IsPage(tab[t]) /\ Saved(tab[t]) \in OwnMaps /\ IsPage(SaveCurrent(tab[t]))
  BY SavedOwn, SaveCurrentPage DEF IInv
<1>3. server # "down" /\ "in_progress" \in FileStates /\ "in_progress" # "complete"
  BY DEF CInv, Calmly, FileStates
<1>4. Shows(tab[t]) /\ tab[t].at \in DOMAIN tab[t].runs
  BY <1>1 DEF Open, Shows
<1>5. tab[t].box = Saved(tab[t])[Run(tab[t])]
  BY <1>2, <1>4, SavedIs
<1>6. QED BY <1>1, <1>2, <1>3, <1>4, <1>5, PostIs DEF SaveCurrent

\* Fields that a save leaves to the dialog and the timer.
LEMMA Fields ==
  ASSUME NEW p, IsPage(p), NEW x
  PROVE  /\ LET q == [p EXCEPT !.timer = x] IN
            /\ q.state = p.state /\ q.runs = p.runs /\ q.at = p.at /\ q.map = p.map
            /\ q.box = p.box /\ q.emptied = p.emptied /\ q.posts = p.posts
         /\ LET q == [p EXCEPT !.done = x] IN
            /\ q.state = p.state /\ q.runs = p.runs /\ q.at = p.at /\ q.map = p.map
            /\ q.box = p.box /\ q.emptied = p.emptied /\ q.posts = p.posts
         /\ LET q == [p EXCEPT !.map = x] IN
            /\ q.state = p.state /\ q.runs = p.runs /\ q.at = p.at /\ q.map = x
            /\ q.box = p.box /\ q.emptied = p.emptied /\ q.posts = p.posts
         /\ LET q == [p EXCEPT !.posts = x] IN
            /\ q.state = p.state /\ q.runs = p.runs /\ q.at = p.at /\ q.map = p.map
            /\ q.box = p.box /\ q.emptied = p.emptied /\ q.posts = x
BY DEF IsPage

LEMMA CalmTimer ==
  ASSUME IInv, CInv, Calm, NEW t \in Tabs, TimerFires(t) PROVE CInv'
<1> DEFINE p == tab[t]
           f == Posting(p, "in_progress", Saved(p))
<1>1. PICK x : tab' = [tab EXCEPT ![t] = [SaveCurrent(tab[t]) EXCEPT !.timer = x]]
  BY DEF TimerFires
<1>2. p.state = "open" /\ UNCHANGED <<tree, env, server, body, file>>
  BY LiveIsOpen DEF TimerFires, MayPost
<1> DEFINE s == SaveCurrent(p)
           q == [s EXCEPT !.timer = x]
<1>3. /\ Open(t) /\ IsPage(s) /\ f \in Feedback
      /\ s.state = "open" /\ s.runs = p.runs /\ s.at = p.at /\ s.map = Saved(p)
      /\ s.box = p.box /\ s.emptied = p.emptied /\ s.posts = Append(p.posts, f)
      /\ p.at \in DOMAIN p.runs /\ p.box = Saved(p)[Run(p)]
  BY <1>2, SavePosts
<1>4. f.reviews = Saved(p)
  BY <1>2, SavePosts
<1> HIDE DEF s
<1>5. /\ q.state = s.state /\ q.runs = s.runs /\ q.at = s.at /\ q.map = s.map
      /\ q.box = s.box /\ q.emptied = s.emptied /\ q.posts = s.posts
  BY <1>3, Fields
<1>6. tab' = [tab EXCEPT ![t] = q]
  BY <1>1 DEF s
<1> HIDE DEF q, f, p
<1>7. q.box = q.map[Run(q)]
  BY <1>3, <1>5 DEF Run
<1>8. QED BY <1>2, <1>3, <1>4, <1>5, <1>6, <1>7, Posted DEF p

LEMMA CalmCloseDialog ==
  ASSUME IInv, CInv, Calm, NEW t \in Tabs, CloseDialog(t) PROVE CInv'
<1> DEFINE p == tab[t]
           f == Posting(p, "in_progress", Saved(p))
<1>1. PICK x : tab' = [tab EXCEPT ![t] = [SaveCurrent(tab[t]) EXCEPT !.done = x]]
  BY DEF CloseDialog
<1>2. p.state = "open" /\ UNCHANGED <<tree, env, server, body, file>>
  BY LiveIsOpen DEF CloseDialog, MayPost
<1> DEFINE s == SaveCurrent(p)
           q == [s EXCEPT !.done = x]
<1>3. /\ Open(t) /\ IsPage(s) /\ f \in Feedback
      /\ s.state = "open" /\ s.runs = p.runs /\ s.at = p.at /\ s.map = Saved(p)
      /\ s.box = p.box /\ s.emptied = p.emptied /\ s.posts = Append(p.posts, f)
      /\ p.at \in DOMAIN p.runs /\ p.box = Saved(p)[Run(p)]
  BY <1>2, SavePosts
<1>4. f.reviews = Saved(p)
  BY <1>2, SavePosts
<1> HIDE DEF s
<1>5. /\ q.state = s.state /\ q.runs = s.runs /\ q.at = s.at /\ q.map = s.map
      /\ q.box = s.box /\ q.emptied = s.emptied /\ q.posts = s.posts
  BY <1>3, Fields
<1>6. tab' = [tab EXCEPT ![t] = q]
  BY <1>1 DEF s
<1> HIDE DEF q, f, p
<1>7. q.box = q.map[Run(q)]
  BY <1>3, <1>5 DEF Run
<1>8. QED BY <1>2, <1>3, <1>4, <1>5, <1>6, <1>7, Posted DEF p

\* The box shows what the map, with the old box taken over, has for the other run.
LEMMA CalmNavigate ==
  ASSUME IInv, CInv, Calm, NEW t \in Tabs, Navigate(t) PROVE CInv'
<1> DEFINE p == tab[t]
           f == Posting(p, "in_progress", Saved(p))
<1>1. PICK i \in DOMAIN tab[t].runs :
        tab' = [tab EXCEPT ![t] = [SaveCurrent(@) EXCEPT !.at = i,
                                     !.box = Saved(tab[t])[tab[t].runs[i]]]]
  BY Zenon DEF Navigate
<1>2. p.state = "open" /\ UNCHANGED <<tree, env, server, body, file>>
  BY LiveIsOpen DEF Navigate, MayPost
<1> DEFINE s == SaveCurrent(p)
           box == Saved(p)[p.runs[i]]
           r == [s EXCEPT !.at = i]
           q == [s EXCEPT !.at = i, !.box = box]
<1>3. /\ Open(t) /\ IsPage(s) /\ f \in Feedback
      /\ s.state = "open" /\ s.runs = p.runs /\ s.at = p.at /\ s.map = Saved(p)
      /\ s.emptied = p.emptied /\ s.posts = Append(p.posts, f)
  BY <1>2, SavePosts
<1>4. f.reviews = Saved(p)
  BY <1>2, SavePosts
<1>5. tab' = [tab EXCEPT ![t] = q]
  BY <1>1
<1>6. IsPage(s)
  BY <1>3
<1> HIDE DEF s, box, f, p
<1>7. r = [state |-> s.state, runs |-> s.runs, at |-> i, map |-> s.map,
           box |-> s.box, emptied |-> s.emptied, timer |-> s.timer,
           posts |-> s.posts, done |-> s.done, answer |-> s.answer]
  BY <1>6 DEF IsPage
<1>8. q = [r EXCEPT !.box = box]
  OBVIOUS
<1> HIDE DEF r, q
<1>9. /\ q.state = s.state /\ q.runs = s.runs /\ q.at = i /\ q.map = s.map
      /\ q.box = box /\ q.emptied = s.emptied /\ q.posts = s.posts
  BY <1>7, <1>8
<1>10. q.box = q.map[Run(q)]
  BY <1>3, <1>9 DEF Run, box
<1>11. q.at \in DOMAIN q.runs
  BY <1>1, <1>3, <1>9 DEF p
<1>12. QED BY <1>2, <1>3, <1>4, <1>5, <1>9, <1>10, <1>11, Posted DEF p

\* All runs of the page: that is all the map is about.
LEMMA CalmSubmit ==
  ASSUME IInv, CInv, Calm, NEW t \in Tabs, Submit(t) PROVE CInv'
<1> DEFINE p == tab[t]
           OfPage == [r \in Runs |-> IF r \in ToSet(p.runs) THEN Saved(p)[r] ELSE None]
           f == Posting(p, "complete", OfPage)
           s == Post(p, "complete", OfPage)
           q == [s EXCEPT !.map = Saved(p)]
<1>1. p.state = "open" /\ UNCHANGED <<tree, env, server, body, file>>
  BY LiveIsOpen DEF Submit, MayPost
<1>2. tab' = [tab EXCEPT ![t] = q]
  BY Zenon DEF Submit
<1>3. /\ Open(t) /\ IsPage(p) /\ Shows(p)
      /\ p.at \in DOMAIN p.runs /\ p.box = Saved(p)[Run(p)]
  BY <1>1, SavePosts
<1>4. OnPage(Saved(p), p.runs)
  BY <1>3, SavedKeeps
<1>5. Saved(p) \in OwnMaps
  BY <1>3, SavedOwn
<1> HIDE DEF p
<1>6. OfPage = Saved(p)
  <2>1. Saved(p) = [r \in Runs |-> Saved(p)[r]]
    BY <1>5 DEF OwnMaps, Maps
  <2>2. \A r \in Runs : (IF r \in ToSet(p.runs) THEN Saved(p)[r] ELSE None) = Saved(p)[r]
    BY <1>4 DEF OnPage
  <2>3. QED BY <2>1, <2>2
<1> HIDE DEF OfPage
<1>7. server # "down" /\ "complete" \in FileStates /\ OfPage \in OwnMaps
  BY <1>5, <1>6 DEF CInv, Calmly, FileStates
<1>8. /\ IsPage(s) /\ f \in Feedback /\ f.reviews = OfPage
      /\ s.state = p.state /\ s.runs = p.runs /\ s.at = p.at
      /\ s.box = p.box /\ s.emptied = p.emptied /\ s.posts = Append(p.posts, f)
  <2>1. OnPage(OfPage, p.runs)
    BY <1>4, <1>6
  <2>2. QED BY <1>3, <1>7, <2>1, PostIs, PostPage
<1>9. f.reviews = Saved(p)
  BY <1>6, <1>8
<1> HIDE DEF s, f
<1>10. /\ q.state = s.state /\ q.runs = s.runs /\ q.at = s.at /\ q.map = Saved(p)
       /\ q.box = s.box /\ q.emptied = s.emptied /\ q.posts = s.posts
  BY <1>8, Fields
<1> HIDE DEF q
<1>11. q.box = q.map[Run(q)]
  BY <1>3, <1>8, <1>10 DEF Run
<1>12. q.state = "open" /\ q.at \in DOMAIN q.runs
  BY <1>1, <1>3, <1>8, <1>10 DEF p
<1>13. QED BY <1>1, <1>2, <1>3, <1>8, <1>9, <1>10, <1>11, <1>12, Posted DEF p

\* An emptied box is remembered.
LEMMA CalmType ==
  ASSUME IInv, CInv, Calm, NEW t \in Tabs, Type(t) PROVE CInv'
<1> DEFINE p == tab[t]
<1>0. PICK box \in {[run |-> Run(p), text |-> x] : x \in Texts} \cup {None} :
        \E timer :
          tab' = [tab EXCEPT ![t].box = box, ![t].timer = timer,
                             ![t].emptied = IF box = None THEN @ \cup {Run(p)} ELSE @]
  BY DEF Type
<1>1. PICK timer :
        tab' = [tab EXCEPT ![t].box = box, ![t].timer = timer,
                           ![t].emptied = IF box = None THEN @ \cup {Run(p)} ELSE @]
  BY <1>0
<1>2. p.state = "open" /\ UNCHANGED <<tree, env, server, body, file>>
  BY LiveIsOpen DEF Type
<1>3. Open(t) /\ IsPage(p)
  BY <1>2, SavePosts
<1> DEFINE e == IF box = None THEN p.emptied \cup {Run(p)} ELSE p.emptied
           r1 == [p EXCEPT !.box = box]
           r2 == [r1 EXCEPT !.timer = timer]
           q == [p EXCEPT !.box = box, !.timer = timer, !.emptied = e]
<1>4. tab' = [tab EXCEPT ![t] = q]
  BY <1>1
<1>5. q = [r2 EXCEPT !.emptied = e]
  OBVIOUS
<1>6. /\ p.emptied \subseteq e
      /\ box = None => Run(p) \in e
  OBVIOUS
<1> HIDE DEF e
<1>7. r1 = [state |-> p.state, runs |-> p.runs, at |-> p.at, map |-> p.map,
            box |-> box, emptied |-> p.emptied, timer |-> p.timer,
            posts |-> p.posts, done |-> p.done, answer |-> p.answer]
  BY <1>3 DEF IsPage
<1> HIDE DEF r1
<1>8. r2 = [state |-> p.state, runs |-> p.runs, at |-> p.at, map |-> p.map,
            box |-> box, emptied |-> p.emptied, timer |-> timer,
            posts |-> p.posts, done |-> p.done, answer |-> p.answer]
  BY <1>7
<1> HIDE DEF r2, q
<1>9. PICK w : /\ w = q
               /\ w.state = p.state /\ w.runs = p.runs /\ w.at = p.at /\ w.map = p.map
               /\ w.box = box /\ w.emptied = e /\ w.posts = p.posts
  BY <1>5, <1>8
<1>10. tab'[t] = w
  BY <1>4, <1>9 DEF IInv
<1>11. \A a, b : Kept(a, b, p.emptied) => Kept(a, b, e)
  BY <1>6 DEF Kept
<1>12. Open(t)'
  <2>1. Run(w) = Run(p)
    BY <1>9 DEF Run
  <2>2. Base' = Base /\ Latest(t)' = Latest(t)
    BY <1>2, <1>9, <1>10 DEF Base, Latest
  <2>3. Shows(w)'
    BY <1>2, <1>3, <1>9 DEF Open, Shows
  <2>4. Latest(t)' = w.map
    BY <1>3, <1>9, <2>2 DEF Open
  <2>5. w.posts # <<>> => Kept(Base', w.posts[1].reviews, w.emptied)
    BY <1>3, <1>9, <1>11, <2>2 DEF Open
  <2>6. \A i \in 1..(Len(w.posts) - 1) :
          Kept(w.posts[i].reviews, w.posts[i + 1].reviews, w.emptied)
    BY <1>3, <1>9, <1>11 DEF Open
  <2>7. \A i \in 1..Len(w.posts) : Present(w.posts[i].reviews)'
    BY <1>2, <1>3, <1>9 DEF Open, Present
  <2>8. w.map[Run(w)] # None /\ w.box = None => Run(w) \in w.emptied
    BY <1>6, <1>9, <2>1
  <2>9. w.state = "open" /\ OnPage(w.map, w.runs)
    BY <1>3, <1>9 DEF Open
  <2>10. QED BY <1>10, <2>3, <2>4, <2>5, <2>6, <2>7, <2>8, <2>9 DEF Open, Shows, Present
<1>13. QED BY <1>2, <1>3, <1>4, <1>12, PageChanges

\* A page lists the runs that are there: all that the file has feedback for.
LEMMA CalmLoadPage ==
  ASSUME IInv, CInv, Calm, NEW t \in Tabs, LoadPage(t) PROVE CInv'
<1> DEFINE q == [Closed EXCEPT !.state = "loading", !.runs = FindRuns]
<1>1. /\ t \in env.tabs /\ server = "up" /\ FindRuns # <<>>
      /\ UNCHANGED <<tree, env, server, body, file>>
  BY DEF LoadPage
<1>2. \A s \in Tabs : tab'[s] = IF s = t THEN q ELSE tab[s]
  BY DEF LoadPage, IInv, Calm
<1>3. /\ q.state = "loading" /\ q.runs = FindRuns /\ q.at = 1 /\ q.posts = <<>>
      /\ q.done = FALSE /\ q.map = NoReviews
  BY DEF Closed
<1> HIDE DEF q
<1>4. Shows(q)
  <2>1. FindRuns \in Seq(Runs) /\ ToSet(FindRuns) \subseteq Runs
    BY FoundRuns DEF ToSet
  <2>2. 1 \in DOMAIN FindRuns
    BY <1>1, <2>1
  <2>3. QED BY <1>3, <2>1, <2>2, FoundRuns DEF Shows
<1>5. Present(file.reviews)
  BY DEF CInv, Calmly
<1>6. OnPage(file.reviews, q.runs)
  BY <1>3, <1>5, FoundRuns DEF OnPage, Present
<1>7. Loading(t)'
  BY <1>1, <1>2, <1>3, <1>4, <1>6 DEF Loading, Shows
<1>8. ASSUME NEW s \in Tabs, s # t PROVE tab'[s] = Closed
  <2>1. ASSUME tab[s] # Closed PROVE FALSE
    <3>1. s \in env.tabs
      BY <2>1, OthersClosed
    <3>2. QED BY <1>1, <1>8, <3>1, OneTab DEF CInv
  <2>2. QED BY <1>2, <1>8, <2>1
<1>9. \A s \in Tabs : \/ tab'[s] = Closed
                      \/ s \in env'.tabs /\ (Loading(s)' \/ Open(s)')
  BY <1>1, <1>7, <1>8
<1>10. Calmly'
  BY <1>1, <1>5, <1>9 DEF Calmly, Present
<1>11. QED BY <1>1, <1>10 DEF CInv

\* A page that is loading is the only one, and the server has nothing to do.
LEMMA LoadingAlone ==
  ASSUME IInv, CInv, Calm, NEW t \in Tabs, tab[t].state \in {"loading", "answered"}
  PROVE  /\ Loading(t) /\ t \in env.tabs /\ server = "up" /\ Present(file.reviews)
         /\ \A s \in Tabs : s # t => tab[s] = Closed
<1>1. tab[t] # Closed
  BY ClosedState
<1>2. ~Open(t)
  BY DEF Open
<1>3. QED BY <1>1, <1>2, OthersClosed DEF Loading, CInv, Calmly

\* The answer is what the file has.
LEMMA CalmGetFeedback ==
  ASSUME IInv, CInv, Calm, NEW t \in Tabs, GetFeedback(t) PROVE CInv'
<1>1. /\ tab[t].state = "loading" /\ UNCHANGED <<tree, env, server, body, file>>
  BY DEF GetFeedback
<1>2. /\ Loading(t) /\ t \in env.tabs /\ server = "up" /\ Present(file.reviews)
      /\ \A s \in Tabs : s # t => tab[s] = Closed
  BY <1>1, LoadingAlone
<1>3. PICK p : p = tab[t] /\ IsPage(p)
  BY DEF IInv
<1> DEFINE q1 == [p EXCEPT !.state = "answered"]
           q  == [p EXCEPT !.state = "answered", !.answer = file]
<1>4. tab' = [tab EXCEPT ![t].state = "answered", ![t].answer = file]
  BY <1>2 DEF GetFeedback
<1>5. \A s \in Tabs : tab'[s] = IF s = t THEN q ELSE tab[s]
  BY <1>3, <1>4 DEF IInv
<1>6. q = [q1 EXCEPT !.answer = file]
  OBVIOUS
<1>7. q1 = [state |-> "answered", runs |-> p.runs, at |-> p.at, map |-> p.map,
            box |-> p.box, emptied |-> p.emptied, timer |-> p.timer,
            posts |-> p.posts, done |-> p.done, answer |-> p.answer]
  BY <1>3 DEF IsPage
<1> HIDE DEF q1, q
<1>8. PICK w : /\ w = q
               /\ w.state = "answered" /\ w.runs = p.runs /\ w.at = p.at /\ w.map = p.map
               /\ w.posts = p.posts /\ w.done = p.done /\ w.answer = file
  BY <1>6, <1>7
<1>9. tab'[t] = w
  BY <1>5, <1>8
<1>10. Loading(t)'
  BY <1>1, <1>2, <1>3, <1>8, <1>9 DEF Loading, Shows
<1>11. \A s \in Tabs : \/ tab'[s] = Closed
                       \/ s \in env'.tabs /\ (Loading(s)' \/ Open(s)')
  BY <1>1, <1>2, <1>5, <1>10
<1>12. Calmly'
  BY <1>1, <1>2, <1>11 DEF Calmly, Present
<1>13. QED BY <1>1, <1>12 DEF CInv

\* The page begins with what the file has.
LEMMA CalmLoadFeedback ==
  ASSUME IInv, CInv, Calm, NEW t \in Tabs, LoadFeedback(t) PROVE CInv'
<1> DEFINE m == file.reviews
<1>1. tab[t].state = "answered" /\ UNCHANGED <<tree, env, server, body, file>>
  BY DEF LoadFeedback
<1>2. /\ Loading(t) /\ t \in env.tabs /\ server = "up" /\ Present(file.reviews)
      /\ \A s \in Tabs : s # t => tab[s] = Closed
  BY <1>1, LoadingAlone
<1>3. PICK p : p = tab[t] /\ IsPage(p)
  BY DEF IInv
<1>4. Loaded(p) = m
  <2>1. /\ p.answer \in Feedback /\ p.map = NoReviews /\ p.answer.reviews = m
    BY <1>1, <1>2, <1>3, PageParts DEF Loading
  <2>2. /\ m = [r \in Runs |-> m[r]]
        /\ \A r \in Runs : r \notin p.answer.listed => m[r] = None
    BY <2>1 DEF Feedback, Unlisted, OwnMaps, Maps
  <2>3. \A r \in Runs : p.map[r] = None
    BY <2>1 DEF NoReviews
  <2> HIDE DEF m
  <2>4. \A r \in Runs :
          (IF r \in p.answer.listed THEN p.answer.reviews[r] ELSE p.map[r]) = m[r]
    BY <2>1, <2>2, <2>3
  <2>5. QED BY <2>2, <2>4 DEF Loaded
<1> DEFINE q == [p EXCEPT !.state = "open", !.at = 1, !.map = Loaded(p),
                          !.box = Loaded(p)[p.runs[1]], !.answer = Absent]
<1>5. tab' = [tab EXCEPT ![t] = q]
  BY <1>3, Zenon DEF LoadFeedback
<1>6. \A s \in Tabs : tab'[s] = IF s = t THEN q ELSE tab[s]
  BY <1>5 DEF IInv
<1>7. q = [state |-> "open", runs |-> p.runs, at |-> 1, map |-> Loaded(p),
           box |-> Loaded(p)[p.runs[1]], emptied |-> p.emptied, timer |-> p.timer,
           posts |-> p.posts, done |-> p.done, answer |-> Absent]
  BY <1>3, OpenedPage
<1> HIDE DEF m, q
<1>10. PICK w : /\ w = q
                /\ w.state = "open" /\ w.runs = p.runs /\ w.at = 1 /\ w.map = m
                /\ w.box = m[p.runs[1]] /\ w.posts = p.posts
  BY <1>4, <1>7
<1>11. /\ Shows(p) /\ p.posts = <<>> /\ OnPage(m, p.runs) /\ 1 \in DOMAIN p.runs
  <2>1. Shows(p) /\ p.posts = <<>> /\ OnPage(m, p.runs)
    BY <1>2, <1>3 DEF Loading, m
  <2>2. p.runs \in Seq(Runs) /\ p.at \in DOMAIN p.runs
    BY <2>1 DEF Shows
  <2>3. QED BY <2>1, <2>2
<1>12. Open(t)'
  <2>1. tab'[t] = w /\ Run(w) = p.runs[1]
    BY <1>6, <1>10 DEF Run
  <2>2. Base' = m /\ Latest(t)' = m
    BY <1>1, <1>2, <1>10, <1>11, <2>1 DEF Base, Latest, m
  <2>3. Shows(w)'
    BY <1>1, <1>10, <1>11 DEF Shows
  <2>4. w.posts = <<>> /\ Len(w.posts) = 0 /\ 1..(Len(w.posts) - 1) = {} /\ 1..Len(w.posts) = {}
    BY <1>10, <1>11
  <2>5. w.box = w.map[Run(w)] /\ OnPage(w.map, w.runs) /\ Latest(t)' = w.map
    BY <1>10, <1>11, <2>1, <2>2
  <2>6. QED BY <1>10, <2>1, <2>3, <2>4, <2>5 DEF Open, Shows
<1>13. \A s \in Tabs : \/ tab'[s] = Closed
                       \/ s \in env'.tabs /\ (Loading(s)' \/ Open(s)')
  BY <1>1, <1>2, <1>6, <1>12
<1>14. Calmly'
  BY <1>1, <1>2, <1>13 DEF Calmly, Present
<1>15. QED BY <1>1, <1>14 DEF CInv

\* Nobody is left, and an answer finds nobody.
LEMMA CalmLeave ==
  ASSUME IInv, CInv, Calm, NEW t \in Tabs, Leave(t) PROVE CInv'
<1>1. /\ tab[t] # Closed /\ UNCHANGED <<tree, env, server, file>>
      /\ body' = IF server = "writing" /\ body.from = t THEN [body EXCEPT !.from = None]
                                                        ELSE body
  BY ClosedState DEF Leave
<1>2. \A s \in Tabs : s # t => tab[s] = Closed
  BY <1>1, OthersClosed
<1>3. \A s \in Tabs : tab'[s] = IF s = t THEN Closed ELSE tab[s]
  BY DEF Leave, IInv
<1>4. \A s \in Tabs : tab'[s] = Closed
  BY <1>2, <1>3
<1>5. Closed.state = "closed"
  BY DEF Closed
<1>6. ASSUME server = "writing"
      PROVE  /\ body'.feedback = body.feedback
             /\ body'.from = None
  <2>1. \/ body.from = None /\ \A s \in Tabs : tab[s].state = "closed"
        \/ body.from \in Tabs /\ tab[body.from].state = "open"
    BY <1>6 DEF CInv, Calmly
  <2>2. tab[t].state # "closed"
    BY DEF Leave
  <2>3. body.from \in Tabs /\ tab[body.from].state = "open"
    BY <2>1, <2>2
  <2>4. body.from = t
    BY <1>2, <2>3, ClosedState
  <2>5. body' = [body EXCEPT !.from = None]
    BY <1>1, <1>6, <2>4
  <2>6. IsBody(body)
    BY <1>6 DEF IInv
  <2>7. QED BY <2>5, <2>6 DEF IsBody
<1>7. /\ server \in {"up", "writing"} /\ Present(file.reviews)
      /\ server = "writing" => Present(body.feedback.reviews)
  BY DEF CInv, Calmly
<1>8. Calmly'
  BY <1>1, <1>4, <1>5, <1>6, <1>7 DEF Calmly, Present
<1>9. QED BY <1>1, <1>8 DEF CInv

\* Runs are added while the review goes on.
LEMMA TreeGrows ==
  ASSUME CInv, SubagentStep(env.work)
  PROVE  /\ tree' \in [Runs -> RunStates]
         /\ \A r \in Runs : tree[r] # None => tree'[r] # None
<1>1. PICK r \in env.work : RunFinishes(r) \/ Grade(r)
  BY DEF SubagentStep
<1>2. r \in Runs
  BY DEF CInv, Situations
<1>3. PICK v \in RunStates \ {None} : tree' = [tree EXCEPT ![r] = v]
  BY <1>1, IterationAssumption DEF RunFinishes, Grade, RunStates
<1>4. QED BY <1>2, <1>3 DEF CInv

\* A step that leaves a page's text and requests alone leaves it open.
LEMMA StaysOpen ==
  ASSUME NEW t, Open(t), Base' = Base,
         \A r \in Runs : tree[r] # None => tree'[r] # None,
         NEW q, tab'[t] = q,
         q.state = tab[t].state, q.runs = tab[t].runs, q.at = tab[t].at,
         q.map = tab[t].map, q.box = tab[t].box, q.emptied = tab[t].emptied,
         q.posts = tab[t].posts
  PROVE  Open(t)'
<1> DEFINE p == tab[t]
<1>1. Run(q) = Run(p)
  BY DEF Run
<1>2. Latest(t)' = Latest(t)
  BY DEF Latest
<1>3. Shows(q)'
  <2>1. q.runs \in Seq(Runs) /\ \A r \in ToSet(q.runs) : tree[r] # None
    BY DEF Open, Shows
  <2>2. ToSet(q.runs) \subseteq Runs
    BY <2>1 DEF ToSet
  <2>3. QED BY <2>1, <2>2 DEF Open, Shows
<1>4. /\ q.state = "open" /\ OnPage(q.map, q.runs)
      /\ q.map[Run(q)] # None /\ q.box = None => Run(q) \in q.emptied
      /\ Latest(t)' = q.map
      /\ q.posts # <<>> => Kept(Base', q.posts[1].reviews, q.emptied)
      /\ \A i \in 1..(Len(q.posts) - 1) :
           Kept(q.posts[i].reviews, q.posts[i + 1].reviews, q.emptied)
  BY <1>1, <1>2 DEF Open
<1>5. \A i \in 1..Len(q.posts) : Present(q.posts[i].reviews)'
  BY DEF Open, Present
<1>6. QED BY <1>3, <1>4, <1>5 DEF Open, Shows, Present

LEMMA CalmTree ==
  ASSUME CInv, Calm, UNCHANGED reviewVars,
         \A r \in Runs : tree[r] # None => tree'[r] # None
  PROVE  Calmly'
<1>1. UNCHANGED <<env, server, body, file, tab>> /\ Base' = Base
  BY DEF reviewVars, Base
<1>2. \A m : Present(m) => Present(m)'
  BY DEF Present
<1>3. ASSUME NEW t \in Tabs, Loading(t) PROVE Loading(t)'
  <2>1. ToSet(tab[t].runs) \subseteq Runs
    BY <1>3 DEF Loading, Shows, ToSet
  <2>2. QED BY <1>1, <1>3, <2>1 DEF Loading, Shows
<1>4. ASSUME NEW t \in Tabs, Open(t) PROVE Open(t)'
  <2>1. PICK q : q = tab[t]
    OBVIOUS
  <2>2. tab'[t] = q
    BY <1>1, <2>1
  <2>3. QED BY <1>1, <1>4, <2>1, <2>2, StaysOpen
<1>5. Calmly
  BY DEF CInv
<1>6. /\ Present(file.reviews)'
      /\ server' = "writing" => Present(body.feedback.reviews)'
  BY <1>1, <1>5 DEF Calmly, Present
<1>7. QED BY <1>1, <1>3, <1>4, <1>5, <1>6 DEF Calmly

\* The oldest request of the open page is the next thing the file has.
LEMMA CalmStartWrite ==
  ASSUME IInv, CInv, Calm, NEW t \in Tabs, StartWrite(t) PROVE CInv'
<1> DEFINE p == tab[t]
           q == [p EXCEPT !.posts = RemoveAt(@, 1)]
           n == Len(p.posts)
<1>1. /\ server = "up" /\ 1 \in DOMAIN p.posts /\ server' = "writing"
      /\ body' = [from |-> t, feedback |-> p.posts[1]]
      /\ file' = Torn /\ UNCHANGED <<tree, env>>
      /\ tab' = [tab EXCEPT ![t] = q]
  BY DEF StartWrite, Calm
<1>2. /\ Open(t) /\ t \in env.tabs /\ p.posts # <<>>
      /\ \A s \in Tabs : s # t => tab[s] = Closed
  <2>1. p.posts # <<>>
    BY <1>1
  <2>2. tab[t] # Closed /\ ~Loading(t)
    BY <2>1, ClosedState DEF Loading
  <2>3. QED BY <2>1, <2>2, OthersClosed
<1>3. IsPage(p) /\ p.posts \in Seq(Feedback) /\ n \in Nat \ {0}
  BY <1>2 DEF IInv, IsPage
<1>4. \A s \in Tabs : tab'[s] = IF s = t THEN q ELSE tab[s]
  BY <1>1 DEF IInv
<1>5. PICK w : /\ w = q /\ w.posts = RemoveAt(p.posts, 1)
               /\ w.state = p.state /\ w.runs = p.runs /\ w.at = p.at /\ w.map = p.map
               /\ w.box = p.box /\ w.emptied = p.emptied
  <2>1. PICK o : o = p /\ IsPage(o)
    BY <1>3
  <2>2. LET v == [o EXCEPT !.posts = RemoveAt(o.posts, 1)] IN
        /\ v.state = o.state /\ v.runs = o.runs /\ v.at = o.at /\ v.map = o.map
        /\ v.box = o.box /\ v.emptied = o.emptied /\ v.posts = RemoveAt(o.posts, 1)
    BY <2>1, Fields
  <2>3. QED BY <2>1, <2>2
<1>6. /\ Len(w.posts) = n - 1 /\ \A i \in 1..(n - 1) : w.posts[i] = p.posts[i + 1]
      /\ w.posts = <<>> <=> n = 1
  <2>1. PICK ps \in Seq(Feedback) : ps = p.posts /\ Len(ps) = n /\ n \in Nat \ {0}
    BY <1>3
  <2>2. PICK rest : rest = RemoveAt(ps, 1)
    OBVIOUS
  <2>3. /\ rest \in Seq(Feedback) /\ Len(rest) = n - 1
        /\ \A i \in 1..(n - 1) : rest[i] = ps[i + 1]
    <3>1. 1 \in DOMAIN ps
      BY <2>1
    <3>2. QED BY <2>1, <2>2, <3>1, Removed
  <2>4. w.posts = rest
    BY <1>5, <2>1, <2>2
  <2> HIDE DEF n, p
  <2>5. QED BY <2>1, <2>3, <2>4
<1>7. tab'[t] = w
  BY <1>4, <1>5
<1>8. /\ p.state = "open" /\ Shows(p) /\ OnPage(p.map, p.runs)
      /\ p.map[Run(p)] # None /\ p.box = None => Run(p) \in p.emptied
      /\ Latest(t) = p.map
      /\ \A i \in 1..(n - 1) : Kept(p.posts[i].reviews, p.posts[i + 1].reviews, p.emptied)
      /\ \A i \in 1..n : Present(p.posts[i].reviews)
  BY <1>2 DEF Open
<1>9. Latest(t) = p.posts[n].reviews
  BY <1>2 DEF Latest
<1>10. Base' = p.posts[1].reviews
  BY <1>1 DEF Base
<1> HIDE DEF q, p, n
<1>11. Latest(t)' = w.map
  <2>1. CASE n = 1
    BY <1>5, <1>6, <1>7, <1>8, <1>9, <1>10, <2>1 DEF Latest
  <2>2. CASE n # 1
    <3>1. n - 1 \in 1..(n - 1) /\ n - 1 + 1 = n
      BY <1>3, <2>2
    <3>2. w.posts[Len(w.posts)] = p.posts[n]
      BY <1>6, <3>1
    <3>3. QED BY <1>5, <1>6, <1>7, <1>8, <1>9, <2>2, <3>2 DEF Latest
  <2>3. QED BY <2>1, <2>2
<1>12. w.posts # <<>> => Kept(Base', w.posts[1].reviews, w.emptied)
  <2>1. ASSUME n # 1 PROVE Kept(Base', w.posts[1].reviews, w.emptied)
    <3>1. 1 \in 1..(n - 1) /\ w.posts[1] = p.posts[1 + 1]
      BY <1>3, <1>6, <2>1
    <3>2. QED BY <1>5, <1>8, <1>10, <3>1
  <2>2. QED BY <1>6, <2>1
<1>13. ASSUME NEW i \in 1..(Len(w.posts) - 1)
       PROVE  Kept(w.posts[i].reviews, w.posts[i + 1].reviews, w.emptied)
  <2>1. i \in 1..(n - 1) /\ i + 1 \in 1..(n - 1)
    BY <1>3, <1>6
  <2>2. w.posts[i] = p.posts[i + 1] /\ w.posts[i + 1] = p.posts[i + 1 + 1]
    BY <1>6, <2>1
  <2>3. QED BY <1>5, <1>8, <2>1, <2>2
<1>14. ASSUME NEW i \in 1..Len(w.posts) PROVE Present(w.posts[i].reviews)'
  <2>1. i \in 1..(n - 1) /\ i + 1 \in 1..n
    BY <1>3, <1>6
  <2>2. QED BY <1>1, <1>6, <1>8, <2>1 DEF Present
<1>15. Shows(w)'
  BY <1>1, <1>5, <1>8 DEF Shows
<1>16. w.map[Run(w)] # None /\ w.box = None => Run(w) \in w.emptied
  BY <1>5, <1>8 DEF Run
<1>17. w.state = "open" /\ OnPage(w.map, w.runs)
  BY <1>5, <1>8
<1>18. Open(t)'
  BY <1>7, <1>11, <1>12, <1>13, <1>14, <1>15, <1>16, <1>17 DEF Open, Shows, Present
<1>19. \A s \in Tabs : \/ tab'[s] = Closed
                       \/ s \in env'.tabs /\ (Loading(s)' \/ Open(s)')
  BY <1>1, <1>2, <1>4, <1>18
<1>20. Present(file.reviews)' /\ Present(body.feedback.reviews)'
  <2>1. \A r \in Runs : Torn.reviews[r] = None
    BY DEF Torn, NoReviews
  <2>2. 1 \in 1..n
    BY <1>3
  <2>3. body'.feedback = p.posts[1]
    BY <1>1 DEF p
  <2>4. Present(p.posts[1].reviews)
    BY <1>8, <2>2
  <2>5. QED BY <1>1, <2>1, <2>3, <2>4 DEF Present
<1>21. body'.from \in Tabs /\ tab'[body'.from].state = "open"
  BY <1>1, <1>7, <1>17
<1>22. Calmly'
  BY <1>1, <1>19, <1>20, <1>21 DEF Calmly, Present
<1>23. QED BY <1>1, <1>22 DEF CInv

\* What was written is what the file has.
LEMMA CalmFinishWrite ==
  ASSUME IInv, CInv, Calm, FinishWrite PROVE CInv'
<1>1. /\ server = "writing" /\ server' = "up" /\ file' = body.feedback
      /\ UNCHANGED <<tree, env>>
  BY DEF FinishWrite
<1>2. PICK x : tab' = tab \/ tab' = [tab EXCEPT ![body.from].done = x]
  BY DEF FinishWrite, Answered
<1>3. ASSUME NEW t \in Tabs
      PROVE  tab'[t] = tab[t] \/ (t = body.from /\ tab'[t] = [tab[t] EXCEPT !.done = x])
  BY <1>2 DEF IInv
<1>4. Base' = Base
  BY <1>1 DEF Base
<1>5. Calmly
  BY DEF CInv
<1>6. tab' = tab \/ (body.from \in Tabs /\ tab[body.from].state = "open")
  <2>1. CASE body.from = None
    BY <2>1 DEF FinishWrite, Answered
  <2>2. CASE body.from # None
    BY <1>1, <1>5, <2>2 DEF Calmly
  <2>3. QED BY <2>1, <2>2
<1>7. ASSUME NEW t \in Tabs, tab[t] = Closed PROVE tab'[t] = Closed
  BY <1>3, <1>6, <1>7, ClosedState
<1>8. ASSUME NEW t \in Tabs, Open(t) PROVE Open(t)'
  <2>1. IsPage(tab[t])
    BY DEF IInv
  <2>2. PICK q : /\ tab'[t] = q
                 /\ q.state = tab[t].state /\ q.runs = tab[t].runs /\ q.at = tab[t].at
                 /\ q.map = tab[t].map /\ q.box = tab[t].box
                 /\ q.emptied = tab[t].emptied /\ q.posts = tab[t].posts
    <3>1. CASE tab'[t] = tab[t]
      BY <3>1
    <3>2. CASE tab'[t] = [tab[t] EXCEPT !.done = x]
      <4>1. PICK p : p = tab[t]
        OBVIOUS
      <4>2. IsPage(p) /\ tab'[t] = [p EXCEPT !.done = x]
        BY <2>1, <3>2, <4>1
      <4>3. LET q == [p EXCEPT !.done = x] IN
            /\ q.state = p.state /\ q.runs = p.runs /\ q.at = p.at /\ q.map = p.map
            /\ q.box = p.box /\ q.emptied = p.emptied /\ q.posts = p.posts
        BY <4>2, Fields
      <4>4. QED BY <4>1, <4>2, <4>3
    <3>3. QED BY <1>3, <3>1, <3>2
  <2>3. QED BY <1>1, <1>4, <1>8, <2>2, StaysOpen
<1>9. \A t \in Tabs : tab[t] = Closed \/ (t \in env.tabs /\ Open(t))
  BY <1>1, <1>5 DEF Calmly, Loading
<1>10. \A t \in Tabs : tab'[t] = Closed \/ (t \in env'.tabs /\ Open(t)')
  BY <1>1, <1>7, <1>8, <1>9
<1>11. Present(file.reviews)'
  BY <1>1, <1>5 DEF Calmly, Present
<1>12. Calmly'
  BY <1>1, <1>10, <1>11 DEF Calmly
<1>13. QED BY <1>1, <1>12 DEF CInv

-----------------------------------------------------------------------------
(* The invariant and the theorem.                                          *)

LEMMA InitIInv == Init => IInv
<1> SUFFICES ASSUME Init PROVE IInv
  OBVIOUS
<1>1. file \in Feedback
  BY NothingFiled DEF Init
<1>2. \A t \in Tabs : tab[t] = Closed
  BY DEF Init
<1>3. tab = [t \in Tabs |-> tab[t]]
  BY DEF Init
<1>4. \A t \in Tabs : IsPage(tab[t])
  BY <1>2, ClosedIsPage
<1> QED BY <1>1, <1>3, <1>4 DEF Init, IInv

LEMMA NextIInv == IInv /\ [Next]_vars => IInv'
<1> SUFFICES ASSUME IInv, [Next]_vars PROVE IInv'
  OBVIOUS
<1>1. CASE UNCHANGED reviewVars
  BY <1>1, Unchanged DEF reviewVars
<1>2. CASE FinishWrite \/ FailWrite
  BY <1>2, FinishWriteStep
<1>3. CASE Kill
  BY <1>3, KillStep
<1>4. CASE Serve
  BY <1>4, Unchanged DEF Serve
<1>5. ASSUME NEW t \in Tabs, StartWrite(t) \/ FailOpen(t) \/ LoadPage(t) PROVE IInv'
  BY <1>5, StartWriteStep, FailOpenStep, LoadPageStep
<1>6. ASSUME NEW t \in Tabs, PageStep(t) PROVE IInv'
  BY <1>6, GetFeedbackStep, LoadFeedbackStep, TypeStep, TimerStep, NavigateStep, SubmitStep,
     CloseDialogStep, LeaveStep DEF PageStep
<1> QED BY <1>1, <1>2, <1>3, <1>4, <1>5, <1>6 DEF Next, ServerStep, vars

\* A text is saved for the run it was typed for: navigation, the auto-save timer,
\* submits, reloads and kills in any order never file it under another run.
THEOREM FeedbackIsFiledRight == Spec => []FeedbackIsForItsRun
<1>1. IInv => FeedbackIsForItsRun
  BY DEF IInv, Feedback, OwnMaps, FeedbackIsForItsRun
<1> QED BY InitIInv, NextIInv, <1>1, PTL DEF Spec

LEMMA InitCInv == Init => CInv
<1> SUFFICES ASSUME Init PROVE CInv
  OBVIOUS
<1>1. env \in Situations /\ tree \in [Runs -> RunStates]
  BY ReviewAssumption, IterationAssumption DEF Init, Situations
<1>2. \A t \in Tabs : tab[t] = Closed
  BY DEF Init
<1>3. Present(file.reviews)
  BY DEF Init, Absent, NoReviews, Present
<1>4. QED BY <1>1, <1>2, <1>3 DEF Init, CInv, Calmly

LEMMA NextCInv == IInv /\ CInv /\ [Next]_vars => CInv'
<1> SUFFICES ASSUME IInv, CInv, [Next]_vars PROVE CInv'
  OBVIOUS
<1>1. /\ tree' \in [Runs -> RunStates]
      /\ UNCHANGED tree \/ UNCHANGED reviewVars
      /\ \A r \in Runs : tree[r] # None => tree'[r] # None
  <2>1. CASE SubagentStep(env.work) /\ UNCHANGED reviewVars
    BY <2>1, TreeGrows
  <2>2. CASE UNCHANGED tree
    BY <2>2 DEF CInv
  <2>3. (SubagentStep(env.work) /\ UNCHANGED reviewVars) \/ UNCHANGED tree
    BY DEF Next, vars, ServerStep, PageStep, LoadPage, StartWrite, FinishWrite, FailWrite,
           FailOpen, Kill, Serve, GetFeedback, LoadFeedback, Type, TimerFires, Navigate,
           Submit, CloseDialog, Leave
  <2>4. QED BY <2>1, <2>2, <2>3
<1>2. env' = env
  BY DEF Next, vars, ServerStep, PageStep, LoadPage, StartWrite, FinishWrite, FailWrite,
         FailOpen, Kill, Serve, GetFeedback, LoadFeedback, Type, TimerFires, Navigate,
         Submit, CloseDialog, Leave, reviewVars
<1>3. CASE ~Calm
  BY <1>1, <1>2, <1>3 DEF CInv, Calm
<1>4. CASE Calm
  <2>1. CASE UNCHANGED reviewVars
    BY <1>1, <1>2, <1>4, <2>1, CalmTree DEF CInv
  <2>2. CASE FinishWrite
    BY <1>4, <2>2, CalmFinishWrite
  <2>3. CASE Kill \/ Serve \/ FailWrite
    BY <1>4, <2>3 DEF Kill, Serve, FailWrite, Calm, CInv, Calmly
  <2>4. ASSUME NEW t \in Tabs, StartWrite(t) \/ FailOpen(t) \/ LoadPage(t) PROVE CInv'
    BY <1>4, <2>4, CalmStartWrite, CalmLoadPage DEF FailOpen, Calm
  <2>5. ASSUME NEW t \in Tabs, PageStep(t) PROVE CInv'
    BY <1>4, <2>5, CalmGetFeedback, CalmLoadFeedback, CalmType, CalmTimer, CalmNavigate, CalmSubmit,
       CalmCloseDialog, CalmLeave DEF PageStep
  <2>6. QED BY <2>1, <2>2, <2>3, <2>4, <2>5 DEF Next, ServerStep, vars
<1>5. QED BY <1>3, <1>4

\* In a calm review, with the dialog open and nothing on its way, the file has what the
\* page has: its requests have led there.  DialogIsTrue shows what the dialog says when
\* the server cannot write.
THEOREM DialogTellsTheTruth == Spec => []DialogIsRight
<1>1. ASSUME IInv, CInv, Calm, NEW t \in env.tabs, tab[t].done, tab[t].posts = <<>>,
             server = "up"
      PROVE  file.reviews = tab[t].map
  <2>1. t \in Tabs
    BY <1>1 DEF CInv, Situations
  <2>2. tab[t] # Closed
    BY <1>1 DEF Closed
  <2>3. ~Loading(t)
    BY <1>1 DEF Loading
  <2>4. Open(t)
    BY <1>1, <2>1, <2>2, <2>3, OthersClosed
  <2>5. QED BY <1>1, <2>4 DEF Open, Latest, Base
<1>2. IInv /\ CInv => DialogIsRight
  BY <1>1 DEF DialogIsRight
<1>3. QED BY InitIInv, NextIInv, InitCInv, NextCInv, <1>2, PTL DEF Spec

\* In a calm review, whatever a save finds in the file is in what it writes, but for
\* emptied boxes.  FeedbackIsKept shows what a user loses who does not wait for the page.
THEOREM FeedbackStaysSaved == Spec => SavedStaysSaved
<1>1. ASSUME IInv, CInv, Next, Calm, server = "up", server' = "writing",
             NEW r \in Runs, file.reviews[r] # None
      PROVE  body'.feedback.reviews[r] # None \/ r \in tab[body'.from].emptied
  <2>1. PICK t \in Tabs : StartWrite(t)
    BY <1>1 DEF Next, ServerStep, FinishWrite, FailWrite, FailOpen, Kill, Serve, PageStep,
           LoadPage, GetFeedback, LoadFeedback, Type, TimerFires, Navigate, Submit,
           CloseDialog, Leave, reviewVars
  <2>2. /\ 1 \in DOMAIN tab[t].posts
        /\ body' = [from |-> t, feedback |-> tab[t].posts[1]]
    BY <1>1, <2>1 DEF StartWrite, Calm
  <2>3. tab[t].posts # <<>>
    BY <2>2
  <2>4. tab[t] # Closed /\ ~Loading(t)
    BY <2>3, ClosedState DEF Loading
  <2>5. Open(t)
    BY <1>1, <2>4, OthersClosed
  <2>6. Kept(file.reviews, tab[t].posts[1].reviews, tab[t].emptied)
    BY <1>1, <2>3, <2>5 DEF Open, Base
  <2>7. QED BY <1>1, <2>2, <2>6 DEF Kept
<1>2. IInv /\ CInv /\ [Next]_vars => [Calm => SaveKeeps]_vars
  BY <1>1 DEF SaveKeeps
<1>3. QED BY InitIInv, NextIInv, InitCInv, NextCInv, <1>2, PTL DEF Spec, SavedStaysSaved
=============================================================================
