------------------------ MODULE EventPipeline_proofs ------------------------
(***************************************************************************)
(* Every event has one number, no connection carries one twice unless it   *)
(* was stored twice, and one producer's events arrive in order and without *)
(* a gap: for any producers, any number of events, of connections and of   *)
(* lost replies, and any channel and limit.                                *)
(***************************************************************************)
EXTENDS EventPipeline, FiniteSetTheorems, TLAPS

-----------------------------------------------------------------------------
(* The inductive invariant, in parts.                                      *)

\* No two alike, but for those in D.
Distinct(s, D) == \A i, j \in 1..Len(s) : s[i] = s[j] => i = j \/ s[i] \in D
Ascending(s)   == \A i, j \in 1..Len(s) : i < j => s[i] <= s[j]

Busy(p) == ~At(p, "idle")

\* Numbers come from the counter, each to one event.
Numbered ==
  /\ \A n \in Range(log) : n <= seq
  /\ \A p \in Producers : Busy(p) => p \in active /\ Number(p) <= seq
  /\ \A p \in Producers : At(p, "stored") => Number(p) \in Range(log)
  /\ OneNumberEach

\* What a connection carries is stored, and each copy of an event is in one place: still
\* to be replayed, sent, in the channel or on its way there.  Only what was replayed may
\* come by the channel again, and is not above maxSeq.
SentOnce ==
  /\ Range(hist) \cup Range(buf) \cup Range(sent) \subseteq Range(log)
  /\ Distinct(hist, again) /\ Distinct(buf, {}) /\ Distinct(sent, again)
  /\ Range(hist) \cap Range(sent) \subseteq again
  /\ \A p \in Producers : Busy(p) => Number(p) \notin Range(buf)
  /\ \A n \in Range(sent) : n > maxSeq =>
       n \notin Range(buf) /\ \A p \in Producers : Busy(p) => Number(p) # n

\* How far a connection is, and what is left of the one before.
Phases ==
  /\ conn # "replaying" => hist = <<>>
  /\ conn = "subscribed" => sent = <<>>
  /\ conn # "closed" => page /\ since = anchor
  /\ ~page => sent = <<>>
  /\ sent # <<>> => since = anchor
  /\ maxSeq = 0 \/ maxSeq \in Range(sent)

\* With one producer, the order of the numbers is the order everywhere.
InNumberOrder == OneProducer =>
  /\ Ascending(log) /\ Ascending(hist) /\ Ascending(buf) /\ Ascending(sent)
  /\ \A p \in Producers : Busy(p) => \A n \in Range(log) : n <= Number(p)
  /\ \A m \in Range(sent), n \in Range(hist) : m <= n
  /\ \A m \in Range(sent), n \in Range(buf) : m > maxSeq => m < n

\* A stored event behind since that is neither sent nor about to be replayed is
\* younger than all that are; and it is in the channel or on its way there.
NotYetSent(n) == n > since /\ n \notin missed /\ n \notin Range(sent) \cup Range(hist)

LeftIsYounger == OneProducer /\ since > 0 =>
  \A n \in Range(log) : NotYetSent(n) => \A m \in Range(sent) \cup Range(hist) : m < n

LeftIsComing == OneProducer /\ since > 0 /\ conn \in {"replaying", "live"} =>
  \A n \in Range(log) : NotYetSent(n) =>
    n \in Range(buf) \/ \E p \in Producers : Busy(p) /\ Number(p) = n

IInv ==
  /\ TypeOK /\ Numbered /\ SentOnce /\ Phases
  /\ InNumberOrder /\ LeftIsYounger /\ LeftIsComing

-----------------------------------------------------------------------------
(* Sequences.                                                              *)

LEMMA RangeIs ==
  ASSUME NEW T, NEW s \in Seq(T)
  PROVE  /\ Range(s) \subseteq T
         /\ \A n : n \in Range(s) <=> \E i \in 1..Len(s) : n = s[i]
BY DEF Range

LEMMA EmptyIs == Range(<<>>) = {} /\ Ascending(<<>>) /\ \A D : Distinct(<<>>, D)
BY DEF Range, Distinct, Ascending

LEMMA Appended ==
  ASSUME NEW T \in SUBSET Nat, NEW s \in Seq(T), NEW e \in T, NEW D
  PROVE  /\ Append(s, e) \in Seq(T)
         /\ Range(Append(s, e)) = Range(s) \cup {e}
         /\ Distinct(s, D) /\ (e \in Range(s) => e \in D) => Distinct(Append(s, e), D)
         /\ Ascending(s) /\ (\A n \in Range(s) : n <= e) => Ascending(Append(s, e))
<1> DEFINE a == Append(s, e)
<1>1. /\ a \in Seq(T) /\ Len(s) \in Nat /\ Len(a) = Len(s) + 1
      /\ a[Len(s) + 1] = e /\ \A i \in 1..Len(s) : a[i] = s[i]
  OBVIOUS
<1> HIDE DEF a
<1>2. \A n : n \in Range(a) <=> \E i \in 1..Len(a) : n = a[i] BY <1>1, RangeIs
<1>3. \A i \in 1..Len(a) : i \in 1..Len(s) \/ i = Len(s) + 1 BY <1>1
<1>4. Range(a) = Range(s) \cup {e}
  <2>1. ASSUME NEW n \in Range(a) PROVE n \in Range(s) \cup {e}
    BY <1>1, <1>2, <1>3, RangeIs
  <2>2. ASSUME NEW n \in Range(s) PROVE n \in Range(a)
    <3>1. PICK i \in 1..Len(s) : n = s[i] BY RangeIs
    <3>2. i \in 1..Len(a) /\ n = a[i] BY <1>1, <3>1
    <3>3. QED BY <1>2, <3>2
  <2>3. e \in Range(a)
    <3>1. Len(s) + 1 \in 1..Len(a) /\ e = a[Len(s) + 1] BY <1>1
    <3>2. QED BY <1>2, <3>1
  <2>4. QED BY <2>1, <2>2, <2>3
<1>5. \A i \in 1..Len(s) : s[i] \in Range(s) BY RangeIs
<1>6. Distinct(s, D) /\ (e \in Range(s) => e \in D) => Distinct(a, D)
  BY <1>1, <1>3, <1>5 DEF Distinct
<1>7. Ascending(s) /\ (\A n \in Range(s) : n <= e) => Ascending(a)
  <2>1. ASSUME Ascending(s), \A n \in Range(s) : n <= e,
               NEW i \in 1..Len(a), NEW j \in 1..Len(a), i < j
        PROVE  a[i] <= a[j]
    <3>1. i \in 1..Len(s) BY <1>1, <1>3, <2>1
    <3>2. QED BY <1>1, <1>3, <1>5, <2>1, <3>1 DEF Ascending
  <2>2. QED BY <2>1 DEF Ascending
<1>8. QED BY <1>1, <1>4, <1>6, <1>7 DEF a

LEMMA Taken ==
  ASSUME NEW T, NEW s \in Seq(T), s # <<>>, NEW D
  PROVE  /\ Tail(s) \in Seq(T)
         /\ Head(s) \in T
         /\ Range(s) = {Head(s)} \cup Range(Tail(s))
         /\ Distinct(s, D) =>
              Distinct(Tail(s), D) /\ (Head(s) \in Range(Tail(s)) => Head(s) \in D)
         /\ Ascending(s) => Ascending(Tail(s)) /\ \A n \in Range(Tail(s)) : Head(s) <= n
<1> DEFINE r == Tail(s)
<1>1. /\ r \in Seq(T) /\ Len(s) \in Nat \ {0} /\ Len(r) = Len(s) - 1
      /\ Head(s) = s[1] /\ s[1] \in T /\ \A i \in 1..Len(r) : r[i] = s[i + 1]
  OBVIOUS
<1> HIDE DEF r
<1>2. \A n : n \in Range(r) <=> \E i \in 1..Len(r) : n = r[i] BY <1>1, RangeIs
<1>3. /\ \A i \in 1..Len(r) : i + 1 \in 1..Len(s) /\ i + 1 # 1 /\ 1 < i + 1
      /\ 1 \in 1..Len(s)
      /\ \A i \in 1..Len(s) : i # 1 => (i - 1 \in 1..Len(r) /\ s[i] = r[i - 1])
  BY <1>1
<1>4. Range(s) = {Head(s)} \cup Range(r)
  <2>1. ASSUME NEW n \in Range(s) PROVE n \in {Head(s)} \cup Range(r)
    <3>1. PICK i \in 1..Len(s) : n = s[i] BY RangeIs
    <3>2. QED BY <1>1, <1>2, <1>3, <3>1
  <2>2. ASSUME NEW n \in Range(r) PROVE n \in Range(s)
    <3>1. PICK i \in 1..Len(r) : n = r[i] BY <1>2
    <3>2. i + 1 \in 1..Len(s) /\ n = s[i + 1] BY <1>1, <1>3, <3>1
    <3>3. QED BY <3>2, RangeIs
  <2>3. Head(s) \in Range(s) BY <1>1, <1>3, RangeIs
  <2>4. QED BY <2>1, <2>2, <2>3
<1>5. ASSUME Distinct(s, D)
      PROVE  Distinct(r, D) /\ (Head(s) \in Range(r) => Head(s) \in D)
  <2>1. \A i, j \in 1..Len(r) : r[i] = r[j] => i = j \/ r[i] \in D
    <3>1. ASSUME NEW i \in 1..Len(r), NEW j \in 1..Len(r), r[i] = r[j], r[i] \notin D
          PROVE  i = j
      <4>1. i + 1 = j + 1 BY <1>1, <1>3, <1>5, <3>1 DEF Distinct
      <4>2. QED BY <4>1
    <3>2. QED BY <3>1
  <2>2. \A i \in 1..Len(r) : s[1] = r[i] => s[1] \in D BY <1>1, <1>3, <1>5 DEF Distinct
  <2>3. QED BY <1>1, <1>2, <2>1, <2>2 DEF Distinct
<1>6. ASSUME Ascending(s) PROVE Ascending(r) /\ \A n \in Range(r) : Head(s) <= n
  <2>1. ASSUME NEW i \in 1..Len(r), NEW j \in 1..Len(r), i < j PROVE r[i] <= r[j]
    <3>1. i + 1 < j + 1 BY <2>1
    <3>2. QED BY <1>1, <1>3, <1>6, <3>1 DEF Ascending
  <2>2. \A i \in 1..Len(r) : s[1] <= r[i] BY <1>1, <1>3, <1>6 DEF Ascending
  <2>3. QED BY <1>1, <1>2, <2>1, <2>2 DEF Ascending
<1>7. QED BY <1>1, <1>4, <1>5, <1>6 DEF r

-----------------------------------------------------------------------------
(* The replay: a finite set of positions can be listed in its order.       *)

\* Injections that keep the order, from a set to as many numbers, have an inverse
\* that keeps it too: the position with the k-th rank.
LEMMA InOrderLists ==
  ASSUME NEW S \in SUBSET Nat, IsFiniteSet(S)
  PROVE  /\ Cardinality(S) \in Nat
         /\ InOrder(S) \in [1..Cardinality(S) -> S]
         /\ \A j, k \in 1..Cardinality(S) : j < k => InOrder(S)[j] < InOrder(S)[k]
         /\ \A j, k \in 1..Cardinality(S) : InOrder(S)[j] = InOrder(S)[k] => j = k
<1> DEFINE upto(i) == {j \in S : j <= i}
           n == Cardinality(S)
           rank == [i \in S |-> Cardinality(upto(i))]
<1>1. n \in Nat BY FS_CardinalityType
<1>2. ASSUME NEW i \in S PROVE rank[i] \in 1..n
  <2>1. upto(i) \in SUBSET S /\ i \in upto(i) OBVIOUS
  <2>2. IsFiniteSet(upto(i)) /\ Cardinality(upto(i)) <= n BY <2>1, FS_Subset
  <2>3. Cardinality(upto(i)) \in Nat BY <2>2, FS_CardinalityType
  <2>4. upto(i) # {} BY <2>1
  <2>5. Cardinality(upto(i)) # 0 BY <2>2, <2>4, FS_EmptySet
  <2>6. QED BY <1>1, <2>2, <2>3, <2>5
<1>3. ASSUME NEW i \in S, NEW j \in S, i < j PROVE rank[i] < rank[j]
  <2>1. upto(i) \in SUBSET upto(j) /\ j \in upto(j) /\ j \notin upto(i)
    <3>1. i \in Nat /\ j \in Nat OBVIOUS
    <3>2. ASSUME NEW k \in S, k <= i PROVE k <= j
      <4>1. k \in Nat OBVIOUS
      <4>2. QED BY <1>3, <3>1, <3>2, <4>1
    <3>3. j <= j /\ ~(j <= i) BY <1>3, <3>1
    <3>4. QED BY <3>2, <3>3
  <2>2. IsFiniteSet(upto(j)) BY FS_Subset
  <2>3. /\ Cardinality(upto(i)) <= Cardinality(upto(j))
        /\ Cardinality(upto(j)) # Cardinality(upto(i))
    BY <2>1, <2>2, FS_Subset
  <2>4. rank[i] \in 1..n /\ rank[j] \in 1..n BY <1>2
  <2>5. QED BY <1>1, <2>3, <2>4
<1> HIDE DEF rank
<1>4. rank \in [S -> 1..n] BY <1>2 DEF rank
<1>5. \A i, j \in S : rank[i] = rank[j] => i = j BY <1>1, <1>3, <1>4
<1>6. rank \in Injection(S, 1..n) BY <1>4, <1>5 DEF Injection, IsInjective
<1>7. IsFiniteSet(1..n) /\ Cardinality(1..n) = n BY <1>1, FS_Interval
<1>8. rank \in Surjection(S, 1..n) BY <1>6, <1>7, FS_Injection
<1>9. \A k \in 1..n : \E i \in S : rank[i] = k BY <1>8 DEF Surjection
<1> DEFINE at == [k \in 1..n |-> CHOOSE i \in S : rank[i] = k]
<1>10. at \in [1..n -> S] /\ \A k \in 1..n : rank[at[k]] = k BY <1>9
<1> HIDE DEF at
<1>11. ASSUME NEW j \in 1..n, NEW k \in 1..n, j < k PROVE at[j] < at[k]
  <2>1. at[j] \in Nat /\ at[k] \in Nat BY <1>10
  <2>2. rank[at[j]] = j /\ rank[at[k]] = k /\ j \in Nat /\ k \in Nat BY <1>1, <1>10
  <2>3. at[j] # at[k] BY <1>11, <2>2
  <2>4. ~(at[k] < at[j])
    <3>1. ASSUME at[k] < at[j] PROVE FALSE
      <4>1. rank[at[k]] < rank[at[j]] BY <1>3, <1>10, <3>1
      <4>2. QED BY <1>11, <2>2, <4>1
    <3>2. QED BY <3>1
  <2>5. QED BY <2>1, <2>3, <2>4
<1> HIDE DEF n
<1>12. \E f \in [1..n -> S] : \A j, k \in 1..n : j < k => f[j] < f[k] BY <1>10, <1>11
<1>13. /\ InOrder(S) \in [1..n -> S]
       /\ \A j, k \in 1..n : j < k => InOrder(S)[j] < InOrder(S)[k]
  BY <1>12 DEF InOrder, n
<1>14. ASSUME NEW j \in 1..n, NEW k \in 1..n, InOrder(S)[j] = InOrder(S)[k] PROVE j = k
  <2>1. InOrder(S)[j] \in S /\ j \in Nat /\ k \in Nat BY <1>1, <1>13
  <2>2. InOrder(S)[j] \in Nat BY <2>1
  <2>3. ~(j < k) /\ ~(k < j) BY <1>13, <1>14, <2>2
  <2>4. QED BY <2>1, <2>3
<1>15. QED BY <1>1, <1>13, <1>14 DEF n

\* The replay is a part of the log, in the order of the log.
LEMMA ReplayIsOfTheLog ==
  ASSUME log \in Seq(Seqs), NEW from, NEW n, NEW D
  PROVE  /\ Replay(from, n) \in Seq(Seqs)
         /\ Range(Replay(from, n)) \subseteq {x \in Range(log) : x > from}
         /\ Distinct(log, D) => Distinct(Replay(from, n), D)
         /\ Ascending(log) => Ascending(Replay(from, n))
<1> DEFINE newer == {i \in 1..Len(log) : log[i] > from}
           kept == LastOf(newer, n)
           at == InOrder(kept)
           r == Replay(from, n)
           c == Cardinality(kept)
<1>1. kept \subseteq newer /\ newer \subseteq 1..Len(log) BY DEF LastOf
<1>2. Len(log) \in Nat /\ IsFiniteSet(1..Len(log)) BY FS_Interval
<1>3. kept \in SUBSET Nat /\ IsFiniteSet(kept) BY <1>1, <1>2, FS_Subset
<1> HIDE DEF kept
<1>4. /\ c \in Nat /\ at \in [1..c -> kept]
      /\ \A j, k \in 1..c : j < k => at[j] < at[k]
      /\ \A j, k \in 1..c : at[j] = at[k] => j = k
  BY <1>3, InOrderLists
<1>5. \A i \in kept : i \in 1..Len(log) /\ log[i] > from BY <1>1
<1>6. r = [k \in 1..c |-> log[at[k]]]
  <2>1. r = [k \in DOMAIN at |-> log[at[k]]] BY DEF Replay, kept
  <2>2. QED BY <1>4, <2>1
<1> HIDE DEF r, at, c
<1>7. \A k \in 1..c : at[k] \in 1..Len(log) /\ log[at[k]] \in Seqs /\ log[at[k]] > from
  BY <1>4, <1>5
<1>8. r \in Seq(Seqs) /\ Len(r) = c /\ \A k \in 1..c : r[k] = log[at[k]]
  BY <1>4, <1>6, <1>7
<1> HIDE DEF newer
<1>9. Range(r) \subseteq {x \in Range(log) : x > from}
  <2>1. ASSUME NEW x \in Range(r) PROVE x \in Range(log) /\ x > from
    <3>1. PICK k \in 1..c : x = r[k] BY <1>8, RangeIs
    <3>2. QED BY <1>7, <1>8, <3>1, RangeIs
  <2>2. QED BY <2>1
<1>10. ASSUME Distinct(log, D) PROVE Distinct(r, D)
  <2>1. ASSUME NEW j \in 1..c, NEW k \in 1..c, r[j] = r[k], r[j] \notin D PROVE j = k
    <3>1. log[at[j]] = log[at[k]] /\ log[at[j]] \notin D BY <1>8, <2>1
    <3>2. at[j] = at[k] BY <1>7, <1>10, <3>1 DEF Distinct
    <3>3. QED BY <1>4, <3>2
  <2>2. QED BY <1>8, <2>1 DEF Distinct
<1>11. ASSUME Ascending(log) PROVE Ascending(r)
  <2>1. ASSUME NEW j \in 1..c, NEW k \in 1..c, j < k PROVE r[j] <= r[k]
    <3>1. at[j] < at[k] BY <1>4, <2>1
    <3>2. log[at[j]] <= log[at[k]] BY <1>7, <1>11, <3>1 DEF Ascending
    <3>3. QED BY <1>8, <3>2
  <2>2. QED BY <1>8, <2>1 DEF Ascending
<1>12. QED BY <1>8, <1>9, <1>10, <1>11 DEF r

\* The history a page loads has a greatest number: its anchor exists.
LEMMA MaxOfSome ==
  ASSUME NEW S \in SUBSET Nat, IsFiniteSet(S), S # {}
  PROVE  Max(S) \in S /\ \A n \in S : n <= Max(S)
<1> DEFINE c == Cardinality(S)
           at == InOrder(S)
<1>1. c \in Nat /\ c # 0 BY FS_CardinalityType, FS_EmptySet
<1>2. /\ at \in [1..c -> S] /\ \A j, k \in 1..c : j < k => at[j] < at[k]
      /\ \A j, k \in 1..c : at[j] = at[k] => j = k
  BY InOrderLists
<1> HIDE DEF at
<1>3. S \subseteq Nat OBVIOUS
<1>4. IsFiniteSet(1..c) /\ Cardinality(1..c) = c BY <1>1, FS_Interval
<1>5. at \in Injection(1..c, S) BY <1>2 DEF Injection, IsInjective
<1>6. at \in Surjection(1..c, S) BY <1>4, <1>5, FS_Injection
<1> HIDE DEF c
<1>7. \A n \in S : \E k \in 1..c : at[k] = n BY <1>6 DEF Surjection
<1>8. c \in 1..c /\ at[c] \in S BY <1>1, <1>2
<1>9. \A n \in S : at[c] >= n
  <2>1. ASSUME NEW n \in S PROVE at[c] >= n
    <3>1. PICK k \in 1..c : at[k] = n BY <1>7
    <3>2. k = c \/ k < c BY <1>1
    <3>3. n \in Nat BY <1>3
    <3>4. CASE k = c BY <3>1, <3>3, <3>4
    <3>5. CASE k < c
      <4>1. n < at[c] BY <1>2, <1>8, <3>1, <3>5
      <4>2. at[c] \in Nat BY <1>8
      <4>3. QED BY <3>3, <4>1, <4>2
    <3>6. QED BY <3>2, <3>4, <3>5
  <2>2. QED BY <2>1
<1>10. \E x \in S : \A y \in S : x >= y BY <1>8, <1>9
<1>11. Max(S) \in S /\ \A y \in S : Max(S) >= y BY <1>10 DEF Max
<1>12. QED BY <1>11

-----------------------------------------------------------------------------
(* The steps of Ingest.                                                    *)

IngState == ({"numbered", "stored"} \X Seqs) \cup {Idle}

LEMMA IngIs ==
  ASSUME TypeOK, NEW p \in Producers
  PROVE  /\ ing[p] \in IngState
         /\ Busy(p) <=> At(p, "numbered") \/ At(p, "stored")
         /\ Busy(p) => Number(p) \in Seqs
BY DEF TypeOK, IngState, Busy, At, Number, Idle

\* What happens to p is of no concern to the other producers.
LEMMA Goes ==
  ASSUME TypeOK, NEW p \in Producers, NEW v \in IngState, IngestTo(p, v)
  PROVE  /\ ing' \in [Producers -> IngState]
         /\ ing'[p] = v
         /\ \A q \in Producers \ {p} :
              /\ Busy(q)' <=> Busy(q)
              /\ At(q, "numbered")' <=> At(q, "numbered")
              /\ At(q, "stored")' <=> At(q, "stored")
              /\ Number(q)' = Number(q)
<1>1. ing \in [Producers -> IngState] BY DEF TypeOK, IngState
<1>2. ing' = [ing EXCEPT ![p] = v] BY DEF IngestTo
<1>3. ing' \in [Producers -> IngState] BY <1>1, <1>2
<1>4. ing'[p] = v /\ \A q \in Producers \ {p} : ing'[q] = ing[q] BY <1>1, <1>2
<1>5. QED BY <1>3, <1>4 DEF Busy, At, Number

\* One producer at a time: a busy one is alone.
LEMMA BusyAlone ==
  ASSUME TypeOK, Numbered, OneProducer, NEW p \in Producers, NEW q \in Producers, Busy(p), Busy(q)
  PROVE  p = q
<1>1. p \in active /\ q \in active BY DEF Numbered
<1>2. IsFiniteSet(active) BY PipelineAssumption, FS_Subset DEF TypeOK
<1>3. \E x : active = {x} BY <1>2, FS_Singleton DEF OneProducer
<1>4. QED BY <1>1, <1>3

LEMMA LogIs ==
  ASSUME TypeOK
  PROVE  /\ Range(log) \subseteq Seqs /\ Range(hist) \subseteq Seqs
         /\ Range(buf) \subseteq Seqs /\ Range(sent) \subseteq Seqs
         /\ Seqs \subseteq Nat /\ seq \in Nat
<1>1. Seqs \subseteq Nat /\ seq \in Nat BY PipelineAssumption DEF TypeOK, Seqs
<1>2. QED BY <1>1, RangeIs DEF TypeOK

LEMMA IncrStep == ASSUME IInv, NEW p \in Producers, Incr(p) PROVE IInv'
<1>1. TypeOK /\ Numbered /\ SentOnce /\ Phases /\ InNumberOrder /\ LeftIsYounger /\ LeftIsComing
  BY DEF IInv
<1>2. /\ p \in active /\ ~Busy(p) /\ seq < MaxSeq /\ seq' = seq + 1
      /\ IngestTo(p, <<"numbered", seq + 1>>)
      /\ UNCHANGED <<active, log, again, retries, client, breaks, stream, missed>>
  BY DEF Incr, Busy, resent
<1>3. /\ seq + 1 \in Seqs /\ seq + 1 \in 0..MaxSeq
      /\ \A n \in Range(log) : n < seq + 1
      /\ seq + 1 \notin Range(log)
      /\ \A n \in Nat : n <= seq => n <= seq + 1 /\ n # seq + 1
  BY <1>1, <1>2, PipelineAssumption, LogIs DEF TypeOK, Seqs, Numbered
<1>4. <<"numbered", seq + 1>> \in IngState BY <1>3 DEF IngState
<1>5. /\ ing' \in [Producers -> IngState]
      /\ Busy(p)' /\ At(p, "numbered")' /\ ~At(p, "stored")' /\ Number(p)' = seq + 1
      /\ \A q \in Producers \ {p} :
              /\ Busy(q)' <=> Busy(q)
              /\ At(q, "numbered")' <=> At(q, "numbered")
              /\ At(q, "stored")' <=> At(q, "stored")
              /\ Number(q)' = Number(q)
  BY <1>1, <1>2, <1>4, Goes DEF Busy, At, Number
<1>6. TypeOK' BY <1>1, <1>2, <1>3, <1>5 DEF TypeOK, IngState, client, stream
<1>7. \A q \in Producers \ {p} : Busy(q) => Number(q) \in Nat /\ Number(q) <= seq
  BY <1>1, IngIs, LogIs DEF Numbered
<1>8. Numbered'
  <2>1. \A n \in Range(log)' : n <= seq' BY <1>1, <1>2, <1>3, LogIs DEF Numbered
  <2>2. \A q \in Producers : Busy(q)' => q \in active' /\ Number(q)' <= seq'
    BY <1>1, <1>2, <1>3, <1>5, <1>7, LogIs DEF Numbered
  <2>3. \A q \in Producers : At(q, "stored")' => Number(q)' \in Range(log)'
    BY <1>1, <1>2, <1>5 DEF Numbered
  <2>4. \A q \in Producers :
          At(q, "numbered")' /\ Number(q)' \in Range(log)' => Number(q)' \in again'
    BY <1>1, <1>2, <1>3, <1>5 DEF Numbered, OneNumberEach
  <2>5. ASSUME NEW q \in Producers, NEW r \in Producers, Busy(q)', Busy(r)', Number(q)' = Number(r)'
        PROVE  q = r
    BY <1>1, <1>3, <1>5, <1>7, <2>5 DEF Numbered, OneNumberEach, Busy
  <2>6. OneNumberEach' BY <1>1, <1>2, <2>4, <2>5 DEF Numbered, OneNumberEach, Busy
  <2>7. QED BY <2>1, <2>2, <2>3, <2>6 DEF Numbered
<1>9. SentOnce'
  <2>1. \A q \in Producers : Busy(q)' => Number(q)' \notin Range(buf)'
    BY <1>1, <1>2, <1>3, <1>5 DEF SentOnce, stream
  <2>2. ASSUME NEW n \in Range(sent)', n > maxSeq', NEW q \in Producers, Busy(q)'
        PROVE  Number(q)' # n
    BY <1>1, <1>2, <1>3, <1>5, <2>2 DEF SentOnce, stream
  <2>3. QED BY <1>1, <1>2, <2>1, <2>2 DEF SentOnce, stream
<1>10. Phases' BY <1>1, <1>2 DEF Phases, stream, client
<1>11. InNumberOrder'
  <2>1. ASSUME OneProducer, NEW q \in Producers, Busy(q)', NEW n \in Range(log)
        PROVE  n <= Number(q)'
    BY <1>1, <1>3, <1>5, <2>1, LogIs DEF InNumberOrder
  <2>2. QED BY <1>1, <1>2, <2>1 DEF InNumberOrder, OneProducer, stream
<1>12. LeftIsYounger' BY <1>1, <1>2 DEF LeftIsYounger, NotYetSent, OneProducer, stream
<1>13. LeftIsComing'
  <2>1. \A n : (\E q \in Producers : Busy(q) /\ Number(q) = n)
               => \E q \in Producers : Busy(q)' /\ Number(q)' = n
    BY <1>1, <1>2, <1>5, IngIs
  <2>2. QED BY <1>1, <1>2, <2>1 DEF LeftIsComing, NotYetSent, OneProducer, stream
<1>14. QED BY <1>6, <1>8, <1>9, <1>10, <1>11, <1>12, <1>13 DEF IInv

LEMMA IncrLostStep == ASSUME IInv, NEW p \in Producers, IncrLost(p) PROVE IInv'
<1>1. TypeOK /\ Numbered /\ SentOnce /\ Phases /\ InNumberOrder /\ LeftIsYounger /\ LeftIsComing
  BY DEF IInv
<1>2. /\ seq < MaxSeq /\ seq' = seq + 1 /\ retries > 0 /\ retries' = retries - 1
      /\ UNCHANGED <<active, log, ing, again, client, breaks, stream, missed>>
  BY DEF IncrLost
<1>3. seq \in Nat /\ seq + 1 \in 0..MaxSeq BY <1>1, <1>2, PipelineAssumption DEF TypeOK
<1>4. TypeOK' BY <1>1, <1>2, <1>3 DEF TypeOK, client, stream
<1>5. Numbered'
  <2>1. \A n \in Nat : n <= seq => n <= seq + 1 BY <1>3
  <2>2. \A n \in Range(log) : n \in Nat BY <1>1, LogIs
  <2>3. \A q \in Producers : Busy(q) => Number(q) \in Nat BY <1>1, IngIs, LogIs
  <2>4. OneNumberEach' BY <1>1, <1>2 DEF Numbered, OneNumberEach, At, Number
  <2>5. QED BY <1>1, <1>2, <2>1, <2>2, <2>3, <2>4 DEF Numbered, Busy, At, Number
<1>6. SentOnce' BY <1>1, <1>2 DEF SentOnce, stream, Busy, At, Number
<1>7. Phases' BY <1>1, <1>2 DEF Phases, stream, client
<1>8. InNumberOrder' BY <1>1, <1>2 DEF InNumberOrder, OneProducer, stream, Busy, At, Number
<1>9. LeftIsYounger' BY <1>1, <1>2 DEF LeftIsYounger, NotYetSent, OneProducer, stream
<1>10. LeftIsComing'
  BY <1>1, <1>2 DEF LeftIsComing, NotYetSent, OneProducer, stream, Busy, At, Number
<1>11. QED BY <1>4, <1>5, <1>6, <1>7, <1>8, <1>9, <1>10 DEF IInv

\* A copy is stored, and its Ingest does not know it yet.
LEMMA StoreLostStep == ASSUME IInv, NEW p \in Producers, StoreLost(p) PROVE IInv'
<1> DEFINE e == Number(p)
<1>1. TypeOK /\ Numbered /\ SentOnce /\ Phases /\ InNumberOrder /\ LeftIsYounger /\ LeftIsComing
  BY DEF IInv
<1>2. /\ At(p, "numbered") /\ Busy(p) /\ retries > 0 /\ retries' = retries - 1
      /\ log' = Append(log, e) /\ again' = again \cup {e}
      /\ UNCHANGED <<active, seq, ing, client, breaks, stream, missed>>
  BY DEF StoreLost, Busy, At
<1>3. /\ e \in Seqs /\ e <= seq /\ e \in Nat
      /\ log \in Seq(Seqs) /\ Seqs \in SUBSET Nat
  BY <1>1, <1>2, IngIs, LogIs DEF Numbered, TypeOK
<1> HIDE DEF e
<1>4. /\ log' \in Seq(Seqs) /\ Range(log') = Range(log) \cup {e}
      /\ Distinct(log, again') => Distinct(log', again')
      /\ Ascending(log) /\ (\A n \in Range(log) : n <= e) => Ascending(log')
  BY <1>2, <1>3, Appended
<1>5. \A s : Distinct(s, again) => Distinct(s, again') BY <1>2 DEF Distinct
<1>6. /\ \A q \in Producers : /\ Busy(q)' <=> Busy(q)
                              /\ At(q, "numbered")' <=> At(q, "numbered")
                              /\ At(q, "stored")' <=> At(q, "stored")
                              /\ Number(q)' = Number(q)
  BY <1>2 DEF Busy, At, Number
<1>7. TypeOK'
  <2>1. again' \subseteq Seqs /\ retries' \in Nat BY <1>1, <1>2, <1>3 DEF TypeOK
  <2>2. QED BY <1>1, <1>2, <1>4, <2>1 DEF TypeOK, client, stream
<1>8. Numbered'
  <2>1. Distinct(log', again') BY <1>1, <1>4, <1>5 DEF Numbered, OneNumberEach, Distinct
  <2>2. \A q \in Producers \ {p} : Busy(q) => Number(q) # e
    BY <1>1, <1>2 DEF Numbered, OneNumberEach, Busy, e
  <2>3. ASSUME NEW q \in Producers, At(q, "numbered"), Number(q) \in Range(log')
        PROVE  Number(q) \in again'
    <3>1. CASE q = p BY <1>2, <3>1 DEF e
    <3>2. CASE q # p
      <4>1. Number(q) # e BY <1>1, <2>2, <2>3, <3>2, IngIs
      <4>2. QED BY <1>1, <1>2, <1>4, <2>3, <4>1 DEF Numbered, OneNumberEach
    <3>3. QED BY <3>1, <3>2
  <2>4. OneNumberEach'
    BY <1>1, <1>6, <2>1, <2>3 DEF Numbered, OneNumberEach, Busy, Distinct
  <2>5. QED BY <1>1, <1>2, <1>3, <1>4, <1>6, <2>4 DEF Numbered
<1>9. SentOnce'
  <2>1. Range(log) \subseteq Range(log') /\ again \subseteq again' BY <1>2, <1>4
  <2>2. /\ Distinct(hist', again') /\ Distinct(sent', again') /\ Distinct(buf', {})
        /\ Range(hist') \cap Range(sent') \subseteq again'
    BY <1>1, <1>2, <1>5, <2>1 DEF SentOnce, stream
  <2>3. QED BY <1>1, <1>2, <1>6, <2>1, <2>2 DEF SentOnce, stream
<1>10. Phases' BY <1>1, <1>2 DEF Phases, stream, client
<1>11. OneProducer => \A n \in Range(log) : n <= e
  BY <1>1, <1>2 DEF InNumberOrder, e
<1>12. InNumberOrder'
  <2>1. ASSUME OneProducer, NEW q \in Producers, Busy(q), NEW n \in Range(log')
        PROVE  n <= Number(q)
    <3>1. q = p BY <1>1, <1>2, <2>1, BusyAlone
    <3>2. QED BY <1>3, <1>4, <1>11, <2>1, <3>1 DEF e
  <2>2. OneProducer => Ascending(log') BY <1>1, <1>4, <1>11 DEF InNumberOrder
  <2>3. QED BY <1>1, <1>2, <1>6, <2>1, <2>2 DEF InNumberOrder, OneProducer, stream
<1>13. \A n : NotYetSent(n)' <=> NotYetSent(n) BY <1>2 DEF NotYetSent, stream
<1>14. LeftIsYounger'
  <2>1. ASSUME OneProducer, since > 0, NEW n \in Range(log'), NotYetSent(n),
               NEW m \in Range(sent) \cup Range(hist)
        PROVE  m < n
    <3>1. CASE n = e
      <4>1. m \in Range(log) /\ m <= e BY <1>1, <1>11, <2>1 DEF SentOnce
      <4>2. m # e BY <2>1, <3>1 DEF NotYetSent
      <4>3. m \in Nat BY <1>1, <4>1, LogIs
      <4>4. QED BY <1>3, <3>1, <4>1, <4>2, <4>3
    <3>2. CASE n \in Range(log) BY <1>1, <2>1, <3>2 DEF LeftIsYounger
    <3>3. QED BY <1>4, <2>1, <3>1, <3>2
  <2>2. QED BY <1>2, <1>13, <2>1 DEF LeftIsYounger, OneProducer, stream
<1>15. LeftIsComing'
  <2>1. ASSUME OneProducer, since > 0, conn \in {"replaying", "live"},
               NEW n \in Range(log'), NotYetSent(n)
        PROVE  n \in Range(buf) \/ \E q \in Producers : Busy(q) /\ Number(q) = n
    <3>1. CASE n = e BY <1>2, <3>1 DEF e
    <3>2. CASE n \in Range(log) BY <1>1, <2>1, <3>2 DEF LeftIsComing
    <3>3. QED BY <1>4, <2>1, <3>1, <3>2
  <2>2. QED BY <1>2, <1>6, <1>13, <2>1 DEF LeftIsComing, OneProducer, stream
<1>16. QED BY <1>7, <1>8, <1>9, <1>10, <1>12, <1>14, <1>15 DEF IInv

\* XADD, and its failure, after which p is idle and the event missed.
LEMMA StoreStep == ASSUME IInv, NEW p \in Producers, Store(p) \/ StoreFails(p) PROVE IInv'
<1> DEFINE e == Number(p)
<1>1. TypeOK /\ Numbered /\ SentOnce /\ Phases /\ InNumberOrder /\ LeftIsYounger /\ LeftIsComing
  BY DEF IInv
<1>2. /\ At(p, "numbered") /\ Busy(p) /\ ~At(p, "stored")
      /\ log' \in {log, Append(log, e)}
      /\ \/ IngestTo(p, <<"stored", e>>) /\ log' = Append(log, e) /\ missed' = missed
         \/ IngestTo(p, Idle) /\ missed' = missed \cup {e}
      /\ UNCHANGED <<active, seq, again, retries, client, breaks, stream>>
  BY DEF Store, StoreFails, Busy, At, resent
<1>3. /\ e \in Seqs /\ e <= seq /\ p \in active /\ e \notin Range(buf)
      /\ e \in Range(log) => e \in again
      /\ log \in Seq(Seqs) /\ Seqs \in SUBSET Nat
  BY <1>1, <1>2, IngIs, LogIs DEF Numbered, OneNumberEach, SentOnce, TypeOK
<1> HIDE DEF e
<1>4. /\ log' \in Seq(Seqs)
      /\ Range(log') \in {Range(log), Range(log) \cup {e}}
      /\ log' = Append(log, e) => Range(log') = Range(log) \cup {e}
      /\ Distinct(log, again) => Distinct(log', again)
      /\ Ascending(log) /\ (\A n \in Range(log) : n <= e) => Ascending(log')
  <2>1. /\ Append(log, e) \in Seq(Seqs) /\ Range(Append(log, e)) = Range(log) \cup {e}
        /\ Distinct(log, again) => Distinct(Append(log, e), again)
        /\ Ascending(log) /\ (\A n \in Range(log) : n <= e) => Ascending(Append(log, e))
    BY <1>3, Appended
  <2>2. CASE log' = log BY <1>3, <2>1, <2>2
  <2>3. CASE log' = Append(log, e) BY <2>1, <2>3
  <2>4. QED BY <1>2, <2>2, <2>3
<1>5. /\ ing' \in [Producers -> IngState]
      /\ ~At(p, "numbered")'
      /\ Busy(p)' => At(p, "stored")'
      /\ At(p, "stored")' => Busy(p)' /\ Number(p)' = e /\ e \in Range(log') /\ missed' = missed
      /\ ~At(p, "stored")' => missed' = missed \cup {e}
      /\ \A q \in Producers \ {p} :
              /\ Busy(q)' <=> Busy(q)
              /\ At(q, "numbered")' <=> At(q, "numbered")
              /\ At(q, "stored")' <=> At(q, "stored")
              /\ Number(q)' = Number(q)
  <2>1. CASE IngestTo(p, <<"stored", e>>) /\ log' = Append(log, e) /\ missed' = missed
    <3>1. <<"stored", e>> \in IngState BY <1>3 DEF IngState
    <3>2. ing'[p] = <<"stored", e>> BY <1>1, <2>1, <3>1, Goes
    <3>3. /\ ~At(p, "numbered")' /\ Busy(p)' /\ At(p, "stored")' /\ Number(p)' = e
      BY <3>2 DEF Busy, At, Number
    <3>4. QED BY <1>1, <1>4, <2>1, <3>1, <3>3, Goes
  <2>2. CASE IngestTo(p, Idle) /\ missed' = missed \cup {e}
    <3>1. Idle \in IngState BY DEF IngState
    <3>2. ing'[p] = Idle BY <1>1, <2>2, <3>1, Goes
    <3>3. /\ ~At(p, "numbered")' /\ ~Busy(p)' /\ ~At(p, "stored")' BY <3>2 DEF Busy, At, Idle
    <3>4. QED BY <1>1, <2>2, <3>1, <3>3, Goes
  <2>3. QED BY <1>2, <2>1, <2>2
<1>6. TypeOK'
  <2>1. missed' \subseteq Seqs BY <1>1, <1>3, <1>5 DEF TypeOK
  <2>2. QED BY <1>1, <1>2, <1>4, <1>5, <2>1 DEF TypeOK, IngState, client, stream
<1>7. OneProducer => (\A n \in Range(log) : n <= e) /\ \A q \in Producers : Busy(q)' => q = p
  <2>1. ASSUME OneProducer, NEW n \in Range(log) PROVE n <= e
    BY <1>1, <1>2, <2>1 DEF InNumberOrder, e
  <2>2. ASSUME OneProducer, NEW q \in Producers, Busy(q)' PROVE q = p
    BY <1>1, <1>2, <1>5, <2>2, BusyAlone
  <2>3. QED BY <2>1, <2>2
<1>8. Numbered'
  <2>1. \A n \in Range(log') : n <= seq' BY <1>1, <1>2, <1>3, <1>4 DEF Numbered
  <2>2. \A q \in Producers : Busy(q)' => q \in active' /\ Number(q)' <= seq'
    BY <1>1, <1>2, <1>3, <1>5 DEF Numbered
  <2>3. \A q \in Producers : At(q, "stored")' => Number(q)' \in Range(log')
    BY <1>1, <1>2, <1>4, <1>5 DEF Numbered
  <2>4. \A q \in Producers \ {p} : Busy(q) => Number(q) # e
    BY <1>1, <1>2 DEF Numbered, OneNumberEach, Busy, e
  <2>5. ASSUME NEW q \in Producers, At(q, "numbered")', Number(q)' \in Range(log')
        PROVE  Number(q)' \in again
    <3>1. q # p /\ Busy(q) /\ At(q, "numbered") /\ Number(q)' = Number(q)
      BY <1>1, <1>5, <2>5, IngIs
    <3>2. QED BY <1>1, <1>4, <2>4, <2>5, <3>1 DEF Numbered, OneNumberEach
  <2>6. ASSUME NEW q \in Producers, NEW r \in Producers, Busy(q)', Busy(r)', Number(q)' = Number(r)'
        PROVE  q = r
    BY <1>1, <1>5, <2>4, <2>6 DEF Numbered, OneNumberEach, Busy
  <2>7. Distinct(log', again) BY <1>1, <1>4 DEF Numbered, OneNumberEach, Distinct
  <2>8. OneNumberEach' BY <1>2, <2>5, <2>6, <2>7 DEF OneNumberEach, Busy, Distinct
  <2>9. QED BY <2>1, <2>2, <2>3, <2>8 DEF Numbered
<1>9. SentOnce'
  <2>1. Range(log) \subseteq Range(log') BY <1>4
  <2>2. \A q \in Producers : Busy(q)' => Number(q)' \notin Range(buf)
    BY <1>1, <1>3, <1>5 DEF SentOnce
  <2>3. \A n \in Range(sent) : n > maxSeq => \A q \in Producers : Busy(q)' => Number(q)' # n
    BY <1>1, <1>2, <1>5 DEF SentOnce, e
  <2>4. QED BY <1>1, <1>2, <2>1, <2>2, <2>3 DEF SentOnce, stream
<1>10. Phases' BY <1>1, <1>2 DEF Phases, stream, client
<1>11. InNumberOrder'
  <2>1. ASSUME OneProducer, NEW q \in Producers, Busy(q)', NEW n \in Range(log')
        PROVE  n <= Number(q)'
    <3>1. q = p /\ Number(q)' = e BY <1>5, <1>7, <2>1
    <3>2. n \in Range(log) \/ n = e BY <1>4, <2>1
    <3>3. e \in Nat /\ Range(log) \subseteq Nat BY <1>1, <1>3, LogIs
    <3>4. QED BY <1>7, <2>1, <3>1, <3>2, <3>3
  <2>2. OneProducer => Ascending(log') BY <1>1, <1>4, <1>7 DEF InNumberOrder
  <2>3. QED BY <1>1, <1>2, <2>1, <2>2 DEF InNumberOrder, OneProducer, stream
<1>12. ASSUME NEW n \in Range(log'), NotYetSent(n)'
       PROVE  \/ n = e /\ At(p, "stored")'
              \/ n \in Range(log) /\ NotYetSent(n)
  <2>1. n \in Range(log) \/ n = e BY <1>4, <1>12
  <2>2. n \notin missed' /\ missed \subseteq missed' BY <1>5, <1>12 DEF NotYetSent
  <2>3. n = e => At(p, "stored")' BY <1>5, <2>2
  <2>4. NotYetSent(n) BY <1>2, <1>12, <2>2 DEF NotYetSent, stream
  <2>5. QED BY <2>1, <2>3, <2>4
<1>13. LeftIsYounger'
  <2>1. ASSUME OneProducer, since > 0, NEW n \in Range(log'), NotYetSent(n)',
               NEW m \in Range(sent) \cup Range(hist)
        PROVE  m < n
    <3>1. CASE n = e
      <4>1. m \in Range(log) /\ m <= e BY <1>1, <1>7, <2>1 DEF SentOnce
      <4>2. m # e BY <1>2, <2>1, <3>1 DEF NotYetSent, stream
      <4>3. m \in Nat /\ e \in Nat BY <1>1, <1>3, <4>1, LogIs
      <4>4. QED BY <3>1, <4>1, <4>2, <4>3
    <3>2. CASE n \in Range(log) /\ NotYetSent(n) BY <1>1, <2>1, <3>2 DEF LeftIsYounger
    <3>3. QED BY <1>12, <2>1, <3>1, <3>2
  <2>2. QED BY <1>2, <2>1 DEF LeftIsYounger, OneProducer, stream
<1>14. LeftIsComing'
  <2>1. ASSUME OneProducer, since > 0, conn \in {"replaying", "live"},
               NEW n \in Range(log'), NotYetSent(n)'
        PROVE  n \in Range(buf) \/ \E q \in Producers : Busy(q)' /\ Number(q)' = n
    <3>1. CASE n = e
      <4>1. At(p, "stored")' BY <1>5, <2>1, <3>1 DEF NotYetSent
      <4>2. QED BY <1>5, <3>1, <4>1
    <3>2. CASE n # e /\ n \in Range(log) /\ NotYetSent(n)
      <4>1. n \in Range(buf) \/ \E q \in Producers : Busy(q) /\ Number(q) = n
        BY <1>1, <2>1, <3>2 DEF LeftIsComing
      <4>2. QED BY <1>5, <3>2, <4>1 DEF e
    <3>3. QED BY <1>12, <2>1, <3>1, <3>2
  <2>2. QED BY <1>2, <2>1 DEF LeftIsComing, OneProducer, stream
<1>15. QED BY <1>6, <1>8, <1>9, <1>10, <1>11, <1>13, <1>14 DEF IInv

\* To the channel, dropped by it, or not asked for.
LEMMA FanOutStep == ASSUME IInv, NEW p \in Producers, FanOut(p) PROVE IInv'
<1> DEFINE e == Number(p)
<1>1. TypeOK /\ Numbered /\ SentOnce /\ Phases /\ InNumberOrder /\ LeftIsYounger /\ LeftIsComing
  BY DEF IInv
<1>2. /\ At(p, "stored") /\ Busy(p) /\ IngestTo(p, Idle)
      /\ \/ buf' = Append(buf, e) /\ missed' = missed
         \/ buf' = buf /\ missed' = missed \cup {e}
         \/ buf' = buf /\ missed' = missed /\ ~Subscribed
      /\ UNCHANGED <<active, seq, log, again, retries, client, breaks, conn, since, hist,
                      maxSeq, sent>>
  BY DEF FanOut, Busy, At, resent
<1>3. /\ e \in Seqs /\ e \in Range(log) /\ e \notin Range(buf) /\ buf \in Seq(Seqs)
      /\ Seqs \in SUBSET Nat
  BY <1>1, <1>2, IngIs, LogIs DEF Numbered, SentOnce, TypeOK
<1> HIDE DEF e
<1>4. /\ Append(buf, e) \in Seq(Seqs) /\ Range(Append(buf, e)) = Range(buf) \cup {e}
      /\ Distinct(buf, {}) => Distinct(Append(buf, e), {})
      /\ Ascending(buf) /\ (\A n \in Range(buf) : n <= e) => Ascending(Append(buf, e))
  BY <1>3, Appended
<1>5. Idle \in IngState BY DEF IngState
<1>6. /\ ing' \in [Producers -> IngState]
      /\ ~Busy(p)' /\ ~At(p, "numbered")' /\ ~At(p, "stored")'
      /\ \A q \in Producers \ {p} :
              /\ Busy(q)' <=> Busy(q)
              /\ At(q, "numbered")' <=> At(q, "numbered")
              /\ At(q, "stored")' <=> At(q, "stored")
              /\ Number(q)' = Number(q)
  BY <1>1, <1>2, <1>5, Goes DEF Busy, At, Idle
<1>7. /\ buf' \in Seq(Seqs) /\ missed' \subseteq Seqs
      /\ missed \subseteq missed'
      /\ Range(buf) \subseteq Range(buf') /\ Range(buf') \subseteq Range(buf) \cup {e}
  BY <1>1, <1>2, <1>3, <1>4 DEF TypeOK
<1>8. TypeOK' BY <1>1, <1>2, <1>6, <1>7 DEF TypeOK, IngState, client
<1>9. Numbered'
  <2>1. OneNumberEach' BY <1>1, <1>2, <1>6 DEF Numbered, OneNumberEach, Busy
  <2>2. QED BY <1>1, <1>2, <1>6, <2>1 DEF Numbered
<1>10. SentOnce'
  <2>1. Distinct(buf', {}) BY <1>1, <1>2, <1>4 DEF SentOnce
  <2>2. \A q \in Producers : Busy(q)' => Number(q)' # e /\ Number(q)' \notin Range(buf)
    BY <1>1, <1>2, <1>6 DEF Numbered, OneNumberEach, SentOnce, Busy, e
  <2>3. \A n \in Range(sent) : n > maxSeq =>
          n \notin Range(buf') /\ \A q \in Producers : Busy(q)' => Number(q)' # n
    BY <1>1, <1>2, <1>6, <1>7 DEF SentOnce, e
  <2>4. QED BY <1>1, <1>2, <1>3, <1>7, <2>1, <2>2, <2>3 DEF SentOnce
<1>11. Phases' BY <1>1, <1>2 DEF Phases, client
<1>12. InNumberOrder'
  <2>1. ASSUME OneProducer, NEW n \in Range(log), n # e PROVE n < e
    <3>1. n \in Nat /\ e \in Nat BY <1>1, <1>3, LogIs
    <3>2. n <= e BY <1>1, <1>2, <2>1 DEF InNumberOrder, e
    <3>3. QED BY <2>1, <3>1, <3>2
  <2>2. OneProducer => \A n \in Range(buf) : n <= e
    BY <1>1, <1>2 DEF SentOnce, InNumberOrder, e
  <2>3. OneProducer => Ascending(buf') BY <1>1, <1>2, <1>4, <2>2 DEF InNumberOrder
  <2>4. ASSUME OneProducer, NEW m \in Range(sent), m > maxSeq PROVE m < e
    BY <1>1, <1>2, <2>1, <2>4 DEF SentOnce, e
  <2>5. ASSUME OneProducer, NEW m \in Range(sent), NEW n \in Range(buf'), m > maxSeq PROVE m < n
    BY <1>1, <1>7, <2>4, <2>5 DEF InNumberOrder
  <2>6. \A q \in Producers : Busy(q)' => Busy(q) /\ Number(q)' = Number(q) BY <1>6
  <2>7. QED BY <1>1, <1>2, <2>3, <2>5, <2>6 DEF InNumberOrder, OneProducer
<1>13. \A n : NotYetSent(n)' => NotYetSent(n) BY <1>2, <1>7 DEF NotYetSent
<1>14. LeftIsYounger' BY <1>1, <1>2, <1>13 DEF LeftIsYounger, OneProducer
<1>15. LeftIsComing'
  <2>1. ASSUME OneProducer, since > 0, conn \in {"replaying", "live"},
               NEW n \in Range(log), NotYetSent(n)'
        PROVE  n \in Range(buf') \/ \E q \in Producers : Busy(q)' /\ Number(q)' = n
    <3>1. n \in Range(buf) \/ \E q \in Producers : Busy(q) /\ Number(q) = n
      BY <1>1, <1>13, <2>1 DEF LeftIsComing
    <3>2. CASE n \in Range(buf) BY <1>7, <3>2
    <3>3. CASE \E q \in Producers \ {p} : Busy(q) /\ Number(q) = n BY <1>6, <3>3
    <3>4. CASE n = e
      <4>1. Subscribed BY <2>1 DEF Subscribed
      <4>2. n \notin missed' BY <2>1 DEF NotYetSent
      <4>3. buf' = Append(buf, e) BY <1>2, <3>4, <4>1, <4>2
      <4>4. QED BY <1>4, <3>4, <4>3
    <3>5. QED BY <3>1, <3>2, <3>3, <3>4 DEF e
  <2>2. QED BY <1>2, <2>1 DEF LeftIsComing, OneProducer
<1>16. QED BY <1>8, <1>9, <1>10, <1>11, <1>12, <1>14, <1>15 DEF IInv

-----------------------------------------------------------------------------
(* The steps of the page and of StreamEvents.                              *)

\* None of them is a step of Ingest.
LEMMA NumberedStays ==
  ASSUME Numbered, UNCHANGED server PROVE Numbered'
BY DEF Numbered, OneNumberEach, server, resent, Busy, At, Number

LEMMA LoadPageStep == ASSUME IInv, LoadPage PROVE IInv'
<1>1. TypeOK /\ Numbered /\ SentOnce /\ Phases /\ InNumberOrder /\ LeftIsYounger /\ LeftIsComing
  BY DEF IInv
<1>2. /\ ~page /\ page' = TRUE /\ shown' = Range(log) /\ anchor' = Max(Range(log) \cup {0})
      /\ UNCHANGED <<server, lastSeq, breaks, stream, missed>>
  BY DEF LoadPage
<1>3. Max(Range(log) \cup {0}) \in 0..MaxSeq
  <2> DEFINE S == Range(log) \cup {0}
  <2>1. S \subseteq 0..MaxSeq /\ 0..MaxSeq \subseteq Nat
    BY <1>1, LogIs, PipelineAssumption DEF Seqs
  <2>2. IsFiniteSet(0..MaxSeq) BY PipelineAssumption, FS_Interval
  <2>3. S \in SUBSET Nat /\ IsFiniteSet(S) /\ S # {} BY <2>1, <2>2, FS_Subset
  <2> HIDE DEF S
  <2>4. Max(S) \in S BY <2>3, MaxOfSome
  <2>5. QED BY <2>1, <2>4 DEF S
<1>4. TypeOK' BY <1>1, <1>2, <1>3, LogIs DEF TypeOK, server, resent, stream
<1>5. Numbered' BY <1>1, <1>2, NumberedStays
<1>6. SentOnce' BY <1>1, <1>2 DEF SentOnce, server, resent, stream, Busy, At, Number
<1>7. Phases' BY <1>1, <1>2 DEF Phases, stream
<1>8. InNumberOrder' BY <1>1, <1>2 DEF InNumberOrder, OneProducer, server, stream, Busy, At, Number
<1>9. LeftIsYounger' BY <1>1, <1>2 DEF LeftIsYounger, NotYetSent, OneProducer, server, stream
<1>10. LeftIsComing'
  BY <1>1, <1>2 DEF LeftIsComing, NotYetSent, OneProducer, server, stream, Busy, At, Number
<1>11. QED BY <1>4, <1>5, <1>6, <1>7, <1>8, <1>9, <1>10 DEF IInv

\* since is the anchor of the connection before, unless there was none.
LEMMA OpenStreamStep == ASSUME IInv, OpenStream PROVE IInv'
<1>1. TypeOK /\ Numbered /\ SentOnce /\ Phases /\ InNumberOrder /\ LeftIsYounger /\ LeftIsComing
  BY DEF IInv
<1>2. /\ page /\ conn = "closed" /\ conn' = "opening" /\ since' = anchor
      /\ UNCHANGED <<server, client, breaks, hist, buf, maxSeq, sent, missed>>
  BY DEF OpenStream
<1>3. hist = <<>> /\ (sent # <<>> => since' = since) BY <1>1, <1>2 DEF Phases
<1>4. TypeOK' BY <1>1, <1>2 DEF TypeOK, server, resent, client
<1>5. Numbered' BY <1>1, <1>2, NumberedStays
<1>6. SentOnce' BY <1>1, <1>2 DEF SentOnce, server, resent, Busy, At, Number
<1>7. Phases' BY <1>1, <1>2 DEF Phases, client
<1>8. InNumberOrder' BY <1>1, <1>2 DEF InNumberOrder, OneProducer, server, Busy, At, Number
<1>9. LeftIsYounger'
  <2>1. CASE sent = <<>>
    BY <1>2, <1>3, <2>1, EmptyIs DEF LeftIsYounger
  <2>2. CASE sent # <<>>
    BY <1>1, <1>2, <1>3, <2>2 DEF LeftIsYounger, NotYetSent, OneProducer, server
  <2>3. QED BY <2>1, <2>2
<1>10. LeftIsComing' BY <1>2 DEF LeftIsComing
<1>11. QED BY <1>4, <1>5, <1>6, <1>7, <1>8, <1>9, <1>10 DEF IInv

LEMMA SubscribeStep == ASSUME IInv, Subscribe PROVE IInv'
<1>1. TypeOK /\ Numbered /\ SentOnce /\ Phases /\ InNumberOrder BY DEF IInv
<1>2. /\ conn = "opening" /\ conn' = "subscribed"
      /\ buf' = <<>> /\ maxSeq' = 0 /\ sent' = <<>> /\ missed' = {}
      /\ UNCHANGED <<server, client, breaks, since, hist>>
  BY DEF Subscribe
<1>3. hist = <<>> /\ page /\ since = anchor BY <1>1, <1>2 DEF Phases, TypeOK
<1>4. TypeOK' BY <1>1, <1>2, PipelineAssumption DEF TypeOK, server, resent, client
<1>5. Numbered' BY <1>1, <1>2, NumberedStays
<1>6. SentOnce' BY <1>1, <1>2, <1>3, EmptyIs DEF SentOnce, server, resent
<1>7. Phases' BY <1>2, <1>3 DEF Phases, client
<1>8. InNumberOrder'
  BY <1>1, <1>2, <1>3, EmptyIs DEF InNumberOrder, OneProducer, server, Busy, At, Number
<1>9. LeftIsYounger' BY <1>2, <1>3, EmptyIs DEF LeftIsYounger
<1>10. LeftIsComing' BY <1>2 DEF LeftIsComing
<1>11. QED BY <1>4, <1>5, <1>6, <1>7, <1>8, <1>9, <1>10 DEF IInv

\* Whatever the limit cuts off is missed, so nothing in the log is left behind.
LEMMA ReadReplayStep == ASSUME IInv, ReadReplay PROVE IInv'
<1>1. TypeOK /\ Numbered /\ SentOnce /\ Phases /\ InNumberOrder BY DEF IInv
<1>2. /\ conn = "subscribed" /\ conn' = "replaying"
      /\ IF since > 0
           THEN /\ hist' = Replay(since, Limit)
                /\ missed' = missed \cup {n \in Range(log) \ Range(hist') : n > since}
           ELSE hist' = <<>> /\ UNCHANGED missed
      /\ UNCHANGED <<server, client, breaks, since, buf, maxSeq, sent>>
  BY DEF ReadReplay
<1>3. sent = <<>> /\ page BY <1>1, <1>2 DEF Phases, TypeOK
<1>4. log \in Seq(Seqs) /\ Distinct(log, again) BY <1>1 DEF TypeOK, Numbered, OneNumberEach, Distinct
<1>5. /\ hist' \in Seq(Seqs) /\ Range(hist') \subseteq Range(log) /\ Distinct(hist', again)
      /\ Ascending(log) => Ascending(hist')
  <2>1. CASE since > 0 BY <1>2, <1>4, <2>1, ReplayIsOfTheLog
  <2>2. CASE ~(since > 0)
    <3>1. hist' = <<>> BY <1>2, <2>2
    <3>2. <<>> \in Seq(Seqs) OBVIOUS
    <3>3. QED BY <3>1, <3>2, EmptyIs
  <2>3. QED BY <2>1, <2>2
<1>6. missed' \subseteq Seqs BY <1>1, <1>2, LogIs DEF TypeOK
<1>7. TypeOK' BY <1>1, <1>2, <1>5, <1>6 DEF TypeOK, server, resent, client
<1>8. Numbered' BY <1>1, <1>2, NumberedStays
<1>9. SentOnce'
  BY <1>1, <1>2, <1>3, <1>5, EmptyIs DEF SentOnce, server, resent, Busy, At, Number
<1>10. Phases' BY <1>1, <1>2, <1>3 DEF Phases, client
<1>11. InNumberOrder'
  BY <1>1, <1>2, <1>3, <1>5, EmptyIs DEF InNumberOrder, OneProducer, server, Busy, At, Number
<1>12. ASSUME since' > 0, NEW n \in Range(log)' PROVE ~NotYetSent(n)'
  BY <1>2, <1>12 DEF NotYetSent, server
<1>13. LeftIsYounger' BY <1>12 DEF LeftIsYounger
<1>14. LeftIsComing' BY <1>12 DEF LeftIsComing
<1>15. QED BY <1>7, <1>8, <1>9, <1>10, <1>11, <1>13, <1>14 DEF IInv

LEMMA Received ==
  ASSUME TypeOK, NEW n \in 0..MaxSeq + 1, NEW b \in BOOLEAN, b => n \in Seqs, Receive(n, b)
  PROVE  shown' \subseteq Seqs /\ lastSeq' \in 0..MaxSeq + 1
BY DEF TypeOK, Receive

LEMMA SendReplayStep == ASSUME IInv, SendReplay PROVE IInv'
<1> DEFINE e == Head(hist)
           r == Tail(hist)
           x == Max({maxSeq, e})
<1>1. TypeOK /\ Numbered /\ SentOnce /\ Phases /\ InNumberOrder /\ LeftIsYounger /\ LeftIsComing
  BY DEF IInv
<1>2. /\ conn = "replaying" /\ hist # <<>> /\ Receive(e, TRUE)
      /\ sent' = Append(sent, e) /\ hist' = r /\ maxSeq' = x
      /\ UNCHANGED <<server, page, anchor, breaks, conn, since, buf, missed>>
  BY DEF SendReplay
<1>3. /\ hist \in Seq(Seqs) /\ sent \in Seq(Seqs) /\ maxSeq \in 0..MaxSeq
      /\ Seqs \in SUBSET Nat /\ UNCHANGED again
  BY <1>1, <1>2, LogIs DEF TypeOK, server, resent
<1>4. /\ e \in Seqs /\ r \in Seq(Seqs) /\ Range(hist) = {e} \cup Range(r)
      /\ Distinct(hist, again) => Distinct(r, again) /\ (e \in Range(r) => e \in again)
      /\ Ascending(hist) => Ascending(r) /\ \A n \in Range(r) : e <= n
  BY <1>2, <1>3, Taken
<1>5. x \in 0..MaxSeq /\ x >= e /\ x >= maxSeq /\ (x = maxSeq \/ x = e)
  <2> HIDE DEF e
  <2>1. {maxSeq, e} \in SUBSET Nat /\ IsFiniteSet({maxSeq, e}) /\ {maxSeq, e} # {}
    <3>1. IsFiniteSet({maxSeq} \cup {e}) BY FS_Singleton, FS_AddElement
    <3>2. {maxSeq} \cup {e} = {maxSeq, e} OBVIOUS
    <3>3. maxSeq \in Nat /\ e \in Nat BY <1>3, <1>4, PipelineAssumption
    <3>4. QED BY <3>1, <3>2, <3>3
  <2>2. x \in {maxSeq, e} /\ \A n \in {maxSeq, e} : n <= x BY <2>1, MaxOfSome
  <2>3. e \in Nat /\ maxSeq \in Nat BY <1>3, <1>4
  <2> HIDE DEF x
  <2>4. QED BY <1>3, <1>4, <2>2, <2>3, PipelineAssumption DEF Seqs
<1> HIDE DEF e, r, x
<1>6. (e \in Range(sent) => e \in again) /\ e \in Range(log) BY <1>1, <1>4 DEF SentOnce
<1>7. /\ sent' \in Seq(Seqs) /\ Range(sent') = Range(sent) \cup {e}
      /\ Distinct(sent', again)
      /\ Ascending(sent) /\ (\A n \in Range(sent) : n <= e) => Ascending(sent')
  BY <1>1, <1>2, <1>3, <1>4, <1>6, Appended DEF SentOnce
<1>8. /\ Range(hist') \subseteq Range(hist) /\ (e \in Range(hist') => e \in again)
      /\ Range(sent') \cup Range(hist') = Range(sent) \cup Range(hist)
  BY <1>1, <1>2, <1>4, <1>7 DEF SentOnce
<1>9. \A n \in Range(sent') : n > maxSeq' => n \in Range(sent) /\ n > maxSeq
  <2>1. ASSUME NEW n \in Range(sent'), n > maxSeq' PROVE n \in Range(sent) /\ n > maxSeq
    <3>1. n \in Nat /\ e \in Nat BY <1>3, <1>4, <1>7, <2>1, RangeIs
    <3>2. x \in Nat /\ maxSeq \in Nat BY <1>3, <1>5
    <3>3. n # e /\ n > maxSeq BY <1>2, <1>5, <2>1, <3>1, <3>2
    <3>4. QED BY <1>7, <2>1, <3>3
  <2>2. QED BY <2>1
<1>10. TypeOK'
  <2>1. e \in 0..MaxSeq + 1 BY <1>4, PipelineAssumption DEF Seqs
  <2>2. shown' \subseteq Seqs /\ lastSeq' \in 0..MaxSeq + 1 BY <1>1, <1>2, <1>4, <2>1, Received
  <2>3. QED BY <1>1, <1>2, <1>4, <1>5, <1>7, <2>2 DEF TypeOK, server, resent
<1>11. Numbered' BY <1>1, <1>2, NumberedStays
<1>12. SentOnce'
  <2>1. /\ Range(log)' = Range(log) /\ Range(buf)' = Range(buf)
        /\ \A p \in Producers : (Busy(p)' <=> Busy(p)) /\ Number(p)' = Number(p)
    BY <1>2 DEF server, Busy, At, Number
  <2>2. Range(hist') \cup Range(buf') \cup Range(sent') \subseteq Range(log')
    BY <1>1, <1>6, <1>7, <1>8, <2>1 DEF SentOnce
  <2>3. Range(hist') \cap Range(sent') \subseteq again BY <1>1, <1>7, <1>8 DEF SentOnce
  <2>4. Distinct(hist', again) /\ Distinct(buf', {}) BY <1>1, <1>2, <1>4 DEF SentOnce
  <2>5. QED BY <1>1, <1>3, <1>7, <1>9, <2>1, <2>2, <2>3, <2>4 DEF SentOnce
<1>13. Phases'
  <2>1. maxSeq' = 0 \/ maxSeq' \in Range(sent') BY <1>1, <1>2, <1>5, <1>7 DEF Phases
  <2>2. page BY <1>1, <1>2 DEF Phases
  <2>3. since = anchor BY <1>1, <1>2 DEF Phases
  <2>4. QED BY <1>1, <1>2, <2>1, <2>2, <2>3 DEF Phases
<1>14. InNumberOrder'
  <2>1. ASSUME OneProducer
        PROVE  Ascending(hist') /\ Ascending(sent')
               /\ \A m \in Range(sent'), n \in Range(hist') : m <= n
    <3>1. Ascending(hist) /\ \A m \in Range(sent), n \in Range(hist) : m <= n
      BY <1>1, <2>1 DEF InNumberOrder
    <3>2. Ascending(hist') /\ \A n \in Range(hist') : e <= n BY <1>2, <1>4, <3>1
    <3>3. Ascending(sent') BY <1>1, <1>4, <1>7, <2>1, <3>1 DEF InNumberOrder
    <3>4. QED BY <1>7, <1>8, <3>1, <3>2, <3>3
  <2>2. QED
    BY <1>1, <1>2, <1>9, <2>1 DEF InNumberOrder, OneProducer, server, Busy, At, Number
<1>15. \A n : NotYetSent(n)' <=> NotYetSent(n) BY <1>2, <1>8 DEF NotYetSent
<1>16. LeftIsYounger'
  BY <1>1, <1>2, <1>8, <1>15 DEF LeftIsYounger, OneProducer, server
<1>17. LeftIsComing'
  BY <1>1, <1>2, <1>15 DEF LeftIsComing, OneProducer, server, Busy, At, Number
<1>18. QED BY <1>10, <1>11, <1>12, <1>13, <1>14, <1>16, <1>17 DEF IInv

LEMMA SendStatusStep == ASSUME IInv, SendStatus PROVE IInv'
<1>1. TypeOK /\ Numbered /\ SentOnce /\ Phases /\ InNumberOrder /\ LeftIsYounger /\ LeftIsComing
  BY DEF IInv
<1>2. /\ conn = "replaying" /\ hist = <<>> /\ Receive(maxSeq + 1, FALSE) /\ conn' = "live"
      /\ UNCHANGED <<server, page, anchor, breaks, since, hist, buf, maxSeq, sent, missed>>
  BY DEF SendStatus
<1>3. maxSeq + 1 \in 0..MaxSeq + 1 BY <1>1, PipelineAssumption DEF TypeOK
<1>4. shown' \subseteq Seqs /\ lastSeq' \in 0..MaxSeq + 1 BY <1>1, <1>2, <1>3, Received
<1>5. TypeOK' BY <1>1, <1>2, <1>4 DEF TypeOK, server, resent
<1>6. Numbered' BY <1>1, <1>2, NumberedStays
<1>7. SentOnce' BY <1>1, <1>2 DEF SentOnce, server, resent, Busy, At, Number
<1>8. Phases' BY <1>1, <1>2 DEF Phases
<1>9. InNumberOrder' BY <1>1, <1>2 DEF InNumberOrder, OneProducer, server, Busy, At, Number
<1>10. LeftIsYounger' BY <1>1, <1>2 DEF LeftIsYounger, NotYetSent, OneProducer, server
<1>11. LeftIsComing'
  BY <1>1, <1>2 DEF LeftIsComing, NotYetSent, OneProducer, server, Busy, At, Number
<1>12. QED BY <1>5, <1>6, <1>7, <1>8, <1>9, <1>10, <1>11 DEF IInv

\* What the live loop skips has been sent; what it sends has not.
LEMMA ForwardStep == ASSUME IInv, Forward PROVE IInv'
<1> DEFINE e == Head(buf)
           r == Tail(buf)
<1>1. TypeOK /\ Numbered /\ SentOnce /\ Phases /\ InNumberOrder /\ LeftIsYounger /\ LeftIsComing
  BY DEF IInv
<1>2. /\ conn = "live" /\ buf # <<>> /\ buf' = r
      /\ \/ e <= maxSeq /\ UNCHANGED <<sent, shown, lastSeq>>
         \/ ~(e <= maxSeq) /\ sent' = Append(sent, e) /\ Receive(e, TRUE)
      /\ UNCHANGED <<server, page, anchor, breaks, conn, since, hist, maxSeq, missed>>
  BY DEF Forward
<1>3. /\ buf \in Seq(Seqs) /\ sent \in Seq(Seqs) /\ maxSeq \in Nat /\ Seqs \in SUBSET Nat
      /\ hist = <<>> /\ Range(hist) = {} /\ page /\ since = anchor /\ UNCHANGED again
  BY <1>1, <1>2, LogIs, EmptyIs DEF TypeOK, Phases, server, resent
<1>4. /\ e \in Seqs /\ r \in Seq(Seqs) /\ Range(buf) = {e} \cup Range(r)
      /\ Distinct(buf, {}) => Distinct(r, {}) /\ e \notin Range(r)
      /\ Ascending(buf) => Ascending(r) /\ \A n \in Range(r) : e <= n
  BY <1>2, <1>3, Taken
<1> HIDE DEF e, r
<1>5. e \in Range(log) /\ e \in Nat /\ (e > maxSeq => e \notin Range(sent))
  BY <1>1, <1>3, <1>4 DEF SentOnce
<1>6. e > maxSeq =>
        /\ Append(sent, e) \in Seq(Seqs) /\ Range(Append(sent, e)) = Range(sent) \cup {e}
        /\ Distinct(Append(sent, e), again)
        /\ Ascending(sent) /\ (\A n \in Range(sent) : n <= e) => Ascending(Append(sent, e))
  BY <1>1, <1>3, <1>4, <1>5, Appended DEF SentOnce
<1>7. \/ e <= maxSeq /\ ~(e > maxSeq) /\ sent' = sent
      \/ e > maxSeq /\ sent' = Append(sent, e)
  <2>1. CASE e <= maxSeq /\ sent' = sent BY <1>3, <1>5, <2>1
  <2>2. CASE ~(e <= maxSeq) /\ sent' = Append(sent, e) BY <1>3, <1>5, <2>2
  <2>3. QED BY <1>2, <2>1, <2>2
<1>8. /\ sent' \in Seq(Seqs) /\ Distinct(sent', again) /\ Range(sent) \subseteq Range(sent')
      /\ Range(sent') \subseteq Range(sent) \cup {e}
      /\ e > maxSeq => e \in Range(sent')
      /\ Range(buf') = Range(r) /\ Range(buf') \subseteq Range(buf)
  <2>1. Range(buf') = Range(r) /\ Range(buf') \subseteq Range(buf) BY <1>2, <1>4
  <2>2. CASE ~(e > maxSeq) /\ sent' = sent BY <1>1, <1>3, <2>1, <2>2 DEF SentOnce
  <2>3. CASE e > maxSeq /\ sent' = Append(sent, e) BY <1>6, <2>1, <2>3
  <2>4. QED BY <1>7, <2>2, <2>3
<1>9. TypeOK'
  <2>1. e \in 0..MaxSeq + 1 BY <1>4, PipelineAssumption DEF Seqs
  <2>2. shown' \subseteq Seqs /\ lastSeq' \in 0..MaxSeq + 1
    <3>1. CASE UNCHANGED <<shown, lastSeq>> BY <1>1, <3>1 DEF TypeOK
    <3>2. CASE Receive(e, TRUE) BY <1>1, <1>4, <2>1, <3>2, Received
    <3>3. QED BY <1>2, <3>1, <3>2
  <2>3. QED BY <1>1, <1>2, <1>4, <1>8, <2>2 DEF TypeOK, server, resent
<1>10. Numbered' BY <1>1, <1>2, NumberedStays
<1>11. /\ Range(log)' = Range(log) /\ Range(hist)' = {}
       /\ \A p \in Producers : /\ Busy(p)' <=> Busy(p)
                               /\ At(p, "stored")' <=> At(p, "stored")
                               /\ Number(p)' = Number(p)
  BY <1>2, <1>3 DEF server, Busy, At, Number
<1>12. SentOnce'
  <2>1. Range(hist)' \cup Range(buf') \cup Range(sent') \subseteq Range(log)'
    BY <1>1, <1>5, <1>8, <1>11 DEF SentOnce
  <2>2. Distinct(hist', again) /\ Distinct(buf', {}) BY <1>1, <1>2, <1>4 DEF SentOnce
  <2>3. e \notin Range(buf') /\ \A p \in Producers : Busy(p) => Number(p) # e
    BY <1>1, <1>4, <1>8 DEF SentOnce
  <2>4. \A p \in Producers : Busy(p)' => Number(p)' \notin Range(buf')
    BY <1>1, <1>8, <1>11 DEF SentOnce
  <2>5. \A n \in Range(sent') : n > maxSeq' =>
          n \notin Range(buf') /\ \A p \in Producers : Busy(p)' => Number(p)' # n
    BY <1>1, <1>2, <1>8, <1>11, <2>3 DEF SentOnce
  <2>6. QED BY <1>3, <1>8, <1>11, <2>1, <2>2, <2>4, <2>5 DEF SentOnce
<1>13. Phases' BY <1>1, <1>2, <1>3, <1>8 DEF Phases
<1>14. ASSUME OneProducer, e > maxSeq, NEW m \in Range(sent) PROVE m <= e
  <2>1. m \in Nat BY <1>3, RangeIs
  <2>2. CASE m <= maxSeq BY <1>3, <1>5, <1>14, <2>1, <2>2
  <2>3. CASE m > maxSeq
    <3>1. m < e BY <1>1, <1>4, <1>14, <2>3 DEF InNumberOrder
    <3>2. QED BY <1>5, <2>1, <3>1
  <2>4. QED BY <1>3, <2>1, <2>2, <2>3
<1>15. InNumberOrder'
  <2>1. ASSUME OneProducer PROVE Ascending(hist') /\ Ascending(buf') /\ Ascending(sent')
    BY <1>1, <1>2, <1>4, <1>6, <1>7, <1>14, <2>1 DEF InNumberOrder
  <2>2. ASSUME OneProducer, NEW m \in Range(sent'), NEW n \in Range(buf'), m > maxSeq PROVE m < n
    <3>1. Ascending(buf) BY <1>1, <2>2 DEF InNumberOrder
    <3>2. CASE m = e
      <4>1. e <= n /\ n \in Nat BY <1>3, <1>4, <1>8, <2>2, <3>1, RangeIs
      <4>2. n # e BY <1>1, <1>4, <1>8, <2>2 DEF SentOnce
      <4>3. QED BY <1>5, <3>2, <4>1, <4>2
    <3>3. CASE m \in Range(sent) BY <1>1, <1>8, <2>2, <3>3 DEF InNumberOrder
    <3>4. QED BY <1>8, <2>2, <3>2, <3>3
  <2>3. QED BY <1>1, <1>2, <1>11, <2>1, <2>2 DEF InNumberOrder, OneProducer, server
<1>16. \A n : NotYetSent(n)' => NotYetSent(n) /\ n \notin Range(sent')
  BY <1>2, <1>3, <1>8, <1>11 DEF NotYetSent
<1>17. ASSUME OneProducer, since > 0, NEW n \in Range(log), NotYetSent(n)'
       PROVE  /\ \A m \in Range(sent) : m < n
              /\ n # e /\ (e > maxSeq => e < n)
              /\ n \in Range(buf') \/ \E p \in Producers : Busy(p) /\ Number(p) = n
  <2>1. NotYetSent(n) /\ n \notin Range(sent') BY <1>16, <1>17
  <2>2. \A m \in Range(sent) : m < n BY <1>1, <1>17, <2>1 DEF LeftIsYounger
  <2>3. n \in Range(buf) \/ \E p \in Producers : Busy(p) /\ Number(p) = n
    BY <1>1, <1>2, <1>17, <2>1 DEF LeftIsComing
  <2>4. n \in Nat /\ n # 0 BY <1>1, LogIs DEF Seqs
  <2>5. n # e
    <3>1. CASE e > maxSeq BY <1>8, <2>1, <3>1
    <3>2. CASE e <= maxSeq
      <4>1. maxSeq # 0 \/ e = 0 BY <1>3, <1>5, <3>2
      <4>2. e = n => maxSeq < n BY <1>1, <2>2, <2>4, <4>1 DEF Phases
      <4>3. QED BY <1>3, <1>5, <2>4, <3>2, <4>2
    <3>3. QED BY <1>3, <1>5, <3>1, <3>2
  <2>6. n \in Range(buf') \/ \E p \in Producers : Busy(p) /\ Number(p) = n
    BY <1>4, <1>8, <2>3, <2>5
  <2>7. e < n
    <3>1. CASE n \in Range(buf')
      <4>1. e <= n BY <1>1, <1>4, <1>8, <1>17, <3>1 DEF InNumberOrder
      <4>2. QED BY <1>5, <2>4, <2>5, <4>1
    <3>2. ASSUME NEW p \in Producers, Busy(p), Number(p) = n PROVE e < n
      <4>1. e <= n BY <1>1, <1>5, <1>17, <3>2 DEF InNumberOrder
      <4>2. QED BY <1>5, <2>4, <2>5, <4>1
    <3>3. QED BY <2>6, <3>1, <3>2
  <2>8. QED BY <2>2, <2>5, <2>6, <2>7
<1>18. LeftIsYounger'
  <2>1. ASSUME OneProducer, since > 0, NEW n \in Range(log), NotYetSent(n)',
               NEW m \in Range(sent')
        PROVE  m < n
    <3>1. CASE m \in Range(sent) BY <1>17, <2>1, <3>1
    <3>2. CASE m = e /\ m \notin Range(sent) BY <1>7, <1>17, <2>1, <3>2
    <3>3. QED BY <1>8, <2>1, <3>1, <3>2
  <2>2. QED BY <1>2, <1>11, <2>1 DEF LeftIsYounger, OneProducer, server
<1>19. LeftIsComing'
  BY <1>2, <1>11, <1>17 DEF LeftIsComing, OneProducer, server
<1>20. QED BY <1>9, <1>10, <1>12, <1>13, <1>15, <1>18, <1>19 DEF IInv

\* What was still to be replayed is younger than what was sent.
LEMMA BreakStep == ASSUME IInv, Break PROVE IInv'
<1>1. TypeOK /\ Numbered /\ SentOnce /\ Phases /\ InNumberOrder /\ LeftIsYounger BY DEF IInv
<1>2. /\ conn # "closed" /\ breaks > 0 /\ conn' = "closed" /\ breaks' = breaks - 1
      /\ hist' = <<>> /\ buf' = <<>>
      /\ UNCHANGED <<server, client, since, maxSeq, sent, missed>>
  BY DEF Break
<1>3. TypeOK' BY <1>1, <1>2 DEF TypeOK, server, resent, client
<1>4. Numbered' BY <1>1, <1>2, NumberedStays
<1>5. SentOnce' BY <1>1, <1>2, EmptyIs DEF SentOnce, server, resent, Busy, At, Number
<1>6. Phases' BY <1>1, <1>2 DEF Phases, client
<1>7. InNumberOrder'
  BY <1>1, <1>2, EmptyIs DEF InNumberOrder, OneProducer, server, Busy, At, Number
<1>8. LeftIsYounger'
  <2>1. ASSUME OneProducer, since > 0, NEW n \in Range(log), NotYetSent(n)', NEW m \in Range(sent)
        PROVE  m < n
    <3>1. CASE n \in Range(hist)
      <4>1. m <= n /\ n \notin Range(sent) BY <1>1, <1>2, <2>1, <3>1 DEF InNumberOrder, NotYetSent
      <4>2. m \in Nat /\ n \in Nat BY <1>1, <2>1, LogIs
      <4>3. QED BY <2>1, <4>1, <4>2
    <3>2. CASE n \notin Range(hist)
      <4>1. NotYetSent(n) BY <1>2, <2>1, <3>2 DEF NotYetSent
      <4>2. QED BY <1>1, <2>1, <4>1 DEF LeftIsYounger
    <3>3. QED BY <3>1, <3>2
  <2>2. QED BY <1>2, <2>1, EmptyIs DEF LeftIsYounger, OneProducer, server
<1>9. LeftIsComing' BY <1>2 DEF LeftIsComing
<1>10. QED BY <1>3, <1>4, <1>5, <1>6, <1>7, <1>8, <1>9 DEF IInv

-----------------------------------------------------------------------------
(* Every step, and the theorems.                                           *)

LEMMA Starts == ASSUME Init PROVE IInv
<1>1. PICK b \in Scenarios : active = b.active /\ breaks = b.breaks /\ retries = b.retries
  BY DEF Init
<1>2. active \subseteq Producers /\ breaks \in Nat /\ retries \in Nat BY <1>1, PipelineAssumption
<1>3. /\ <<>> \in Seq(Seqs) /\ \A p \in Producers : ing[p] = Idle BY DEF Init
<1>4. \A p \in Producers : ~Busy(p) /\ ~At(p, "stored") /\ ~At(p, "numbered")
  BY <1>3 DEF Busy, At, Idle
<1>5. TypeOK
  <2>1. ing \in [Producers -> ({"numbered", "stored"} \X Seqs) \cup {Idle}] BY DEF Init
  <2>2. /\ seq \in 0..MaxSeq /\ anchor \in 0..MaxSeq /\ since \in 0..MaxSeq
        /\ maxSeq \in 0..MaxSeq /\ lastSeq \in 0..MaxSeq + 1
    BY PipelineAssumption DEF Init
  <2>3. QED BY <1>2, <1>3, <2>1, <2>2 DEF Init, TypeOK
<1>6. Numbered
  <2>1. OneNumberEach BY <1>4 DEF OneNumberEach, Init, Busy
  <2>2. QED BY <1>4, <2>1, EmptyIs DEF Numbered, Init
<1>7. SentOnce BY <1>4, EmptyIs DEF SentOnce, Init
<1>8. Phases BY DEF Phases, Init
<1>9. InNumberOrder BY <1>4, EmptyIs DEF InNumberOrder, Init
<1>10. LeftIsYounger /\ LeftIsComing BY EmptyIs DEF LeftIsYounger, LeftIsComing, Init
<1>11. QED BY <1>5, <1>6, <1>7, <1>8, <1>9, <1>10 DEF IInv

LEMMA Stutters == ASSUME IInv, UNCHANGED vars PROVE IInv'
<1> USE DEF vars, server, resent, client, stream, IInv
<1>1. TypeOK' BY DEF TypeOK
<1>2. Numbered' BY NumberedStays
<1>3. SentOnce' BY DEF SentOnce, Busy, At, Number
<1>4. Phases' BY DEF Phases
<1>5. InNumberOrder' BY DEF InNumberOrder, OneProducer, Busy, At, Number
<1>6. LeftIsYounger' BY DEF LeftIsYounger, NotYetSent, OneProducer
<1>7. LeftIsComing' BY DEF LeftIsComing, NotYetSent, OneProducer, Busy, At, Number
<1>8. QED BY <1>1, <1>2, <1>3, <1>4, <1>5, <1>6, <1>7

LEMMA Steps == ASSUME IInv, [Next]_vars PROVE IInv'
<1>1. ASSUME NEW p \in Producers, IngestStep(p) PROVE IInv'
  BY <1>1, IncrStep, IncrLostStep, StoreStep, StoreLostStep, FanOutStep DEF IngestStep
<1>2. CASE LoadPage BY <1>2, LoadPageStep
<1>3. CASE StreamStep
  BY <1>3, OpenStreamStep, SubscribeStep, ReadReplayStep, SendReplayStep, SendStatusStep, ForwardStep
     DEF StreamStep
<1>4. CASE Break BY <1>4, BreakStep
<1>5. CASE UNCHANGED vars BY <1>5, Stutters
<1>6. QED BY <1>1, <1>2, <1>3, <1>4, <1>5 DEF Next

LEMMA Inductive == Spec => []IInv
<1>1. Init => IInv BY Starts
<1>2. IInv /\ [Next]_vars => IInv' BY Steps
<1>3. QED BY <1>1, <1>2, PTL DEF Spec

\* The state of the pipeline is what Redis, the server and the page can hold.
THEOREM PipelineTypes == Spec => []TypeOK
<1>1. IInv => TypeOK BY DEF IInv
<1>2. QED BY <1>1, Inductive, PTL

\* Any number of producers interleave INCR, XADD and fan-out, with replies that are
\* lost and writes that fail after Redis executed them: no number is handed out twice,
\* and none is stored twice but by an XADD the Redis client sent again.
THEOREM NumbersAreUnique == Spec => []OneNumberEach
<1>1. IInv => OneNumberEach BY DEF IInv, Numbered
<1>2. QED BY <1>1, Inductive, PTL

\* Subscribing before the replay sends no stored event twice on a connection (an event
\* is sent twice only if it was stored twice), and one producer's events in order.
THEOREM EventsAreSentInOrder == Spec => []SentInOrder
<1>1. IInv => SentInOrder
  BY DEF IInv, SentOnce, InNumberOrder, Distinct, Ascending, SentInOrder
<1>2. QED BY <1>1, Inductive, PTL

\* And it leaves none out, but for those that the full channel, a failed write or the
\* limit has taken: a younger one is never sent before an older one.
THEOREM NothingIsLeftOut == Spec => []NoGap
<1>1. ASSUME IInv, OneProducer, since > 0, NEW n \in Range(log) \ missed,
             n > since, NEW m \in Range(sent), n < m
      PROVE  n \in Range(sent)
  <2>1. n \in Nat /\ m \in Nat BY <1>1, LogIs DEF IInv
  <2>2. CASE n \in Range(hist) /\ n \notin Range(sent)
    <3>1. m <= n BY <1>1, <2>2 DEF IInv, InNumberOrder
    <3>2. QED BY <1>1, <2>1, <3>1
  <2>3. CASE n \notin Range(hist) /\ n \notin Range(sent)
    <3>1. NotYetSent(n) BY <1>1, <2>3 DEF NotYetSent
    <3>2. m < n BY <1>1, <3>1 DEF IInv, LeftIsYounger
    <3>3. QED BY <1>1, <2>1, <3>2
  <2>4. QED BY <2>2, <2>3
<1>2. IInv => NoGap BY <1>1 DEF NoGap
<1>3. QED BY <1>2, Inductive, PTL
=============================================================================
