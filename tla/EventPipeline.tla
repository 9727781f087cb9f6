--------------------------- MODULE EventPipeline ---------------------------
(***************************************************************************)
(* The event pipeline of one task: the producers that Ingest events (the   *)
(* PushEvents stream of a runtime, and the handlers that synthesize        *)
(* events), the Redis stream they persist to, StreamEvents with its        *)
(* subscription, replay and live loop, and the web page that shows them.   *)
(*                                                                         *)
(* An event is its sequence number.  Ingest is three steps, INCR, XADD and *)
(* fan-out, and two producers interleave between them.  A page loads the   *)
(* history once and then holds one connection at a time, which may break   *)
(* anywhere and is opened again by the browser.  Which producers are at    *)
(* work, how often connections break and how many replies of Redis are     *)
(* lost is chosen in the first state.                                      *)
(***************************************************************************)
EXTENDS Naturals, Sequences, FiniteSetsExt, Functions

CONSTANTS
  Producers,   \* goroutines that may ingest events of the task
  Scenarios,   \* records [active : producers at work, breaks : breaks to come,
               \*          retries : replies to be lost]
  MaxSeq,      \* bound of the model: events ingested
  BufCap,      \* capacity of a subscriber's channel (256)
  Limit        \* StreamEvents' replay limit (5000)

ASSUME PipelineAssumption ==
  /\ MaxSeq \in Nat /\ IsFiniteSet(Producers)
  /\ Scenarios \subseteq [active : SUBSET Producers, breaks : Nat, retries : Nat]
  /\ BufCap \in Nat \ {0} /\ Limit \in Nat \ {0}

VARIABLES
  active,    \* the producers of this behaviour: never changes
  seq,       \* seq:task:<id>
  log,       \* stream:task:<id>: sequence numbers in XADD order
  ing,       \* per producer, how far Ingest is: <<step, its number>>
  again,     \* numbers whose XADD the Redis client has sent again
  retries,   \* bound of the model: replies of Redis that may still be lost
  page,      \* the page has loaded its history
  anchor,    \* histSeqRef: the last_seq of GetMessages
  shown,     \* events the page has: its history and what it applied
  lastSeq,   \* the page's dedup cursor
  breaks,    \* bound of the model: connections that may still break
  conn,      \* state of the page's connection
  since,     \* since_seq of the request
  hist,      \* replayed events still to be sent
  buf,       \* the subscription's channel
  maxSeq,    \* StreamEvents' maxSeq
  sent,      \* events StreamEvents has sent on this connection
  missed     \* events this subscription will not get

resent == <<again, retries>>
server == <<active, seq, log, ing, resent>>
client == <<page, anchor, shown, lastSeq>>
stream == <<conn, since, hist, buf, maxSeq, sent>>
vars   == <<active, seq, log, ing, again, retries, page, anchor, shown, lastSeq,
            breaks, conn, since, hist, buf, maxSeq, sent, missed>>

Seqs == 1..MaxSeq
Idle == <<"idle", 0>>

TypeOK ==
  /\ active \subseteq Producers
  /\ seq \in 0..MaxSeq
  /\ log \in Seq(Seqs)
  /\ ing \in [Producers -> ({"numbered", "stored"} \X Seqs) \cup {Idle}]
  /\ again \subseteq Seqs /\ retries \in Nat
  /\ page \in BOOLEAN
  /\ anchor \in 0..MaxSeq
  /\ shown \subseteq Seqs
  /\ lastSeq \in 0..MaxSeq + 1
  /\ breaks \in Nat
  /\ conn \in {"closed", "opening", "subscribed", "replaying", "live"}
  /\ since \in 0..MaxSeq
  /\ hist \in Seq(Seqs) /\ buf \in Seq(Seqs) /\ sent \in Seq(Seqs)
  /\ maxSeq \in 0..MaxSeq
  /\ missed \subseteq Seqs

Init ==
  /\ \E s \in Scenarios : active = s.active /\ breaks = s.breaks /\ retries = s.retries
  /\ seq = 0 /\ log = <<>> /\ ing = [p \in Producers |-> Idle] /\ again = {}
  /\ page = FALSE /\ anchor = 0 /\ shown = {} /\ lastSeq = 0
  /\ conn = "closed" /\ since = 0 /\ hist = <<>> /\ buf = <<>>
  /\ maxSeq = 0 /\ sent = <<>> /\ missed = {}

-----------------------------------------------------------------------------
(* Pipeline.                                                               *)

\* Mutant: StreamEvents replays first and subscribes afterwards.
SubscribedLast == conn = "live"

Subscribed == conn \in {"subscribed", "replaying", "live"}
At(p, s)   == ing[p][1] = s
Number(p)  == ing[p][2]
IngestTo(p, s) == ing' = [ing EXCEPT ![p] = s]

\* Mutant: the number is the one before INCR.
IncrOffByOne(p) ==
  /\ p \in active /\ At(p, "idle") /\ seq < MaxSeq
  /\ seq' = seq + 1
  /\ IngestTo(p, <<"numbered", seq>>)
  /\ UNCHANGED <<active, log, resent, client, breaks, stream, missed>>

\* Mutant: the number comes from the length of the stream (XLEN), not from INCR.
NumberFromLength(p) ==
  /\ p \in active /\ At(p, "idle") /\ seq < MaxSeq
  /\ seq' = seq + 1
  /\ IngestTo(p, <<"numbered", Len(log) + 1>>)
  /\ UNCHANGED <<active, log, resent, client, breaks, stream, missed>>

\* INCR
Incr(p) ==
  /\ p \in active /\ At(p, "idle") /\ seq < MaxSeq
  /\ seq' = seq + 1
  /\ IngestTo(p, <<"numbered", seq + 1>>)
  /\ UNCHANGED <<active, log, resent, client, breaks, stream, missed>>

\* INCR is executed and its reply is lost: the client sends it again (Incr), or
\* gives up and Ingest fails.  Either way a number is skipped.
IncrLost(p) ==
  /\ p \in active /\ At(p, "idle") /\ seq < MaxSeq /\ retries > 0
  /\ seq' = seq + 1 /\ retries' = retries - 1
  /\ UNCHANGED <<active, log, ing, again, client, breaks, stream, missed>>

\* XADD
Store(p) ==
  /\ At(p, "numbered")
  /\ log' = Append(log, Number(p))
  /\ IngestTo(p, <<"stored", Number(p)>>)
  /\ UNCHANGED <<active, seq, resent, client, breaks, stream, missed>>

\* The XADD is executed and its reply is lost: the client sends the pipeline again,
\* and what is stored is stored once more by Store or StoreFails.
StoreLost(p) ==
  /\ At(p, "numbered") /\ retries > 0
  /\ log' = Append(log, Number(p))
  /\ again' = again \cup {Number(p)} /\ retries' = retries - 1
  /\ UNCHANGED <<active, seq, ing, client, breaks, stream, missed>>

\* The pipelined commands fail for good: Ingest returns before the fan-out, whether
\* or not Redis had executed the XADD.
StoreFails(p) ==
  /\ At(p, "numbered")
  /\ log' \in {log, Append(log, Number(p))}
  /\ IngestTo(p, Idle)
  /\ missed' = missed \cup {Number(p)}
  /\ UNCHANGED <<active, seq, resent, client, breaks, stream>>

\* Under the pipeline's mutex: to the channel, unless it is full.
FanOut(p) ==
  /\ At(p, "stored")
  /\ IF Subscribed /\ Len(buf) < BufCap
       THEN buf' = Append(buf, Number(p)) /\ UNCHANGED missed
       ELSE UNCHANGED buf /\ missed' = IF Subscribed THEN missed \cup {Number(p)} ELSE missed
  /\ IngestTo(p, Idle)
  /\ UNCHANGED <<active, seq, log, resent, client, breaks, conn, since, hist, maxSeq, sent>>

\* The positions in S, the first one first.
InOrder(S) == CHOOSE at \in [1..Cardinality(S) -> S] :
                \A j, k \in 1..Cardinality(S) : j < k => at[j] < at[k]

\* The last n positions in S.
LastOf(S, n) == {i \in S : Cardinality({j \in S : i < j}) < n}

\* Replay(since, limit)
Replay(from, n) ==
  LET at == InOrder(LastOf({i \in 1..Len(log) : log[i] > from}, n))
  IN  [k \in DOMAIN at |-> log[at[k]]]

-----------------------------------------------------------------------------
(* The page.                                                               *)

\* GetMessages: history, and the largest number in it as the anchor.
LoadPage ==
  /\ ~page
  /\ page' = TRUE
  /\ shown' = Range(log)
  /\ anchor' = Max(Range(log) \cup {0})
  /\ UNCHANGED <<server, lastSeq, breaks, stream, missed>>

\* onmessage: what is not newer than the cursor is a duplicate.
Receive(n, isEvent) ==
  IF n <= lastSeq
    THEN UNCHANGED <<shown, lastSeq>>
    ELSE /\ lastSeq' = n
         /\ shown' = IF isEvent THEN shown \cup {n} ELSE shown

-----------------------------------------------------------------------------
(* StreamEvents, by way of the gateway.                                    *)

\* Mutant: the browser resumes after the last id it saw.
ResumeAtCursor ==
  /\ page /\ conn = "closed"
  /\ conn' = "opening"
  /\ since' = IF lastSeq > 0 THEN lastSeq ELSE anchor
  /\ UNCHANGED <<server, client, breaks, hist, buf, maxSeq, sent, missed>>

\* The URL's since parameter is the anchor, and it overrides the
\* Last-Event-ID header on every reconnect.
OpenStream ==
  /\ page /\ conn = "closed"
  /\ conn' = "opening"
  /\ since' = anchor
  /\ UNCHANGED <<server, client, breaks, hist, buf, maxSeq, sent, missed>>

Subscribe ==
  /\ conn = "opening"
  /\ conn' = "subscribed"
  /\ buf' = <<>> /\ maxSeq' = 0 /\ sent' = <<>> /\ missed' = {}
  /\ UNCHANGED <<server, client, breaks, since, hist>>

\* Without a since_seq nothing is replayed.
ReadReplay ==
  /\ conn = "subscribed"
  /\ conn' = "replaying"
  /\ IF since > 0
       THEN /\ hist' = Replay(since, Limit)
            /\ missed' = missed \cup {n \in Range(log) \ Range(hist') : n > since}
       ELSE hist' = <<>> /\ UNCHANGED missed
  /\ UNCHANGED <<server, client, breaks, since, buf, maxSeq, sent>>

SendReplay ==
  /\ conn = "replaying" /\ hist # <<>>
  /\ sent' = Append(sent, Head(hist))
  /\ Receive(Head(hist), TRUE)
  /\ maxSeq' = Max({maxSeq, Head(hist)})
  /\ hist' = Tail(hist)
  /\ UNCHANGED <<server, page, anchor, breaks, conn, since, buf, missed>>

\* The synthetic task_status takes the number after the replay.
SendStatus ==
  /\ conn = "replaying" /\ hist = <<>>
  /\ Receive(maxSeq + 1, FALSE)
  /\ conn' = "live"
  /\ UNCHANGED <<server, page, anchor, breaks, since, hist, buf, maxSeq, sent, missed>>

\* Mutant: the live loop does not skip what was replayed.
ForwardAll ==
  /\ conn = "live" /\ buf # <<>>
  /\ sent' = Append(sent, Head(buf)) /\ Receive(Head(buf), TRUE)
  /\ buf' = Tail(buf)
  /\ UNCHANGED <<server, page, anchor, breaks, conn, since, hist, maxSeq, missed>>

Forward ==
  /\ conn = "live" /\ buf # <<>>
  /\ IF Head(buf) <= maxSeq
       THEN UNCHANGED <<sent, shown, lastSeq>>
       ELSE sent' = Append(sent, Head(buf)) /\ Receive(Head(buf), TRUE)
  /\ buf' = Tail(buf)
  /\ UNCHANGED <<server, page, anchor, breaks, conn, since, hist, maxSeq, missed>>

\* The connection is lost; EventSource opens it again.
Break ==
  /\ conn # "closed" /\ breaks > 0
  /\ conn' = "closed" /\ breaks' = breaks - 1
  /\ hist' = <<>> /\ buf' = <<>>
  /\ UNCHANGED <<server, client, since, maxSeq, sent, missed>>

IngestStep(p) ==
  Incr(p) \/ IncrLost(p) \/ Store(p) \/ StoreLost(p) \/ StoreFails(p) \/ FanOut(p)
StreamStep ==
  OpenStream \/ Subscribe \/ ReadReplay \/ SendReplay \/ SendStatus \/ Forward

Next == (\E p \in Producers : IngestStep(p)) \/ LoadPage \/ StreamStep \/ Break

Spec == Init /\ [][Next]_vars

\* An Ingest that has its number goes on, and so do StreamEvents and the browser.
FairSpec ==
  /\ Spec
  /\ \A p \in Producers : WF_vars(Store(p)) /\ WF_vars(FanOut(p))
  /\ WF_vars(StreamStep)

-----------------------------------------------------------------------------
(* What a subscriber gets.                                                 *)

\* Numbers are handed out once: no two stored events, and no stored event and one on
\* its way, share a number, but for the copies of one event whose XADD was resent.
OneNumberEach ==
  /\ \A i, j \in 1..Len(log) : log[i] = log[j] => i = j \/ log[i] \in again
  /\ \A p \in Producers :
       At(p, "numbered") /\ Number(p) \in Range(log) => Number(p) \in again
  /\ \A p, q \in Producers :
       ~At(p, "idle") /\ ~At(q, "idle") /\ Number(p) = Number(q) => p = q

\* What holds where one producer at a time ingests.
OneProducer == Cardinality(active) = 1

\* The replay and the live feed overlap, yet no event is sent twice on a connection,
\* whoever ingests, unless a lost reply had it stored twice; and one producer's
\* events arrive in order...
SentInOrder ==
  \A i, j \in 1..Len(sent) :
    /\ sent[i] = sent[j] => i = j \/ sent[i] \in again
    /\ OneProducer /\ i < j => sent[i] <= sent[j]

\* ...and between the anchor and the last one sent nothing is left out, except
\* what the full channel, a failed write or the replay limit took away.
NoGap ==
  OneProducer /\ since > 0 => \A n \in Range(log) \ missed :
    n > since /\ (\E m \in Range(sent) : n < m) => n \in Range(sent)

\* Whatever breaks, the stored tail behind a real anchor arrives in the end.
TailArrives == \A n \in Seqs :
  (OneProducer /\ page /\ anchor > 0 /\ n > anchor /\ n \in Range(log))
     ~> (n \in Range(sent) \/ n \in missed)

\* Everything is stored, fanned out and forwarded, and the page is connected.
CaughtUp ==
  /\ conn = "live" /\ buf = <<>>
  /\ \A p \in Producers : At(p, "idle")

\* task.proto: a client that opens the stream with since = last_seq receives
\* exactly the tail it missed.
ExactTail == CaughtUp /\ missed = {} /\ since > 0 => Range(log) \subseteq shown
=============================================================================
