-------------------------- MODULE RuntimeRegistry --------------------------
(***************************************************************************)
(* The registry of agent-runtimes the task service keeps in Redis: the set *)
(* runtime:ids, runtime:info:<id> with the load a runtime reports, and     *)
(* runtime:hb:<id>, whose TTL is the health of the runtime.                *)
(*                                                                         *)
(* A runtime registers once, when its process starts, and then only beats. *)
(* Every List, from Pick or from a loop, prunes the ids it finds unhealthy.*)
(* The commands of a pipeline, and the two reads of a Get, are one step.   *)
(***************************************************************************)
EXTENDS Integers, Sequences

CONSTANTS
  Runtimes,   \* agent-runtime processes, by id
  Size,       \* MAX_SESSIONS of each runtime
  MaxActive,  \* bound of the model: sessions a runtime reports
  Scanners,   \* calls of List: SendPrompts that Pick, the watchdog
  None,       \* no key, no runtime
  Faults      \* what may go wrong with each runtime, a set of Fault

Fault == {"crash", "lapse", "regfail"}

ASSUME RegistryAssumption ==
  /\ Size \in [Runtimes -> Nat]
  /\ MaxActive \in Nat
  /\ None \notin Runtimes
  /\ Faults \in [Runtimes -> SUBSET Fault]

VARIABLES
  up,      \* runtimes whose process runs
  load,    \* pool.count() of each runtime
  reg,     \* how far the registration of the running process is
  beat,    \* a Heartbeat the task service works on: the info it has read
  ids,     \* runtime:ids
  info,    \* runtime:info:<id>
  hb,      \* runtimes whose heartbeat key is alive
  todo,    \* ids a List has still to look at
  prune,   \* the id a List is about to remove
  out,     \* runtimes a List has found healthy, in its order
  picked   \* what the last Pick of a scanner returned

procs == <<up, load, reg, beat>>
keys  == <<ids, info, hb>>
scans == <<todo, prune, out, picked>>
vars  == <<up, load, reg, beat, ids, info, hb, todo, prune, out, picked>>

Loads == 0..MaxActive
Infos == [active : Loads, max : {Size[r] : r \in Runtimes} \cup {1}]
Found == [id : Runtimes, active : Loads, max : {Size[r] : r \in Runtimes} \cup {1}]

TypeOK ==
  /\ up \subseteq Runtimes /\ ids \subseteq Runtimes /\ hb \subseteq Runtimes
  /\ load \in [Runtimes -> Loads]
  /\ reg \in [Runtimes -> {"none", "added", "over"}]
  /\ beat \in [Runtimes -> {None} \cup (({None} \cup Infos) \X Loads)]
  /\ info \in [Runtimes -> {None} \cup Infos]
  /\ todo \in [Scanners -> SUBSET Runtimes]
  /\ prune \in [Scanners -> Runtimes \cup {None}]
  /\ out \in [Scanners -> Seq(Found)]
  /\ picked \in [Scanners -> Runtimes \cup {None}]

Init ==
  /\ up = {} /\ ids = {} /\ hb = {}
  /\ load = [r \in Runtimes |-> 0]
  /\ reg = [r \in Runtimes |-> "none"]
  /\ beat = [r \in Runtimes |-> None]
  /\ info = [r \in Runtimes |-> None]
  /\ todo = [s \in Scanners |-> {}]
  /\ prune = [s \in Scanners |-> None]
  /\ out = [s \in Scanners |-> <<>>]
  /\ picked = [s \in Scanners |-> None]

\* Registry.Get
Healthy(r) == r \in hb /\ info[r] # None

-----------------------------------------------------------------------------
(* The runtime processes.                                                  *)

Boot(r) ==
  /\ r \notin up /\ reg[r] # "added"
  /\ up' = up \cup {r}
  /\ reg' = [reg EXCEPT ![r] = "none"]
  /\ load' = [load EXCEPT ![r] = 0]
  /\ UNCHANGED <<beat, keys, scans>>

Crash(r) ==
  /\ "crash" \in Faults[r]
  /\ r \in up
  /\ up' = up \ {r}
  /\ UNCHANGED <<load, reg, beat, keys, scans>>

\* Sessions are created and closed.
LoadChanges(r) ==
  /\ r \in up
  /\ \E n \in Loads : n <= Size[r] /\ load' = [load EXCEPT ![r] = n]
  /\ UNCHANGED <<up, reg, beat, keys, scans>>

\* Register: SADD, then info and heartbeat in one pipeline.
RegisterId(r) ==
  /\ r \in up /\ reg[r] = "none"
  /\ ids' = ids \cup {r}
  /\ reg' = [reg EXCEPT ![r] = "added"]
  /\ UNCHANGED <<up, load, beat, info, hb, scans>>

RegisterInfo(r) ==
  /\ reg[r] = "added"
  /\ info' = [info EXCEPT ![r] = [active |-> 0, max |-> 1]]
  /\ hb' = hb \cup {r}
  /\ reg' = [reg EXCEPT ![r] = "over"]
  /\ UNCHANGED <<up, load, beat, ids, scans>>

\* startRegistry logs the error and never registers again.
RegisterFails(r) ==
  /\ "regfail" \in Faults[r]
  /\ r \in up /\ reg[r] # "over"
  /\ reg' = [reg EXCEPT ![r] = "over"]
  /\ UNCHANGED <<up, load, beat, keys, scans>>

\* Heartbeat reads the info by Get, which needs a live heartbeat key.
HeartbeatRead(r) ==
  /\ r \in up /\ beat[r] = None
  /\ beat' = [beat EXCEPT ![r] = <<IF Healthy(r) THEN info[r] ELSE None, load[r]>>]
  /\ UNCHANGED <<up, load, reg, keys, scans>>

\* Mutant: the info is written back as it was read.
HeartbeatKeepsInfo(r) ==
  /\ beat[r] # None
  /\ hb' = hb \cup {r}
  /\ info' = IF beat[r][1] = None THEN info ELSE [info EXCEPT ![r] = beat[r][1]]
  /\ beat' = [beat EXCEPT ![r] = None]
  /\ UNCHANGED <<up, load, reg, ids, scans>>

HeartbeatWrite(r) ==
  /\ beat[r] # None
  /\ hb' = hb \cup {r}
  /\ info' = IF beat[r][1] = None
               THEN info
               ELSE [info EXCEPT ![r] = [active |-> beat[r][2], max |-> Size[r]]]
  /\ beat' = [beat EXCEPT ![r] = None]
  /\ UNCHANGED <<up, load, reg, ids, scans>>

\* Fifteen seconds without a heartbeat.
HeartbeatExpires(r) ==
  /\ "lapse" \in Faults[r] \/ r \notin up
  /\ r \in hb
  /\ hb' = hb \ {r}
  /\ UNCHANGED <<procs, ids, info, scans>>

\* A day without one that found its info.
InfoExpires(r) ==
  /\ r \notin hb /\ info[r] # None
  /\ info' = [info EXCEPT ![r] = None]
  /\ UNCHANGED <<procs, ids, hb, scans>>

-----------------------------------------------------------------------------
(* List and Pick.                                                          *)

LessLoaded(a, b) == a.active * b.max < b.active * a.max

\* Mutant: the load is compared by the number of sessions alone.
FewerActive(rt, best) == rt.active < best.active

\* Pick's comparison of a candidate with the best so far.
Preferred(rt, best) ==
  LessLoaded(rt, best) \/ (rt.active = best.active /\ rt.max > best.max)

\* The place of the best of the first i runtimes, 0 while there is none.  Those
\* without capacity are skipped.
BestOf(list) ==
  LET best[i \in 0..Len(list)] ==
        IF i = 0 THEN 0
        ELSE IF /\ list[i].max > 0
                /\ best[i - 1] = 0 \/ Preferred(list[i], list[best[i - 1]])
               THEN i ELSE best[i - 1]
  IN best[Len(list)]

\* Pick
Best(list) == IF BestOf(list) = 0 THEN None ELSE list[BestOf(list)].id

\* SMEMBERS
ScanStart(s) ==
  /\ todo[s] = {} /\ prune[s] = None
  /\ ids # {}
  /\ todo' = [todo EXCEPT ![s] = ids]
  /\ out' = [out EXCEPT ![s] = <<>>]
  /\ picked' = [picked EXCEPT ![s] = None]
  /\ UNCHANGED <<procs, keys, prune>>

\* Mutant: an unhealthy id is skipped, not removed.
ScanSkips(s, r) ==
  /\ prune[s] = None /\ r \in todo[s]
  /\ todo' = [todo EXCEPT ![s] = @ \ {r}]
  /\ IF Healthy(r)
       THEN out' = [out EXCEPT ![s] = Append(@, [id |-> r, active |-> info[r].active,
                                                 max |-> info[r].max])]
       ELSE UNCHANGED out
  /\ picked' = IF todo'[s] = {} THEN [picked EXCEPT ![s] = Best(out'[s])] ELSE picked
  /\ UNCHANGED <<procs, keys, prune>>

\* Get of the next id.  The set has no order.
ScanGet(s, r) ==
  /\ prune[s] = None /\ r \in todo[s]
  /\ todo' = [todo EXCEPT ![s] = @ \ {r}]
  /\ IF Healthy(r)
       THEN /\ out' = [out EXCEPT ![s] = Append(@, [id |-> r, active |-> info[r].active,
                                                    max |-> info[r].max])]
            /\ UNCHANGED prune
       ELSE prune' = [prune EXCEPT ![s] = r] /\ UNCHANGED out
  /\ picked' = IF todo'[s] = {} THEN [picked EXCEPT ![s] = Best(out'[s])] ELSE picked
  /\ UNCHANGED <<procs, keys>>

\* SREM of an id whose Get failed.
ScanPrune(s) ==
  /\ prune[s] # None
  /\ ids' = ids \ {prune[s]}
  /\ prune' = [prune EXCEPT ![s] = None]
  /\ UNCHANGED <<procs, info, hb, todo, out, picked>>

RuntimeStep(r) ==
  \/ Boot(r) \/ Crash(r) \/ LoadChanges(r)
  \/ RegisterId(r) \/ RegisterInfo(r) \/ RegisterFails(r)
  \/ HeartbeatRead(r) \/ HeartbeatWrite(r)
  \/ HeartbeatExpires(r) \/ InfoExpires(r)

ScanStep(s) == ScanStart(s) \/ (\E r \in Runtimes : ScanGet(s, r)) \/ ScanPrune(s)

Next == (\E r \in Runtimes : RuntimeStep(r)) \/ (\E s \in Scanners : ScanStep(s))

Spec == Init /\ [][Next]_vars

\* The timers of a running process fire, a Heartbeat the service has received
\* is worked off, TTLs run out, and the watchdog lists once a minute.
FairSpec ==
  /\ Spec
  /\ \A r \in Runtimes :
       /\ WF_vars(RegisterId(r)) /\ WF_vars(RegisterInfo(r))
       /\ WF_vars(HeartbeatRead(r)) /\ WF_vars(HeartbeatWrite(r))
       /\ WF_vars(r \notin up /\ HeartbeatExpires(r))
  /\ \A s \in Scanners : WF_vars(ScanStep(s))

-----------------------------------------------------------------------------
(* What scheduling relies on.                                              *)

\* Whatever order Redis lists the set in, Pick returns a runtime with the
\* smallest share of its capacity in use.
PickIsLeastLoaded == \A s \in Scanners :
  picked[s] # None =>
    \E i \in 1..Len(out[s]) :
      /\ out[s][i].id = picked[s] /\ out[s][i].max > 0
      /\ \A j \in 1..Len(out[s]) :
           out[s][j].max > 0 => ~LessLoaded(out[s][j], out[s][i])

\* A runtime that is gone for good is forgotten, whatever was in flight.
GoneIsForgotten == \A r \in Runtimes :
  <>[](r \notin up) => <>[](r \notin ids)

\* The load Pick goes by becomes the load a runtime settles on, also after
\* heartbeats that missed it.
LoadBecomesKnown == \A r \in Runtimes : \A n \in Loads :
  <>[](r \in up /\ load[r] = n /\ r \in hb /\ info[r] # None)
    => <>[](info[r] # None /\ info[r].active = n)
=============================================================================
