----------------------- MODULE RuntimeRegistry_proofs -----------------------
(***************************************************************************)
(* Pick returns a least loaded runtime, for any number of runtimes of any  *)
(* capacity and whatever the loads.                                        *)
(***************************************************************************)
EXTENDS RuntimeRegistry, NaturalsInduction, WellFoundedInduction, TLAPS

Below == {p \in Nat \X Nat : p[1] < p[2]}

\* There is a first one.
LEMMA FirstIs ==
  ASSUME NEW S \in SUBSET Nat, S # {}
  PROVE  \E i \in S : \A k \in S : i <= k
<1>1. IsWellFoundedOn(Below, Nat)
  BY NatLessThanWellFounded DEF OpToRel, Below
<1>2. PICK i \in S : \A k \in S : <<k, i>> \notin Below
  BY <1>1, WFMin
<1>3. \A k \in S : ~(k < i)
  BY <1>2 DEF Below
<1>4. QED BY <1>3

-----------------------------------------------------------------------------
(* Pick's loop.                                                            *)

\* What the loop makes of the best so far at the i-th runtime.
Kept(list, b, i) ==
  IF /\ list[i].max > 0
     /\ b = 0 \/ Preferred(list[i], list[b])
    THEN i ELSE b

\* f follows the loop through the first n runtimes.
Follows(list, f, n) ==
  f = [i \in 0..n |-> IF i = 0 THEN 0 ELSE Kept(list, f[i - 1], i)]

\* The loop gets through every list: otherwise there were a first number of
\* runtimes that it does not get through, and one step more would do.
LEMMA LoopExists ==
  ASSUME NEW list, NEW n \in Nat
  PROVE  \E f : Follows(list, f, n)
<1> DEFINE Bad == {k \in Nat : ~ \E f : Follows(list, f, k)}
<1>1. SUFFICES ASSUME Bad # {} PROVE FALSE
  OBVIOUS
<1>2. PICK k \in Bad : \A l \in Bad : k <= l
  BY <1>1, FirstIs
<1>3. k # 0
  <2>1. Follows(list, [i \in 0..0 |-> 0], 0)
    BY DEF Follows
  <2>2. QED BY <2>1
<1>4. k - 1 \in Nat /\ k - 1 \notin Bad
  BY <1>2, <1>3
<1>5. PICK g : Follows(list, g, k - 1)
  BY <1>4
<1> DEFINE f == [i \in 0..k |-> IF i = k THEN Kept(list, g[k - 1], k) ELSE g[i]]
<1>6. ASSUME NEW i \in 0..k
      PROVE  f[i] = IF i = 0 THEN 0 ELSE Kept(list, f[i - 1], i)
  <2>1. CASE i = k
    <3>1. f[i] = Kept(list, g[k - 1], k) BY <2>1
    <3>2. f[i - 1] = g[k - 1] BY <2>1, <1>3, <1>4
    <3>3. QED BY <2>1, <3>1, <3>2, <1>3
  <2>2. CASE i # k
    <3>1. i \in 0..(k - 1) BY <2>2, <1>4
    <3>2. g[i] = IF i = 0 THEN 0 ELSE Kept(list, g[i - 1], i)
      BY <3>1, <1>5 DEF Follows
    <3>3. f[i] = g[i] BY <2>2
    <3>4. i # 0 => f[i - 1] = g[i - 1] BY <2>2, <3>1
    <3>5. QED BY <3>2, <3>3, <3>4
  <2>3. QED BY <2>1, <2>2
<1>7. f = [i \in 0..k |-> f[i]]
  OBVIOUS
<1> HIDE DEF f
<1>8. Follows(list, f, k)
  BY <1>6, <1>7 DEF Follows
<1>9. QED BY <1>8

LEMMA BestOfIs ==
  ASSUME NEW list, Len(list) \in Nat
  PROVE  \E f : Follows(list, f, Len(list)) /\ BestOf(list) = f[Len(list)]
<1>1. PICK n \in Nat : n = Len(list)
  OBVIOUS
<1> DEFINE f == CHOOSE h : Follows(list, h, n)
<1>2. Follows(list, f, n)
  BY LoopExists, <1>1
<1>3. BestOf(list) = f[n]
  BY <1>1 DEF BestOf, Follows, Kept
<1>4. QED BY <1>1, <1>2, <1>3

-----------------------------------------------------------------------------
(* Loads.                                                                  *)

LEMMA ProductIsNat == \A x, y \in Nat : x * y \in Nat
  OBVIOUS

LEMMA TimesMonotone ==
  ASSUME NEW x \in Nat, NEW y \in Nat, NEW z \in Nat, x <= y
  PROVE  x * z <= y * z
<1>1. PICK d \in Nat : y = x + d
  <2>1. y - x \in Nat /\ y = x + (y - x) OBVIOUS
  <2>2. QED BY <2>1
<1>2. y * z = x * z + d * z BY <1>1
<1>3. d * z \in Nat /\ x * z \in Nat BY ProductIsNat
<1>4. QED BY <1>2, <1>3

\* A positive factor cancels.
LEMMA TimesCancels ==
  ASSUME NEW x \in Nat, NEW y \in Nat, NEW z \in Nat \ {0}, x * z <= y * z
  PROVE  x <= y
<1>1. SUFFICES ASSUME ~(x <= y) PROVE FALSE
  OBVIOUS
<1>2. (y + 1) * z <= x * z
  BY <1>1, TimesMonotone
<1>3. (y + 1) * z = y * z + z
  OBVIOUS
<1>4. x * z \in Nat /\ y * z \in Nat BY ProductIsNat
<1>5. QED BY <1>2, <1>3, <1>4

\* A runtime with a share of its capacity in use.
Shares == [id : Runtimes, active : Nat, max : Nat]

\* Among runtimes with a capacity "no less loaded" is transitive, and Pick
\* prefers no runtime that is more loaded.
LEMMA PreferredIsBetter ==
  ASSUME NEW a \in Shares, NEW b \in Shares, NEW c \in Shares,
         a.max > 0, b.max > 0, c.max > 0,
         ~LessLoaded(a, b), Preferred(c, b)
  PROVE  ~LessLoaded(a, c)
<1> DEFINE aa == a.active  am == a.max  ba == b.active  bm == b.max
           ca == c.active  cm == c.max
<1>1. /\ aa \in Nat /\ ba \in Nat /\ ca \in Nat
      /\ am \in Nat \ {0} /\ bm \in Nat \ {0} /\ cm \in Nat \ {0}
  BY DEF Shares
<1>2. ba * am <= aa * bm
  <2>1. ~(aa * bm < ba * am) BY DEF LessLoaded
  <2>2. QED BY <2>1, <1>1, ProductIsNat
<1>3. ca * bm <= ba * cm
  <2>1. CASE LessLoaded(c, b)
    <3>1. ca * bm < ba * cm BY <2>1 DEF LessLoaded
    <3>2. QED BY <3>1, <1>1, ProductIsNat
  <2>2. CASE ca = ba /\ cm > bm
    <3>1. bm * ba <= cm * ba BY <2>2, <1>1, TimesMonotone
    <3>2. QED BY <3>1, <2>2, <1>1
  <2>3. QED BY <2>1, <2>2 DEF Preferred
<1>4. (ca * am) * bm <= (aa * cm) * bm
  <2> HIDE DEF aa, am, ba, bm, ca, cm
  <2>1. (ca * bm) * am <= (ba * cm) * am BY <1>1, <1>3, TimesMonotone, ProductIsNat
  <2>2. (ba * am) * cm <= (aa * bm) * cm BY <1>1, <1>2, TimesMonotone, ProductIsNat
  <2>3. (ca * am) * bm = (ca * bm) * am BY <1>1
  <2>4. (ba * cm) * am = (ba * am) * cm BY <1>1
  <2>5. (aa * cm) * bm = (aa * bm) * cm BY <1>1
  <2>6. /\ (ca * bm) * am \in Nat /\ (ba * am) * cm \in Nat /\ (aa * bm) * cm \in Nat
    BY <1>1, ProductIsNat
  <2>7. QED BY <2>1, <2>2, <2>3, <2>4, <2>5, <2>6
<1>5. ca * am <= aa * cm
  <2> HIDE DEF aa, am, ba, bm, ca, cm
  <2>1. ca * am \in Nat /\ aa * cm \in Nat BY <1>1, ProductIsNat
  <2>2. QED BY <2>1, <1>1, <1>4, TimesCancels
<1>6. ~(aa * cm < ca * am)
  BY <1>1, <1>5, ProductIsNat
<1>7. QED BY <1>6 DEF LessLoaded

\* b is the place of a least loaded one of the first n runtimes of a list.
LeastOf(list, b, n) ==
  /\ b \in 0..n
  /\ b = 0 => \A j \in 1..n : ~(list[j].max > 0)
  /\ b # 0 => /\ list[b].max > 0
              /\ \A j \in 1..n : list[j].max > 0 => ~LessLoaded(list[j], list[b])

\* One step of the loop.
LEMMA KeptIsLeast ==
  ASSUME NEW list \in Seq(Shares), NEW n \in 1..Len(list), NEW b,
         LeastOf(list, b, n - 1)
  PROVE  LeastOf(list, Kept(list, b, n), n)
<1>1. /\ n \in Nat \ {0} /\ n - 1 \in Nat /\ b \in 0..(n - 1)
      /\ \A j \in 1..n : list[j] \in Shares /\ list[j].active \in Nat /\ list[j].max \in Nat
  <2>1. Len(list) \in Nat OBVIOUS
  <2>2. \A j \in 1..n : list[j] \in Shares BY <2>1
  <2>3. QED BY <2>1, <2>2 DEF LeastOf, Shares
<1>2. \A j \in 1..n : j = n \/ j \in 1..(n - 1)
  BY <1>1
<1>3. CASE ~(list[n].max > 0)
  <2>1. Kept(list, b, n) = b BY <1>3 DEF Kept
  <2>2. QED BY <2>1, <1>1, <1>2, <1>3 DEF LeastOf
<1>4. CASE list[n].max > 0 /\ b = 0
  <2>1. Kept(list, b, n) = n BY <1>4 DEF Kept
  <2>2. ~LessLoaded(list[n], list[n])
    <3>1. list[n].active * list[n].max \in Nat BY <1>1, ProductIsNat
    <3>2. QED BY <3>1 DEF LessLoaded
  <2>3. \A j \in 1..n : list[j].max > 0 => j = n
    BY <1>2, <1>4 DEF LeastOf
  <2>4. QED BY <2>1, <2>2, <2>3, <1>1, <1>4 DEF LeastOf
<1>5. CASE list[n].max > 0 /\ b # 0 /\ ~Preferred(list[n], list[b])
  <2>1. Kept(list, b, n) = b BY <1>5 DEF Kept
  <2>2. ~LessLoaded(list[n], list[b]) BY <1>5 DEF Preferred
  <2>3. QED BY <2>1, <2>2, <1>1, <1>2, <1>5 DEF LeastOf
<1>6. CASE list[n].max > 0 /\ b # 0 /\ Preferred(list[n], list[b])
  <2>1. Kept(list, b, n) = n BY <1>6 DEF Kept
  <2>2. ~LessLoaded(list[n], list[n])
    <3>1. list[n].active * list[n].max \in Nat BY <1>1, ProductIsNat
    <3>2. QED BY <3>1 DEF LessLoaded
  <2>3. ASSUME NEW j \in 1..(n - 1), list[j].max > 0
        PROVE  ~LessLoaded(list[j], list[n])
    <3>1. list[b].max > 0 /\ ~LessLoaded(list[j], list[b])
      BY <2>3, <1>6 DEF LeastOf
    <3>2. list[j] \in Shares /\ list[b] \in Shares /\ list[n] \in Shares
      BY <1>1, <1>6
    <3>3. QED BY <3>1, <3>2, <2>3, <1>6, PreferredIsBetter
  <2>4. QED BY <2>1, <2>2, <2>3, <1>1, <1>2, <1>6 DEF LeastOf
<1>7. QED BY <1>3, <1>4, <1>5, <1>6

\* The whole loop: there is no first step after which the best is wrong.
LEMMA BestOfIsLeast ==
  ASSUME NEW list \in Seq(Shares)
  PROVE  LeastOf(list, BestOf(list), Len(list))
<1>1. PICK n \in Nat : n = Len(list)
  OBVIOUS
<1>2. PICK f : Follows(list, f, n) /\ BestOf(list) = f[n]
  BY <1>1, BestOfIs
<1>3. f[0] = 0 /\ \A i \in 1..n : f[i] = Kept(list, f[i - 1], i)
  <2>1. \A i \in 0..n : f[i] = IF i = 0 THEN 0 ELSE Kept(list, f[i - 1], i)
    BY <1>2 DEF Follows
  <2>2. QED BY <2>1
<1> DEFINE Wrong == {i \in 0..n : ~LeastOf(list, f[i], i)}
<1>4. Wrong = {}
  <2>1. SUFFICES ASSUME Wrong # {} PROVE FALSE
    OBVIOUS
  <2>2. Wrong \in SUBSET Nat OBVIOUS
  <2>3. PICK k \in Wrong : \A l \in Wrong : k <= l
    BY <2>1, <2>2, FirstIs
  <2>4. k # 0
    <3>1. LeastOf(list, f[0], 0) BY <1>3 DEF LeastOf
    <3>2. QED BY <3>1
  <2>5. k \in 1..n /\ k - 1 \in 0..n /\ k - 1 \notin Wrong
    BY <2>3, <2>4
  <2>6. LeastOf(list, f[k - 1], k - 1) BY <2>5
  <2>7. LeastOf(list, Kept(list, f[k - 1], k), k)
    BY <2>5, <2>6, <1>1, KeptIsLeast
  <2>8. QED BY <2>5, <2>7, <1>3
<1>5. QED BY <1>1, <1>2, <1>4

-----------------------------------------------------------------------------
(* The registry.                                                           *)

\* What was picked stands until the scanner starts over.
PickStands == \A s \in Scanners : picked[s] # None => todo[s] = {}

\* p is a least loaded runtime of the list.
LeastIn(list, p) ==
  \E i \in 1..Len(list) :
    /\ list[i].id = p /\ list[i].max > 0
    /\ \A j \in 1..Len(list) : list[j].max > 0 => ~LessLoaded(list[j], list[i])

PickIsLeast == \A s \in Scanners : picked[s] # None => LeastIn(out[s], picked[s])

\* The inductive invariant.
IInv == TypeOK /\ PickStands /\ PickIsLeast

LEMMA FoundIsShare == Seq(Found) \subseteq Seq(Shares)
<1>1. Found \subseteq Shares
  BY RegistryAssumption DEF Found, Shares, Loads
<1>2. QED BY <1>1

\* Pick returns a least loaded runtime of its list, or none.
LEMMA BestIs ==
  ASSUME NEW list \in Seq(Found)
  PROVE  /\ Best(list) \in Runtimes \cup {None}
         /\ Best(list) # None => LeastIn(list, Best(list))
<1>1. LeastOf(list, BestOf(list), Len(list))
  BY FoundIsShare, BestOfIsLeast
<1>2. CASE BestOf(list) = 0
  BY <1>2 DEF Best
<1>3. CASE BestOf(list) # 0
  <2>1. PICK b : b = BestOf(list)
    OBVIOUS
  <2>2. /\ b \in 1..Len(list) /\ list[b].max > 0
        /\ \A j \in 1..Len(list) : list[j].max > 0 => ~LessLoaded(list[j], list[b])
    BY <1>1, <1>3, <2>1 DEF LeastOf
  <2>3. list[b] \in Found
    BY <2>2
  <2>4. Best(list) = list[b].id
    BY <1>3, <2>1 DEF Best
  <2>5. QED BY <2>2, <2>3, <2>4 DEF Found, LeastIn
<1>4. QED BY <1>2, <1>3

LEMMA InitIInv == Init => IInv
<1> SUFFICES ASSUME Init PROVE IInv
  OBVIOUS
<1>1. 0 \in Loads /\ <<>> \in Seq(Found)
  BY RegistryAssumption DEF Loads
<1>2. QED BY <1>1 DEF Init, IInv, TypeOK, PickStands, PickIsLeast

LEMMA RuntimeStepTypes ==
  ASSUME TypeOK, NEW r \in Runtimes, RuntimeStep(r)
  PROVE  TypeOK' /\ UNCHANGED scans
<1> USE RegistryAssumption DEF TypeOK, procs, keys, scans
<1>1. 0 \in Loads /\ [active |-> 0, max |-> 1] \in Infos
  BY DEF Loads, Infos
<1>2. CASE Boot(r) BY <1>1, <1>2 DEF Boot
<1>3. CASE Crash(r) BY <1>3 DEF Crash
<1>10. CASE LoadChanges(r) BY <1>10 DEF LoadChanges
<1>4. CASE RegisterId(r) \/ RegisterFails(r)
  BY <1>4 DEF RegisterId, RegisterFails
<1>5. CASE RegisterInfo(r) BY <1>1, <1>5 DEF RegisterInfo
<1>6. CASE HeartbeatRead(r)
  <2>1. <<IF Healthy(r) THEN info[r] ELSE None, load[r]>> \in ({None} \cup Infos) \X Loads
    OBVIOUS
  <2>2. QED BY <1>6, <2>1 DEF HeartbeatRead
<1>7. CASE HeartbeatWrite(r)
  <2>1. [active |-> beat[r][2], max |-> Size[r]] \in Infos
    BY <1>7 DEF HeartbeatWrite, Infos
  <2>2. QED BY <1>7, <2>1 DEF HeartbeatWrite
<1>8. CASE HeartbeatExpires(r) \/ InfoExpires(r)
  BY <1>8 DEF HeartbeatExpires, InfoExpires
<1>9. QED BY <1>2, <1>3, <1>4, <1>5, <1>6, <1>7, <1>8, <1>10 DEF RuntimeStep

LEMMA ScanGetStep ==
  ASSUME IInv, NEW s \in Scanners, NEW r \in Runtimes, ScanGet(s, r)
  PROVE  IInv'
<1> USE DEF IInv, TypeOK
<1>1. /\ up' = up /\ load' = load /\ reg' = reg /\ beat' = beat
      /\ ids' = ids /\ info' = info /\ hb' = hb
  BY DEF ScanGet, procs, keys
<1>2. todo' \in [Scanners -> SUBSET Runtimes] /\ prune' \in [Scanners -> Runtimes \cup {None}]
  BY DEF ScanGet
<1>3. out' \in [Scanners -> Seq(Found)]
  <2>1. CASE Healthy(r)
    <3>1. [id |-> r, active |-> info[r].active, max |-> info[r].max] \in Found
      BY <2>1 DEF Healthy, Infos, Found
    <3>2. PICK x \in Found : x = [id |-> r, active |-> info[r].active, max |-> info[r].max]
      BY <3>1
    <3>3. Append(out[s], x) \in Seq(Found)
      OBVIOUS
    <3>4. out' = [out EXCEPT ![s] = Append(out[s], x)]
      BY <2>1, <3>2 DEF ScanGet
    <3>5. QED BY <3>3, <3>4
  <2>2. QED BY <2>1 DEF ScanGet
<1>4. \A t \in Scanners : t # s => /\ out'[t] = out[t] /\ todo'[t] = todo[t]
                                   /\ picked'[t] = picked[t]
  BY DEF ScanGet
<1>5. PICK list \in Seq(Found) : list = out'[s]
  BY <1>3
<1>6. CASE todo'[s] = {}
  <2>1. picked' = [picked EXCEPT ![s] = Best(list)]
    BY <1>5, <1>6 DEF ScanGet
  <2>2. picked' \in [Scanners -> Runtimes \cup {None}] /\ picked'[s] = Best(list)
    BY <2>1, BestIs
  <2>3. TypeOK'
    BY <1>1, <1>2, <1>3, <2>2
  <2>4. PickStands'
    BY <1>4, <1>6 DEF PickStands
  <2>5. PickIsLeast'
    <3>1. ASSUME NEW t \in Scanners, picked'[t] # None
          PROVE  LeastIn(out'[t], picked'[t])
      <4>1. CASE t = s BY <4>1, <3>1, <2>2, <1>5, BestIs
      <4>2. CASE t # s BY <4>2, <3>1, <1>4 DEF PickIsLeast
      <4>3. QED BY <4>1, <4>2
    <3>2. QED BY <3>1 DEF PickIsLeast
  <2>6. QED BY <2>3, <2>4, <2>5
<1>7. CASE todo'[s] # {}
  <2>1. picked' = picked /\ picked[s] = None
    <3>1. picked' = picked BY <1>7 DEF ScanGet
    <3>2. todo[s] # {} BY DEF ScanGet
    <3>3. QED BY <3>1, <3>2 DEF PickStands
  <2>2. TypeOK'
    BY <1>1, <1>2, <1>3, <2>1
  <2>3. \A t \in Scanners : picked'[t] # None =>
          t # s /\ picked[t] # None /\ picked'[t] = picked[t]
            /\ todo'[t] = todo[t] /\ out'[t] = out[t]
    BY <1>4, <2>1
  <2>5. PickStands' /\ PickIsLeast'
    BY <2>3 DEF PickStands, PickIsLeast
  <2>6. QED BY <2>2, <2>5
<1>8. QED BY <1>6, <1>7

LEMMA NextIInv == IInv /\ [Next]_vars => IInv'
<1> SUFFICES ASSUME IInv, [Next]_vars PROVE IInv'
  OBVIOUS
<1>1. ASSUME NEW r \in Runtimes, RuntimeStep(r) PROVE IInv'
  <2>1. TypeOK' /\ UNCHANGED scans
    BY <1>1, RuntimeStepTypes DEF IInv
  <2>2. QED BY <2>1 DEF IInv, scans, PickStands, PickIsLeast
<1>2. ASSUME NEW s \in Scanners, ScanStart(s) PROVE IInv'
  <2>1. TypeOK'
    <3>1. <<>> \in Seq(Found) OBVIOUS
    <3>2. QED BY <1>2, <3>1 DEF ScanStart, IInv, TypeOK, procs, keys
  <2>2. \A t \in Scanners : picked'[t] # None =>
          t # s /\ picked'[t] = picked[t] /\ todo'[t] = todo[t] /\ out'[t] = out[t]
    BY <1>2 DEF ScanStart, IInv, TypeOK
  <2>3. QED BY <2>1, <2>2 DEF IInv, PickStands, PickIsLeast
<1>3. ASSUME NEW s \in Scanners, NEW r \in Runtimes, ScanGet(s, r) PROVE IInv'
  BY <1>3, ScanGetStep
<1>4. ASSUME NEW s \in Scanners, ScanPrune(s) PROVE IInv'
  BY <1>4 DEF ScanPrune, IInv, TypeOK, procs, PickStands, PickIsLeast
<1>5. CASE UNCHANGED vars
  BY <1>5 DEF vars, IInv, TypeOK, PickStands, PickIsLeast
<1>6. QED BY <1>1, <1>2, <1>3, <1>4, <1>5 DEF Next, ScanStep

\* Pick returns a runtime with a capacity that no other of those List found
\* undercuts, in whatever order Redis gave them: the comparison is one of
\* products, and going through the list once with it finds a least one.
THEOREM LeastLoadedIsPicked == Spec => []PickIsLeastLoaded
<1>1. IInv => PickIsLeastLoaded
  BY DEF IInv, PickIsLeast, PickIsLeastLoaded, LeastIn
<1>2. QED BY <1>1, InitIInv, NextIInv, PTL DEF Spec
=============================================================================
