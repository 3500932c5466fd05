--------------------------- MODULE ExitLadderProofs ---------------------------
(***************************************************************************)
(* Proofs about the exit ladder, for every configuration of profiles,      *)
(* windows, floors and limits that satisfies the module's assumptions.     *)
(***************************************************************************)
EXTENDS ExitLadder, FiniteSetTheorems, SequenceTheorems, TLAPS

-----------------------------------------------------------------------------
(***************************************************************************)
(* The extremes of a finite set, and the median.                           *)
(***************************************************************************)

\* A finite family of integers has a largest member: among the sets of the indices above
\* a given one there is a smallest one, and it is empty.
LEMMA FiniteMax ==
    ASSUME NEW I, IsFiniteSet(I), I # {}, NEW f, \A i \in I : f[i] \in Int
    PROVE  \E i \in I : \A j \in I : f[j] <= f[i]
<1> DEFINE Above(i) == {j \in I : f[j] > f[i]}
           T == {Above(i) : i \in I}
<1>1. IsWellFoundedOn(StrictSubsetOrdering(I), SUBSET I)
  BY FS_StrictSubsetOrderingWellFounded, FS_FiniteSubsetsOfFinite
<1>2. T \subseteq SUBSET I /\ T # {}
  OBVIOUS
<1>3. PICK U \in T : \A W \in T : <<W, U>> \notin StrictSubsetOrdering(I)
  <2> HIDE DEF T
  <2> QED BY <1>1, <1>2, WFMin
<1>4. PICK i \in I : U = Above(i)
  BY <1>3
<1>5. ASSUME NEW k \in I, f[k] > f[i]
      PROVE  FALSE
  <2>1. Above(k) \in T
    OBVIOUS
  <2>2. Above(k) \subseteq Above(i) /\ k \in Above(i) /\ k \notin Above(k)
    BY <1>5
  <2>3. <<Above(k), U>> \in StrictSubsetOrdering(I)
    <3> HIDE DEF Above
    <3> QED BY <1>2, <1>4, <2>1, <2>2 DEF StrictSubsetOrdering
  <2> QED BY <1>3, <2>1, <2>3
<1> QED BY <1>5

\* A finite family of integers has a smallest member.
LEMMA FiniteMin ==
    ASSUME NEW I, IsFiniteSet(I), I # {}, NEW f, \A i \in I : f[i] \in Int
    PROVE  \E i \in I : \A j \in I : f[i] <= f[j]
<1> DEFINE g == [i \in I |-> -f[i]]
<1>1. \A i \in I : g[i] \in Int
  OBVIOUS
<1>2. PICK i \in I : \A j \in I : g[j] <= g[i]
  <2> HIDE DEF g
  <2> QED BY <1>1, FiniteMax
<1> QED BY <1>2

\* The upper median exists, whatever the samples: it is the smallest sample that more
\* than half of the samples do not exceed (exit_mcap_median on a sorted copy).
LEMMA MedianExists ==
    ASSUME NEW I, IsFiniteSet(I), I # {}, NEW s, \A i \in I : s[i] \in Int
    PROVE  /\ Median(s, I) \in {s[i] : i \in I}
           /\ 2 * Cardinality({i \in I : s[i] < Median(s, I)}) <= Cardinality(I)
           /\ 2 * Cardinality({i \in I : s[i] <= Median(s, I)}) > Cardinality(I)
<1> DEFINE UpTo(x) == {i \in I : s[i] <= x}
           W == {i \in I : 2 * Cardinality(UpTo(s[i])) > Cardinality(I)}
<1>1. Cardinality(I) \in Nat /\ Cardinality(I) > 0
  BY FS_CardinalityType, FS_EmptySet
<1>2. W # {}
  <2>1. PICK i \in I : \A j \in I : s[j] <= s[i]
    BY FiniteMax
  <2>2. UpTo(s[i]) = I
    BY <2>1
  <2> QED BY <1>1, <2>2
<1>3. IsFiniteSet(W)
  BY FS_Subset
<1>4. PICK k \in W : \A j \in W : s[k] <= s[j]
  <2>1. \A i \in W : s[i] \in Int
    OBVIOUS
  <2> HIDE DEF W
  <2> QED BY <1>2, <1>3, <2>1, FiniteMin
<1> DEFINE L == {i \in I : s[i] < s[k]}
<1>5. 2 * Cardinality(L) <= Cardinality(I)
  <2>1. CASE L = {}
    BY <1>1, <2>1, FS_EmptySet
  <2>2. CASE L # {}
    <3>1. IsFiniteSet(L) /\ \A i \in L : s[i] \in Int
      BY FS_Subset
    <3>2. PICK m \in L : \A j \in L : s[j] <= s[m]
      <4> HIDE DEF L
      <4> QED BY <2>2, <3>1, FiniteMax
    <3>3. L = UpTo(s[m])
      BY <3>2, <1>4
    <3>4. m \notin W
      BY <3>2, <1>4
    <3>5. Cardinality(UpTo(s[m])) \in Nat
      BY <3>1, <3>3, FS_CardinalityType
    <3>6. m \in I /\ ~ (2 * Cardinality(UpTo(s[m])) > Cardinality(I))
      BY <3>4
    <3> HIDE DEF UpTo, L, W
    <3> QED BY <1>1, <3>3, <3>5, <3>6
  <2> QED BY <2>1, <2>2
<1> QED
  BY <1>4, <1>5 DEF Median

\* One odd sample among three or more, or none, leaves the median where the others are.
LEMMA MedianSteady ==
    ASSUME NEW I, IsFiniteSet(I), I # {}, NEW s, \A i \in I : s[i] \in Int,
           NEW e \in Int, NEW odd,
           \A i \in I \ {odd} : s[i] = e,
           Cardinality(I) >= 3 \/ odd \notin I
    PROVE  Median(s, I) = e
<1> DEFINE x == Median(s, I)
<1>1. /\ x \in {s[i] : i \in I}
      /\ 2 * Cardinality({i \in I : s[i] < x}) <= Cardinality(I)
      /\ 2 * Cardinality({i \in I : s[i] <= x}) > Cardinality(I)
  BY MedianExists
<1> HIDE DEF x
<1> SUFFICES ASSUME x # e PROVE FALSE
  BY DEF x
<1>2. odd \in I /\ s[odd] = x /\ Cardinality(I) >= 3 /\ Cardinality(I) \in Nat
  BY <1>1, FS_CardinalityType
<1>3. CASE x < e
  <2>1. {i \in I : s[i] <= x} = {odd}
    BY <1>2, <1>3
  <2>2. Cardinality({i \in I : s[i] <= x}) = 1
    BY <2>1, FS_Singleton
  <2>3. 2 * 1 > Cardinality(I)
    BY <1>1, <2>2
  <2> QED BY <1>2, <2>3
<1>4. CASE x > e
  <2>1. {i \in I : s[i] < x} = I \ {odd}
    BY <1>2, <1>4
  <2>2. Cardinality(I \ {odd}) = Cardinality(I) - 1
    BY <1>2, FS_RemoveElement
  <2>3. 2 * Cardinality(I \ {odd}) <= Cardinality(I)
    BY <1>1, <2>1
  <2> QED BY <1>2, <2>2, <2>3
<1>5. x \in Int
  BY <1>1
<1> QED BY <1>3, <1>4, <1>5

-----------------------------------------------------------------------------
(***************************************************************************)
(* What a tick derives from the market cap.                                *)
(***************************************************************************)

\* The filter returns one of its samples, or the entry while it has none: the band around
\* the median is never empty.
LEMMA FilterType ==
    ASSUME NEW s \in Seq(Nat)
    PROVE  FilteredExitMcap(s) \in {Entry} \cup {s[i] : i \in DOMAIN s}
<1> SUFFICES ASSUME s # <<>>
             PROVE  FilteredExitMcap(s) \in {s[i] : i \in DOMAIN s}
  BY DEF FilteredExitMcap
<1> DEFINE D == DOMAIN s
           mid == Median(s, D)
           B == {i \in D : s[i] * 100 >= mid * BandLow /\ s[i] * 100 <= mid * BandHigh}
<1>1. IsFiniteSet(D) /\ D # {} /\ \A i \in D : s[i] \in Nat
  <2>1. D = 1..Len(s) /\ Len(s) \in Nat /\ Len(s) # 0
    OBVIOUS
  <2>2. IsFiniteSet(1..Len(s))
    BY <2>1, FS_Interval
  <2>3. \A i \in D : s[i] \in Nat
    BY <2>1
  <2> HIDE DEF D
  <2> QED BY <2>1, <2>2, <2>3
<1>2. mid \in {s[i] : i \in D}
  <2>1. IsFiniteSet(D) /\ D # {} /\ \A i \in D : s[i] \in Int
    BY <1>1
  <2> HIDE DEF D
  <2> QED BY <2>1, MedianExists
<1>3. PICK k \in D : s[k] = mid
  BY <1>2
<1>4. mid \in Nat
  BY <1>1, <1>3
<1> HIDE DEF mid, D
<1>5. mid * 100 >= mid * BandLow /\ mid * 100 <= mid * BandHigh
  BY <1>4, LadderAssumption
<1>6. k \in B
  BY <1>3, <1>5
<1>7. IsFiniteSet(B) /\ B \subseteq D /\ B # {} /\ \A i \in B : s[i] \in Int
  BY <1>1, <1>6, FS_Subset
<1>8. Median(s, B) \in {s[i] : i \in B}
  <2> HIDE DEF B
  <2> QED BY <1>7, MedianExists
<1>9. FilteredExitMcap(s) = Median(s, B)
  BY DEF FilteredExitMcap, mid, D
<1> QED BY <1>7, <1>8, <1>9 DEF D

\* A window with one odd sample among three or more, or none, shows the entry.
LEMMA FilterSteady ==
    ASSUME NEW s \in Seq(Nat), NEW odd,
           \A i \in DOMAIN s \ {odd} : s[i] = Entry,
           Len(s) >= 3 \/ odd \notin DOMAIN s
    PROVE  FilteredExitMcap(s) = Entry
<1> SUFFICES ASSUME s # <<>>
             PROVE  FilteredExitMcap(s) = Entry
  BY DEF FilteredExitMcap
<1> DEFINE D == DOMAIN s
           mid == Median(s, D)
           B == {i \in D : s[i] * 100 >= mid * BandLow /\ s[i] * 100 <= mid * BandHigh}
<1>1. IsFiniteSet(D) /\ D # {} /\ Cardinality(D) = Len(s) /\ \A i \in D : s[i] \in Int
  <2>1. D = 1..Len(s) /\ Len(s) \in Nat /\ Len(s) # 0
    OBVIOUS
  <2>2. IsFiniteSet(1..Len(s)) /\ Cardinality(1..Len(s)) = Len(s)
    BY <2>1, FS_Interval
  <2> QED BY <2>1, <2>2
<1>2. mid = Entry
  BY <1>1, MedianSteady DEF Entry
<1>3. D \ {odd} \subseteq B
  BY <1>2, LadderAssumption DEF Entry
<1>4. B # {}
  <2>1. ASSUME odd \in D PROVE D \ {odd} # {}
    BY <2>1, <1>1, FS_Singleton, FS_RemoveElement, FS_EmptySet
  <2> QED BY <1>1, <1>3, <2>1
<1>5. IsFiniteSet(B) /\ B \subseteq D /\ \A i \in B : s[i] \in Int
  BY <1>1, FS_Subset
<1>6. CASE odd \in B
  <2>1. B = D
    BY <1>3, <1>6
  <2> QED BY <1>2, <2>1 DEF FilteredExitMcap, mid, D, B
<1>7. CASE odd \notin B
  <2>1. Median(s, B) = Entry
    <3> HIDE DEF B
    <3> QED BY <1>4, <1>5, <1>7, MedianSteady DEF Entry
  <2> QED BY <2>1 DEF FilteredExitMcap
<1> QED BY <1>6, <1>7

\* The staircase raises a floor to every step that the peak has reached, and never lowers it.
LEMMA LockedFloorRaises ==
    ASSUME NEW p \in Int, NEW f \in Int
    PROVE  /\ LockedFloor(p, f) \in Int /\ LockedFloor(p, f) >= f
           /\ \A t \in Staircase : p >= t[1] => LockedFloor(p, f) >= t[2]
           /\ LockedFloor(p, f) = f \/ \E t \in Staircase : p >= t[1] /\ LockedFloor(p, f) = t[2]
<1> DEFINE R == {t \in Staircase : p >= t[1]}
           locks == {t[2] : t \in R}
           h == [t \in R |-> t[2]]
<1>1. CASE R = {}
  BY <1>1 DEF LockedFloor
<1>2. CASE R # {}
  <2>1. IsFiniteSet(R) /\ \A t \in R : h[t] \in Int
    BY LadderAssumption, FS_Subset
  <2>2. PICK k \in R : \A t \in R : h[t] <= h[k]
    <3> HIDE DEF h, R
    <3> QED BY <1>2, <2>1, FiniteMax
  <2>3. k[2] \in locks /\ (\A y \in locks : k[2] >= y) /\ locks \subseteq Int
    BY <2>1, <2>2
  <2> DEFINE top == CHOOSE x \in locks : \A y \in locks : x >= y
  <2>4. top \in locks /\ \A y \in locks : top >= y
    BY <2>3
  <2>5. LockedFloor(p, f) = Larger(f, top)
    BY <1>2 DEF LockedFloor
  <2> HIDE DEF top
  <2> QED BY <2>3, <2>4, <2>5 DEF Larger
<1> QED BY <1>1, <1>2

\* The locked profit exists, and a floor that has not fallen below the stop loss of a new
\* position is raised to it.
LEMMA LockReached ==
    ASSUME NEW p \in Int, NEW f \in Int, f >= StartFloor
    PROVE  LockOf(p) \in Int /\ LockedFloor(p, f) >= LockOf(p)
<1> DEFINE S == {StartFloor} \cup {s[2] : s \in Staircase}
           Is(x) == /\ x = StartFloor \/ \E s \in Staircase : p >= s[1] /\ x = s[2]
                    /\ x >= StartFloor
                    /\ \A s \in Staircase : p >= s[1] => x >= s[2]
<1>1. \E x \in S : Is(x)
  <2>1. LET x == LockedFloor(p, StartFloor) IN x \in S /\ Is(x)
    BY LockedFloorRaises, LadderAssumption
  <2> QED BY <2>1
<1>2. LockOf(p) \in S /\ Is(LockOf(p))
  BY <1>1 DEF LockOf
<1>3. S \subseteq Int
  BY LadderAssumption
<1>4. CASE LockOf(p) = StartFloor
  BY <1>4, LockedFloorRaises, LadderAssumption
<1>5. ASSUME NEW t \in Staircase, p >= t[1], LockOf(p) = t[2]
      PROVE  LockOf(p) \in Int /\ LockedFloor(p, f) >= LockOf(p)
  <2>1. t[2] \in Int
    BY LadderAssumption
  <2>2. LockedFloor(p, f) >= t[2]
    BY <1>5, LockedFloorRaises
  <2> QED BY <1>5, <2>1, <2>2
<1> QED BY <1>2, <1>4, <1>5

\* Everything a tick derives has its type; the floor it works with is at or above the
\* profit that the peak has locked.
LEMMA ObserveFacts ==
    ASSUME TypeOK, floor >= StartFloor, NEW raw \in Mcap, NEW o, o = Observe(raw)
    PROVE  /\ o.samples \in Seq(Mcap \ {0}) /\ Len(o.samples) <= MedianTicks
           /\ o.mcap \in Nat /\ o.profit \in Int /\ o.slProfit \in Int /\ o.rawPnl \in Int
           /\ o.peak \in Nat
           /\ o.floor \in Int /\ o.floor >= StartFloor
           /\ LockOf(o.peak) \in Int /\ o.floor >= LockOf(o.peak)
<1> DEFINE s == PushExitMcapTick(raw)
           filt == FilteredExitMcap(s)
           top == Larger(peak, filt - Entry)
<1>0. /\ samples \in Seq(Mcap \ {0}) /\ Len(samples) <= MedianTicks
      /\ peak \in Nat /\ floor \in Int /\ raw \in Nat /\ Mcap \subseteq Nat
      /\ MedianTicks \in Nat \ {0}
  BY LadderAssumption DEF TypeOK
<1>1. s \in Seq(Mcap \ {0}) /\ Len(s) <= MedianTicks
  <2>1. CASE ~Valid(raw)
    BY <1>0, <2>1 DEF PushExitMcapTick
  <2>2. CASE Valid(raw)
    <3> DEFINE all == Append(samples, raw)
    <3>1. raw \in Mcap \ {0}
      BY <1>0, <2>2 DEF Valid
    <3>2. all \in Seq(Mcap \ {0}) /\ Len(all) = Len(samples) + 1
      BY <1>0, <3>1
    <3>3. Tail(all) \in Seq(Mcap \ {0}) /\ Len(Tail(all)) = Len(samples)
      <4>1. all # <<>>
        BY <1>0, <3>2
      <4> HIDE DEF all
      <4> QED BY <1>0, <3>2, <4>1, HeadTailProperties
    <3>4. s = IF Len(all) > MedianTicks THEN Tail(all) ELSE all
      BY <2>2 DEF PushExitMcapTick
    <3> HIDE DEF all
    <3> QED BY <1>0, <3>2, <3>3, <3>4
  <2> QED BY <2>1, <2>2
<1>2. s \in Seq(Nat)
  BY <1>0, <1>1, SeqMonotonic
<1> HIDE DEF s
<1>3. filt \in Nat
  BY <1>2, FilterType DEF Entry
<1> HIDE DEF filt
<1>4. top \in Nat
  BY <1>0, <1>3 DEF Larger, Entry
<1>5. /\ LockedFloor(top, floor) \in Int /\ LockedFloor(top, floor) >= StartFloor
      /\ LockOf(top) \in Int /\ LockedFloor(top, floor) >= LockOf(top)
  <2>1. top \in Int
    BY <1>4
  <2>2. LockedFloor(top, floor) \in Int /\ LockedFloor(top, floor) >= floor
    BY <1>0, <2>1, LockedFloorRaises
  <2>3. LockOf(top) \in Int /\ LockedFloor(top, floor) >= LockOf(top)
    BY <1>0, <2>1, LockReached
  <2> QED BY <1>0, <2>2, <2>3, LadderAssumption
<1>6. /\ o.samples = s /\ o.mcap = filt /\ o.profit = filt - Entry
      /\ o.slProfit = Smaller(filt, raw) - Entry /\ o.rawPnl = raw - Entry
      /\ o.peak = top /\ o.floor = LockedFloor(top, floor)
  BY DEF Observe, s, filt
<1> HIDE DEF top
<1> QED BY <1>0, <1>1, <1>3, <1>4, <1>5, <1>6 DEF Smaller, Entry

-----------------------------------------------------------------------------
(***************************************************************************)
(* The inductive invariant.                                                *)
(***************************************************************************)

\* A sell is queued only after the flag of the one before it was cleared, and each
\* flag that is cleared without a sell being over costs a failure.
SellCounts ==
    /\ fullSells <= fails + (IF isClosing THEN 1 ELSE 0)
    /\ partialSells <= fails + (IF pendingPartial THEN 1 ELSE 0)

\* The stop-loss streak has counted every tick at or below the locked profit, because the
\* floor a tick works with is at or above that profit.
LockCounted == open /\ ~isClosing => lockRun <= slStreak /\ lockRun < SlConfirm

\* Until a sell fails, the streak has counted nothing but a run of low ticks.
LowCounted == fails = 0 /\ ~isClosing => slStreak <= lowRun /\ slStreak < SlConfirm

LadderInv ==
    TypeOK /\ SellCounts /\ floor >= StartFloor /\ TpInOrder /\ LockCounted /\ LowCounted

LEMMA LadderInit == Init => LadderInv
<1> SUFFICES ASSUME Init PROVE LadderInv
  OBVIOUS
<1>1. samples \in Seq(Mcap \ {0}) /\ Len(samples) <= MedianTicks /\ prevRaw \in Nat
  <2> DEFINE n(b) == IF b /\ MedianTicks > 1 THEN 2 ELSE 1
  <2>1. PICK b \in BOOLEAN : samples = [i \in 1..n(b) |-> Entry] /\ prevRaw = IF b THEN Entry ELSE 0
    BY DEF Init, Opened
  <2>2. n(b) \in Nat /\ n(b) <= MedianTicks /\ Entry \in Mcap \ {0}
    BY LadderAssumption DEF Entry
  <2> HIDE DEF n
  <2>3. samples \in Seq(Mcap \ {0})
    BY <2>1, <2>2, IsASeq
  <2>4. Len(samples) = n(b)
    BY <2>1, <2>2
  <2> QED BY <2>1, <2>2, <2>3, <2>4 DEF Entry
<1>2. TypeOK
  <2>1. exit \in {"none"} \cup {Reason[r] : r \in FullExits}
    BY DEF Init
  <2>2. tps \in SUBSET TpLevels /\ tape \in {"calm", "early", "late", "moved"}
    BY DEF Init
  <2>3. /\ slStreak \in 0..U8Max /\ decayStreak \in 0..U8Max
        /\ fullSells \in 0..(MaxFails + 1) /\ partialSells \in 0..(MaxFails + 1)
        /\ held \in 0..MaxHeld /\ fails \in 0..MaxFails
        /\ lowRun \in 0..SlConfirm /\ lockRun \in 0..SlConfirm
        /\ peak \in Nat /\ floor \in Int
    BY LadderAssumption DEF Init
  <2>4. /\ open \in BOOLEAN /\ trailing \in BOOLEAN /\ ceilingHit \in BOOLEAN
        /\ isClosing \in BOOLEAN /\ pendingPartial \in BOOLEAN
    BY DEF Init
  <2> QED BY <1>1, <2>1, <2>2, <2>3, <2>4 DEF TypeOK
<1> QED
  BY <1>2, LadderAssumption
     DEF Init, LadderInv, SellCounts, TpInOrder, LockCounted, LowCounted

-----------------------------------------------------------------------------
(***************************************************************************)
(* One tick.                                                               *)
(***************************************************************************)

\* A tick that queues no full exit has found the stop loss not due.
LEMMA NoStopLoss ==
    ASSUME NEW o, NEW decaying, NEW kill, NEW dd,
           4 \notin DueRungs(o, decaying, kill, dd)
    PROVE  InSlGrace \/ ~(SlStreakAfter(o) >= SlConfirm)
BY DEF DueRungs

\* The streaks stay in their u8.
LEMMA StreakTypes ==
    ASSUME TypeOK, NEW o, NEW decaying
    PROVE  SlStreakAfter(o) \in 0..U8Max /\ DecayStreakAfter(decaying) \in 0..U8Max
BY LadderAssumption DEF TypeOK, SlStreakAfter, DecayStreakAfter, SatInc, Smaller

\* The take-profit a tick queues is a lowest one of those that are due, so that those
\* below it have fired already.
LEMMA NextTpInOrder ==
    ASSUME NEW o, o.profit \in Int, NEW par \in Params, tps \subseteq TpLevels, TpInOrder
    PROVE  /\ NextTp(o, par) \subseteq TpLevels
           /\ NextTp(o, par) = {} \/ \E n \in TpLevels : NextTp(o, par) = {n} /\ ~pendingPartial
           /\ \A n \in tps \cup NextTp(o, par) : \A m \in 1..n : m \in tps \cup NextTp(o, par)
<1> DEFINE due == {n \in TpLevels : TpDue(o, par, n)}
<1>1. CASE due = {}
  BY <1>1 DEF NextTp, TpInOrder
<1>2. CASE due # {}
  <2>1. PICK k \in due : \A m \in due : k <= m
    BY <1>2 DEF TpLevels
  <2> DEFINE n == CHOOSE n \in due : \A m \in due : n <= m
  <2>2. n \in due /\ \A m \in due : n <= m
    BY <2>1
  <2>3. NextTp(o, par) = {n}
    BY <1>2 DEF NextTp
  <2> HIDE DEF n
  <2>4. n \in TpLevels /\ ~pendingPartial /\ o.profit >= par.tp[n] /\ n \notin tps
    BY <2>2 DEF TpDue
  <2>5. \A m \in 1..n : m = n \/ m \in tps
    <3> SUFFICES ASSUME NEW m \in 1..n, m # n, m \notin tps PROVE FALSE
      OBVIOUS
    <3>1. m \in TpLevels /\ m < n
      BY <2>4 DEF TpLevels
    <3>2. par \in ParamsType /\ \A q \in 1..4 : par.tp[q] <= par.tp[q + 1]
      BY LadderAssumption
    <3>3. \A q \in TpLevels : par.tp[q] \in Int
      BY <3>2 DEF ParamsType, TpLevels
    <3>4. /\ par.tp[1] <= par.tp[2] /\ par.tp[2] <= par.tp[3]
          /\ par.tp[3] <= par.tp[4] /\ par.tp[4] <= par.tp[5]
      BY <3>2
    <3>5. par.tp[m] <= par.tp[n]
      BY <2>4, <3>1, <3>3, <3>4 DEF TpLevels
    <3>6. TpDue(o, par, m)
      BY <2>4, <3>1, <3>3, <3>5 DEF TpDue
    <3>7. n <= m
      BY <2>2, <3>1, <3>6
    <3> QED BY <2>4, <3>1, <3>7 DEF TpLevels
  <2> QED BY <2>3, <2>4, <2>5 DEF TpInOrder
<1> QED BY <1>1, <1>2

\* The floor a tick leaves is a floor, and never below the stop loss of a new position.
LEMMA UpgradedFloorType ==
    ASSUME NEW o, o.floor \in Int, o.floor >= StartFloor, o.profit \in Int, NEW par \in Params
    PROVE  /\ UpgradedFloor(o, par) \in Int /\ UpgradedFloor(o, par) >= StartFloor
           /\ Larger(o.floor, par.trailFloor) \in Int /\ Larger(o.floor, par.trailFloor) >= StartFloor
BY LadderAssumption DEF UpgradedFloor, Larger, ParamsType

LEMMA TickInv ==
    ASSUME LadderInv, NEW raw \in Mcap, Tick(raw)
    PROVE  LadderInv'
<1>0. /\ TypeOK /\ SellCounts /\ floor >= StartFloor /\ TpInOrder /\ LockCounted /\ LowCounted
      /\ open /\ ~isClosing
  BY DEF LadderInv, Tick
<1> DEFINE o == Observe(raw)
<1>1. PICK par \in Params, decaying \in BOOLEAN, kill \in KillWindows, dd \in Drawdowns :
         Ladder(o, par, decaying, kill, dd)
  BY DEF Tick
<1>2. /\ samples' = o.samples /\ peak' = o.peak /\ prevRaw' = raw /\ tape' = TapeAfter(raw)
      /\ lowRun' = CountRun(lowRun, ~InSlGrace /\ o.slProfit <= o.floor)
      /\ lockRun' = CountRun(lockRun, ~InSlGrace /\ o.slProfit <= LockOf(o.peak))
      /\ open' = open /\ held' = held /\ fails' = fails
  BY DEF Tick
<1>3. /\ o.samples \in Seq(Mcap \ {0}) /\ Len(o.samples) <= MedianTicks
      /\ o.mcap \in Nat /\ o.profit \in Int /\ o.slProfit \in Int /\ o.rawPnl \in Int
      /\ o.peak \in Nat
      /\ o.floor \in Int /\ o.floor >= StartFloor
      /\ LockOf(o.peak) \in Int /\ o.floor >= LockOf(o.peak)
  BY <1>0, ObserveFacts
<1> HIDE DEF o
<1>4. SlStreakAfter(o) \in 0..U8Max /\ DecayStreakAfter(decaying) \in 0..U8Max
  BY <1>0, StreakTypes
<1>5. decayStreak' = DecayStreakAfter(decaying)
  BY <1>1 DEF Ladder
<1>6. /\ samples' \in Seq(Mcap \ {0}) /\ Len(samples') <= MedianTicks
      /\ peak' \in Nat /\ prevRaw' \in Nat
      /\ open' \in BOOLEAN /\ held' \in 0..MaxHeld /\ fails' \in 0..MaxFails
      /\ decayStreak' \in 0..U8Max
      /\ lowRun' \in 0..SlConfirm /\ lockRun' \in 0..SlConfirm
      /\ tape' \in {"calm", "early", "late", "moved"}
  <2>1. tape' \in {"calm", "early", "late", "moved"}
    BY <1>0, <1>2 DEF TypeOK, TapeAfter
  <2>2. lowRun' \in 0..SlConfirm /\ lockRun' \in 0..SlConfirm
    BY <1>0, <1>2, LadderAssumption DEF TypeOK, CountRun, Smaller
  <2>3. prevRaw' \in Nat
    BY <1>2, LadderAssumption
  <2> QED BY <1>0, <1>2, <1>3, <1>4, <1>5, <2>1, <2>2, <2>3 DEF TypeOK
<1> DEFINE due == DueRungs(o, decaying, kill, dd)
           first == {r \in due : \A q \in due : r <= q}
<1>7. ASSUME NEW r \in first \cap FullExits, TakeFullExit(o, r)
      PROVE  LadderInv'
  <2>1. /\ floor' = o.floor /\ isClosing' = TRUE /\ fullSells' = fullSells + 1
        /\ slStreak' \in {slStreak, SlStreakAfter(o)} /\ exit' = Reason[r]
        /\ trailing' = trailing /\ tps' = tps /\ ceilingHit' = ceilingHit
        /\ pendingPartial' = pendingPartial /\ partialSells' = partialSells
    BY <1>7 DEF TakeFullExit
  <2>2. exit' \in {"none"} \cup {Reason[q] : q \in FullExits}
    BY <1>7, <2>1
  <2>3. fullSells' \in 0..(MaxFails + 1) /\ SellCounts'
    <3>1. fullSells <= fails /\ fullSells \in Nat /\ fails \in 0..MaxFails
      BY <1>0, LadderAssumption DEF TypeOK, SellCounts
    <3>2. fullSells' <= fails' + (IF isClosing' THEN 1 ELSE 0)
      BY <1>2, <2>1, <3>1
    <3>3. partialSells' <= fails' + (IF pendingPartial' THEN 1 ELSE 0)
      BY <1>0, <1>2, <2>1 DEF SellCounts
    <3> QED BY <2>1, <3>1, <3>2, <3>3, LadderAssumption DEF SellCounts
  <2>4. TypeOK'
    BY <1>0, <1>3, <1>4, <1>6, <2>1, <2>2, <2>3 DEF TypeOK
  <2>5. TpInOrder' /\ LockCounted' /\ LowCounted' /\ (floor >= StartFloor)'
    BY <1>0, <1>3, <2>1 DEF TpInOrder, LockCounted, LowCounted
  <2> QED BY <2>3, <2>4, <2>5 DEF LadderInv
<1>8. ASSUME slStreak' = SlStreakAfter(o), isClosing' = isClosing, 4 \notin due
      PROVE  LockCounted' /\ LowCounted'
  <2>1. InSlGrace \/ ~(SlStreakAfter(o) >= SlConfirm)
    BY <1>8, NoStopLoss
  <2>2. CASE InSlGrace
    BY <1>0, <1>2, <1>8, <2>2, LadderAssumption
       DEF LockCounted, LowCounted, SlStreakAfter, CountRun
  <2>3. CASE ~InSlGrace
    <3>1. /\ slStreak \in 0..U8Max /\ lowRun \in 0..SlConfirm /\ lockRun \in 0..SlConfirm
          /\ SlConfirm \in Nat \ {0} /\ U8Max \in Nat /\ SlConfirm <= U8Max
      BY <1>0, LadderAssumption DEF TypeOK
    <3>2. slStreak' = IF o.slProfit <= o.floor THEN SatInc(slStreak) ELSE 0
      BY <1>8, <2>3 DEF SlStreakAfter
    <3>3. slStreak' < SlConfirm
      BY <1>4, <1>8, <2>1, <2>3, <3>1
    <3>4. LockCounted'
      <4>1. lockRun <= slStreak /\ lockRun < SlConfirm
        BY <1>0 DEF LockCounted
      <4>2. lockRun' <= slStreak'
        BY <1>2, <1>3, <2>3, <3>1, <3>2, <4>1 DEF CountRun, SatInc, Smaller
      <4> QED BY <1>4, <1>6, <1>8, <3>1, <3>3, <4>2 DEF LockCounted
    <3>5. LowCounted'
      <4>1. CASE fails = 0
        <5>1. slStreak <= lowRun /\ slStreak < SlConfirm
          BY <1>0, <4>1 DEF LowCounted
        <5>2. slStreak' <= lowRun'
          BY <1>2, <1>3, <2>3, <3>1, <3>2, <3>3, <5>1 DEF CountRun, SatInc, Smaller
        <5> QED BY <3>3, <5>2 DEF LowCounted
      <4> QED BY <1>2, <4>1 DEF LowCounted
    <3> QED BY <3>4, <3>5
  <2> QED BY <2>2, <2>3
<1>9. CASE first \ FullExits # {} /\ TakeCeiling(o, par)
  <2>0. 5 \in due /\ \A q \in due : 5 <= q
    <3>1. PICK r \in due : r \notin FullExits /\ \A q \in due : r <= q
      BY <1>9
    <3>2. due \subseteq 1..6
      BY DEF DueRungs
    <3>3. r = 5
      BY <3>1, <3>2 DEF FullExits
    <3> QED BY <3>1, <3>3
  <2>1. 4 \notin due
    BY <2>0
  <2>2. /\ floor' = IF trailing THEN o.floor ELSE Larger(o.floor, par.trailFloor)
        /\ slStreak' = SlStreakAfter(o) /\ trailing' = TRUE /\ ceilingHit' = TRUE
        /\ pendingPartial' = TRUE /\ partialSells' = partialSells + 1
        /\ tps' = tps /\ isClosing' = isClosing /\ fullSells' = fullSells /\ exit' = exit
    BY <1>9 DEF TakeCeiling
  <2>3. ~pendingPartial
    BY <2>0 DEF DueRungs
  <2>4. floor' \in Int /\ floor' >= StartFloor
    BY <1>3, <2>2, UpgradedFloorType
  <2>5. partialSells' \in 0..(MaxFails + 1) /\ SellCounts'
    <3>1. partialSells <= fails /\ partialSells \in Nat /\ fails \in 0..MaxFails
      BY <1>0, <2>3, LadderAssumption DEF TypeOK, SellCounts
    <3>2. partialSells' <= fails' + (IF pendingPartial' THEN 1 ELSE 0)
      BY <1>2, <2>2, <3>1
    <3> QED BY <1>0, <1>2, <2>2, <3>1, <3>2, LadderAssumption DEF SellCounts
  <2>6. TypeOK'
    BY <1>0, <1>4, <1>6, <2>2, <2>4, <2>5 DEF TypeOK
  <2> QED BY <1>0, <1>8, <2>1, <2>2, <2>4, <2>5, <2>6 DEF LadderInv, TpInOrder
<1>10. CASE due = {} /\ TakeProfit(o, par)
  <2> DEFINE new == NextTp(o, par)
  <2>1. /\ floor' = UpgradedFloor(o, par) /\ slStreak' = SlStreakAfter(o)
        /\ trailing' = (trailing \/ o.profit >= par.activate)
        /\ tps' = tps \cup new
        /\ pendingPartial' = (pendingPartial \/ new # {})
        /\ partialSells' = partialSells + Cardinality(new)
        /\ ceilingHit' = ceilingHit /\ isClosing' = isClosing
        /\ fullSells' = fullSells /\ exit' = exit
    BY <1>10 DEF TakeProfit
  <2>2. /\ new \subseteq TpLevels
        /\ new = {} \/ \E n \in TpLevels : new = {n} /\ ~pendingPartial
        /\ \A n \in tps \cup new : \A m \in 1..n : m \in tps \cup new
    BY <1>0, <1>3, NextTpInOrder DEF TypeOK
  <2> HIDE DEF new
  <2>3. floor' \in Int /\ floor' >= StartFloor
    BY <1>3, <2>1, UpgradedFloorType
  <2>4. /\ pendingPartial' \in BOOLEAN /\ trailing' \in BOOLEAN
        /\ new = {} => pendingPartial' = pendingPartial
        /\ new # {} => pendingPartial' = TRUE /\ pendingPartial = FALSE
    BY <1>0, <2>1, <2>2 DEF TypeOK
  <2>5. Cardinality(new) \in {0, 1} /\ (Cardinality(new) = 1 => new # {})
    BY <2>2, FS_Singleton, FS_EmptySet
  <2>6. partialSells' \in 0..(MaxFails + 1) /\ SellCounts'
    <3>1. partialSells \in 0..(MaxFails + 1) /\ fails \in 0..MaxFails
      BY <1>0 DEF TypeOK
    <3>2. CASE new = {}
      BY <1>0, <1>2, <2>1, <2>4, <2>5, <3>1, <3>2 DEF SellCounts
    <3>3. CASE new # {}
      <4>1. partialSells <= fails
        BY <1>0, <2>4, <3>1, <3>3 DEF SellCounts
      <4>2. partialSells' <= fails' + (IF pendingPartial' THEN 1 ELSE 0)
        BY <1>2, <2>1, <2>4, <2>5, <3>1, <3>3, <4>1
      <4> QED BY <1>0, <1>2, <2>1, <2>5, <3>1, <4>1, <4>2, LadderAssumption DEF SellCounts
    <3> QED BY <3>2, <3>3
  <2>7. tps' \in SUBSET TpLevels /\ TpInOrder'
    BY <1>0, <2>1, <2>2 DEF TypeOK, TpInOrder
  <2>8. TypeOK'
    BY <1>0, <1>4, <1>6, <2>1, <2>3, <2>4, <2>6, <2>7 DEF TypeOK
  <2> QED BY <1>8, <1>10, <2>1, <2>3, <2>6, <2>7, <2>8 DEF LadderInv
<1> QED BY <1>1, <1>7, <1>9, <1>10 DEF Ladder

-----------------------------------------------------------------------------
(***************************************************************************)
(* The other steps, and the theorems.                                      *)
(***************************************************************************)

\* A sell that hands the row back: the failure pays for the flag that is cleared.
LEMMA HandBackInv ==
    ASSUME LadderInv, HandBack,
           \/ fullSells > 0 /\ fullSells' = fullSells - 1 /\ partialSells' = partialSells
           \/ partialSells > 0 /\ partialSells' = partialSells - 1 /\ fullSells' = fullSells
    PROVE  LadderInv'
<1>0. /\ TypeOK /\ SellCounts /\ floor >= StartFloor /\ TpInOrder
      /\ fails' = fails + 1 /\ fails < MaxFails /\ isClosing' = FALSE /\ pendingPartial' = FALSE
      /\ lockRun' = 0
      /\ UNCHANGED <<open, samples, prevRaw, peak, floor, trailing, tps, ceilingHit,
                     slStreak, decayStreak, held, exit, lowRun, tape>>
  BY DEF LadderInv, HandBack, memory, levels, streaks
<1>1. /\ fullSells \in 0..(MaxFails + 1) /\ partialSells \in 0..(MaxFails + 1)
      /\ fails \in 0..MaxFails /\ MaxFails \in Nat
      /\ fullSells <= fails + 1 /\ partialSells <= fails + 1
  BY <1>0, LadderAssumption DEF TypeOK, SellCounts
<1>2. /\ fullSells' \in 0..(MaxFails + 1) /\ partialSells' \in 0..(MaxFails + 1)
      /\ fails' \in 0..MaxFails
      /\ fullSells' <= fails' /\ partialSells' <= fails'
  BY <1>0, <1>1
<1>3. SellCounts'
  BY <1>0, <1>2 DEF SellCounts
<1>4. TypeOK'
  <2>1. lockRun' \in 0..SlConfirm
    BY <1>0, LadderAssumption
  <2> QED BY <1>0, <1>2, <2>1 DEF TypeOK
<1>5. LockCounted' /\ LowCounted' /\ TpInOrder' /\ (floor >= StartFloor)'
  BY <1>0, <1>1, LadderAssumption DEF TypeOK, LockCounted, LowCounted, TpInOrder
<1> QED BY <1>3, <1>4, <1>5 DEF LadderInv

LEMMA LadderStep == LadderInv /\ [Next]_vars => LadderInv'
<1> SUFFICES ASSUME LadderInv, [Next]_vars PROVE LadderInv'
  OBVIOUS
<1>0. TypeOK /\ SellCounts /\ floor >= StartFloor /\ TpInOrder /\ LockCounted /\ LowCounted
  BY DEF LadderInv
<1> USE DEF memory, levels, streaks, flags, queues, hist
<1>1. ASSUME NEW raw \in Mcap, Tick(raw) PROVE LadderInv'
  BY <1>1, TickInv
<1>2. ASSUME NEW raw \in Mcap, SkippedTick(raw) PROVE LadderInv'
  <2>1. lowRun' \in 0..SlConfirm /\ tape' \in {"calm", "early", "late", "moved"}
    <3>1. lowRun' \in 0..SlConfirm
      BY <1>0, <1>2, LadderAssumption DEF SkippedTick, TypeOK, CountRun, Smaller
    <3>2. tape' = TapeAfter(raw)
      BY <1>2 DEF SkippedTick
    <3> QED BY <1>0, <3>1, <3>2 DEF TypeOK, TapeAfter
  <2>2. TypeOK'
    BY <1>0, <1>2, <2>1 DEF SkippedTick, TypeOK
  <2>3. SellCounts' /\ TpInOrder' /\ LockCounted' /\ LowCounted' /\ (floor >= StartFloor)'
    BY <1>0, <1>2 DEF SkippedTick, SellCounts, TpInOrder, LockCounted, LowCounted
  <2> QED BY <2>2, <2>3 DEF LadderInv
<1>3. CASE SecondPasses
  <2>1. TypeOK'
    BY <1>0, <1>3, LadderAssumption DEF SecondPasses, TypeOK
  <2> QED BY <1>0, <1>3, <2>1
             DEF SecondPasses, LadderInv, SellCounts, TpInOrder, LockCounted, LowCounted
<1>4. CASE FullSellDone
  <2>1. TypeOK'
    <3>1. fullSells' \in 0..(MaxFails + 1) /\ open' = FALSE
      BY <1>0, <1>4, LadderAssumption DEF FullSellDone, TypeOK
    <3> QED BY <1>0, <1>4, <3>1 DEF FullSellDone, TypeOK
  <2>2. SellCounts'
    BY <1>0, <1>4 DEF FullSellDone, TypeOK, SellCounts
  <2> QED BY <1>0, <1>4, <2>1, <2>2
             DEF FullSellDone, LadderInv, TpInOrder, LockCounted, LowCounted
<1>5. CASE FullSellFailed
  BY <1>5, HandBackInv DEF FullSellFailed
<1>6. CASE PartialExhausted
  BY <1>6, HandBackInv DEF PartialExhausted
<1>7. CASE PartialSettled
  <2>1. TypeOK'
    <3>1. partialSells' \in 0..(MaxFails + 1) /\ pendingPartial' = FALSE
      BY <1>0, <1>7, LadderAssumption DEF PartialSettled, TypeOK
    <3> QED BY <1>0, <1>7, <3>1 DEF PartialSettled, TypeOK
  <2>2. SellCounts'
    <3>1. /\ pendingPartial' = FALSE /\ partialSells' = partialSells - 1
          /\ fullSells' = fullSells /\ isClosing' = isClosing /\ fails' = fails
      BY <1>7 DEF PartialSettled
    <3>2. partialSells <= fails + 1 /\ partialSells \in Nat /\ fails \in Nat
      BY <1>0, LadderAssumption DEF TypeOK, SellCounts
    <3> QED BY <1>0, <3>1, <3>2 DEF SellCounts
  <2> QED BY <1>0, <1>7, <2>1, <2>2
             DEF PartialSettled, LadderInv, TpInOrder, LockCounted, LowCounted
<1>8. CASE UNCHANGED vars
  <2>1. TypeOK'
    BY <1>0, <1>8 DEF vars, TypeOK
  <2> QED BY <1>0, <1>8, <2>1
             DEF vars, LadderInv, SellCounts, TpInOrder, LockCounted, LowCounted
<1> QED BY <1>1, <1>2, <1>3, <1>4, <1>5, <1>6, <1>7, <1>8 DEF Next, Closed

LEMMA LadderInvariance == Spec => []LadderInv
BY LadderInit, LadderStep, PTL DEF Spec

\* Type correctness: the window keeps to exit_mcap_median_ticks and to valid samples, the
\* streaks to their u8, and at most one sell more than failed is on its way.
THEOREM TypeCorrect == Spec => []TypeOK
<1>1. LadderInv => TypeOK
  BY DEF LadderInv
<1> QED BY <1>1, LadderInvariance, PTL

\* Take-profits fire from the lowest up, under every sequence of profiles, phases, prices
\* and failed sells, as long as each profile has its levels in ascending order.
THEOREM TakeProfitsInOrder == Spec => []TpInOrder
<1>1. LadderInv => TpInOrder
  BY DEF LadderInv
<1> QED BY <1>1, LadderInvariance, PTL

\* The profit that a peak has locked is enforced: sl_confirm_ticks managed ticks at or
\* below it close the position, although the trailing activation may assign a lower floor.
THEOREM ProfitLockEnforced == Spec => []LockEnforced
<1>1. LadderInv => LockEnforced
  <2> SUFFICES ASSUME LadderInv, open, lockRun >= SlConfirm PROVE isClosing
    BY DEF LockEnforced
  <2>1. lockRun \in 0..SlConfirm /\ SlConfirm \in Nat
    BY LadderAssumption DEF LadderInv, TypeOK
  <2> QED BY <2>1 DEF LadderInv, LockCounted
<1> QED BY <1>1, LadderInvariance, PTL

\* The first rung that closes as a stop loss is the stop loss itself, and the streak it
\* has counted is a run of low ticks.
LEMMA StopLossTick ==
    ASSUME LadderInv, NEW raw \in Mcap, Tick(raw), fails = 0, isClosing', exit' = "sl"
    PROVE  lowRun' >= SlConfirm
<1>0. TypeOK /\ LowCounted /\ floor >= StartFloor /\ ~isClosing
  BY DEF LadderInv, Tick
<1> DEFINE o == Observe(raw)
<1>1. PICK par \in Params, decaying \in BOOLEAN, kill \in KillWindows, dd \in Drawdowns :
         Ladder(o, par, decaying, kill, dd)
  BY DEF Tick
<1>2. lowRun' = CountRun(lowRun, ~InSlGrace /\ o.slProfit <= o.floor)
  BY DEF Tick
<1> HIDE DEF o
<1> DEFINE due == DueRungs(o, decaying, kill, dd)
<1>3. PICK r \in due \cap FullExits : TakeFullExit(o, r)
  BY <1>0, <1>1 DEF Ladder, TakeCeiling, TakeProfit
<1>4. r = 4
  <2>1. r \in {1, 2, 3, 4, 6} /\ Reason[r] = "sl"
    BY <1>3 DEF TakeFullExit, FullExits
  <2>2. /\ Reason[1] # "sl" /\ Reason[2] # "sl" /\ Reason[3] # "sl" /\ Reason[6] # "sl"
    BY DEF Reason
  <2> QED BY <2>1, <2>2
<1>5. ~InSlGrace /\ SlStreakAfter(o) >= SlConfirm
  BY <1>3, <1>4 DEF DueRungs
<1>6. /\ slStreak \in 0..U8Max /\ lowRun \in 0..SlConfirm
      /\ SlConfirm \in Nat \ {0} /\ U8Max \in Nat
  BY <1>0, LadderAssumption DEF TypeOK
<1>7. o.slProfit <= o.floor /\ SatInc(slStreak) >= SlConfirm
  BY <1>5, <1>6 DEF SlStreakAfter
<1>8. lowRun + 1 >= SlConfirm
  BY <1>0, <1>6, <1>7 DEF LowCounted, SatInc, Smaller
<1> QED BY <1>2, <1>5, <1>6, <1>7, <1>8 DEF CountRun, Smaller

\* Until a sell fails, a stop loss is sold only after sl_confirm_ticks ticks in a row at
\* or below the floor, whatever the phases, the staircase and the grace did meanwhile.
THEOREM StopLossConfirmed == Spec => SlConfirmed
<1> DEFINE A == fails = 0 /\ ~isClosing /\ isClosing' /\ exit' = "sl" => lowRun' >= SlConfirm
<1>1. LadderInv /\ [Next]_vars => [A]_vars
  <2> SUFFICES ASSUME LadderInv, Next, fails = 0, ~isClosing, isClosing', exit' = "sl"
               PROVE  lowRun' >= SlConfirm
    OBVIOUS
  <2>1. ASSUME NEW raw \in Mcap, Tick(raw) PROVE lowRun' >= SlConfirm
    BY <2>1, StopLossTick
  <2>2. \E raw \in Mcap : Tick(raw)
    BY DEF Next, SkippedTick, SecondPasses, FullSellDone, FullSellFailed, PartialSettled,
           PartialExhausted, HandBack, Closed, vars, flags
  <2> QED BY <2>1, <2>2
<1> QED BY <1>1, LadderInvariance, PTL DEF Spec, SlConfirmed

-----------------------------------------------------------------------------
(***************************************************************************)
(* A single odd tick.                                                      *)
(***************************************************************************)

\* The window shows the entry but for one sample, which is one of three at least.
Steady(s, odd) ==
    /\ \A i \in DOMAIN s \ {odd} : s[i] = Entry
    /\ Len(s) >= 3 \/ odd \notin DOMAIN s

\* While at most one tick has left the entry level, and that one found two samples in the
\* window, the position is as it was opened, but for a stop-loss streak of one tick.
GlitchInv ==
    tape \in {"calm", "late"} =>
        /\ \E odd \in Int : Steady(samples, odd) /\ (tape = "calm" => odd \notin DOMAIN samples)
        /\ peak = 0 /\ floor = StartFloor /\ ~trailing
        /\ slStreak <= IF tape = "calm" THEN 0 ELSE 1
        /\ exit \notin {"sl", "trailing"}

\* What a push does to a steady window: the entry keeps it steady, and one odd sample that
\* finds two others keeps it steady too.
LEMMA PushSteady ==
    ASSUME TypeOK, NEW raw \in Mcap, NEW odd \in Int, Steady(samples, odd),
           raw # Entry => odd \notin DOMAIN samples /\ Len(samples) >= 2
    PROVE  \E k \in Int : /\ Steady(PushExitMcapTick(raw), k)
                          /\ raw = Entry /\ odd \notin DOMAIN samples
                                => k \notin DOMAIN PushExitMcapTick(raw)
<1> DEFINE s == PushExitMcapTick(raw)
           all == Append(samples, raw)
           n == Len(samples)
<1>0. samples \in Seq(Nat) /\ n \in Nat /\ n <= MedianTicks /\ DOMAIN samples = 1..n
  <2>1. Mcap \ {0} \subseteq Nat
    BY LadderAssumption
  <2> QED BY <2>1, SeqMonotonic DEF TypeOK
<1>1. CASE ~Valid(raw)
  <2>1. s = samples
    BY <1>1 DEF PushExitMcapTick
  <2> QED BY <2>1
<1>2. CASE Valid(raw)
  <2>0. raw \in Nat /\ MedianTicks \in Nat /\ MedianTicks >= 3
    BY LadderAssumption, CalmAssumption
  <2>1. /\ all \in Seq(Nat) /\ Len(all) = n + 1 /\ DOMAIN all = 1..(n + 1)
        /\ \A i \in 1..n : all[i] = samples[i]
        /\ all[n + 1] = raw
    BY <1>0, <2>0
  <2>2. s = IF n + 1 > MedianTicks THEN Tail(all) ELSE all
    BY <1>2, <2>1 DEF PushExitMcapTick
  <2> HIDE DEF all, s
  \* The odd sample after the push, before the window is cut.
  <2> DEFINE k == IF raw = Entry THEN IF odd \in 1..n THEN odd ELSE 0 ELSE n + 1
  <2>3. k \in Int /\ (odd \notin 1..n /\ raw = Entry => k = 0)
    BY <1>0
  <2>4. \A i \in 1..(n + 1) : i # k => all[i] = Entry
    <3>1. \A i \in 1..n : i # odd => samples[i] = Entry
      BY <1>0 DEF Steady
    <3>2. CASE raw = Entry
      BY <1>0, <2>1, <3>1, <3>2
    <3>3. CASE raw # Entry
      BY <1>0, <2>1, <3>1, <3>3
    <3> QED BY <3>2, <3>3
  <2>5. k \in 1..(n + 1) => n + 1 >= 3
    BY <1>0 DEF Steady
  <2> HIDE DEF k, n
  <2>6. CASE ~(n + 1 > MedianTicks)
    <3>1. s = all
      BY <2>2, <2>6
    <3>2. Steady(s, k) /\ (k = 0 => k \notin DOMAIN s)
      BY <1>0, <2>1, <2>4, <2>5, <3>1 DEF Steady
    <3> QED BY <1>0, <2>3, <3>2 DEF s
  <2>7. CASE n + 1 > MedianTicks
    <3>1. s = Tail(all)
      BY <2>2, <2>7
    <3>2. Len(s) = n /\ DOMAIN s = 1..n /\ \A i \in 1..n : s[i] = all[i + 1]
      BY <1>0, <2>1, <3>1
    <3>3. n >= 3
      BY <1>0, <2>0, <2>7
    <3>4. Steady(s, k - 1) /\ (k = 0 => k - 1 \notin DOMAIN s)
      BY <1>0, <2>3, <2>4, <3>2, <3>3 DEF Steady
    <3> QED BY <1>0, <2>3, <3>4 DEF s
  <2> QED BY <2>6, <2>7
<1> QED BY <1>1, <1>2

\* A tick that the window absorbs observes the entry: no profit, no peak, no lock.
LEMMA CalmObservation ==
    ASSUME TypeOK, peak = 0, floor = StartFloor, NEW raw \in Mcap, NEW k \in Int,
           Steady(PushExitMcapTick(raw), k)
    PROVE  LET o == Observe(raw)
           IN  /\ o.mcap = Entry /\ o.profit = 0 /\ o.peak = 0 /\ o.floor = StartFloor
               /\ raw = Entry => o.slProfit = 0
<1> DEFINE s == PushExitMcapTick(raw)
           filt == FilteredExitMcap(s)
           top == Larger(peak, filt - Entry)
<1>0. raw \in Nat /\ StartFloor \in Int
  BY LadderAssumption
<1>1. s \in Seq(Nat)
  <2>1. samples \in Seq(Nat)
    <3>1. Mcap \ {0} \subseteq Nat
      BY LadderAssumption
    <3> QED BY <3>1, SeqMonotonic DEF TypeOK
  <2> DEFINE all == Append(samples, raw)
  <2>2. all \in Seq(Nat) /\ all # <<>>
    BY <1>0, <2>1
  <2>3. Tail(all) \in Seq(Nat)
    <3> HIDE DEF all
    <3> QED BY <2>2, HeadTailProperties
  <2>4. s \in {samples, Tail(all), all}
    BY DEF PushExitMcapTick
  <2> HIDE DEF all, s
  <2> QED BY <2>1, <2>2, <2>3, <2>4
<1>2. filt = Entry
  <2>1. (\A i \in DOMAIN s \ {k} : s[i] = Entry) /\ (Len(s) >= 3 \/ k \notin DOMAIN s)
    BY DEF Steady
  <2> HIDE DEF s
  <2> QED BY <1>1, <2>1, FilterSteady
<1>3. top = 0
  BY <1>2 DEF Larger, Entry
<1>4. LockedFloor(0, StartFloor) = StartFloor
  <2>1. \A t \in Staircase : ~(0 >= t[1])
    BY CalmAssumption, LadderAssumption
  <2>2. \/ LockedFloor(0, StartFloor) = StartFloor
        \/ \E t \in Staircase : 0 >= t[1] /\ LockedFloor(0, StartFloor) = t[2]
    BY <1>0, LockedFloorRaises
  <2> QED BY <2>1, <2>2
<1>5. LET o == Observe(raw)
      IN  /\ o.mcap = filt /\ o.profit = filt - Entry /\ o.peak = top
          /\ o.slProfit = Smaller(filt, raw) - Entry /\ o.floor = LockedFloor(top, floor)
  BY DEF Observe
<1> HIDE DEF filt, top
<1> QED BY <1>2, <1>3, <1>4, <1>5 DEF Entry, Smaller

LEMMA GlitchTick ==
    ASSUME TypeOK, floor >= StartFloor, GlitchInv, NEW raw \in Mcap, Tick(raw)
    PROVE  GlitchInv'
<1> SUFFICES ASSUME tape' \in {"calm", "late"} PROVE GlitchInv'
  BY DEF GlitchInv
<1>1. /\ tape \in {"calm", "late"} /\ tape' = TapeAfter(raw)
      /\ raw = Entry => tape' = tape
      /\ raw # Entry => tape = "calm" /\ tape' = "late" /\ Len(samples) >= 2
  BY DEF Tick, TapeAfter, TypeOK
<1>2. PICK odd \in Int : Steady(samples, odd) /\ (tape = "calm" => odd \notin DOMAIN samples)
  BY <1>1 DEF GlitchInv
<1>3. /\ peak = 0 /\ floor = StartFloor /\ ~trailing
      /\ slStreak <= (IF tape = "calm" THEN 0 ELSE 1)
      /\ exit \notin {"sl", "trailing"} /\ slStreak \in Nat
  BY <1>1 DEF GlitchInv, TypeOK
<1>4. PICK k \in Int : /\ Steady(PushExitMcapTick(raw), k)
                       /\ raw = Entry /\ odd \notin DOMAIN samples
                             => k \notin DOMAIN PushExitMcapTick(raw)
  BY <1>1, <1>2, PushSteady
<1> DEFINE o == Observe(raw)
<1>5. /\ o.mcap = Entry /\ o.profit = 0 /\ o.peak = 0 /\ o.floor = StartFloor
      /\ raw = Entry => o.slProfit = 0
  BY <1>3, <1>4, CalmObservation
<1>6. o.samples = PushExitMcapTick(raw)
  BY DEF Observe
<1>7. PICK par \in Params, decaying \in BOOLEAN, kill \in KillWindows, dd \in Drawdowns :
         Ladder(o, par, decaying, kill, dd)
  BY DEF Tick
<1>8. samples' = o.samples /\ peak' = o.peak
  BY DEF Tick
<1> HIDE DEF o
<1> DEFINE due == DueRungs(o, decaying, kill, dd)
\* The stop loss counts the odd tick, and nothing that finds the entry.
<1>9. /\ SlStreakAfter(o) <= (IF tape' = "calm" THEN 0 ELSE 1) /\ SlStreakAfter(o) \in Nat
      /\ SlStreakAfter(o) < SlConfirm
  <2>0. StartFloor \in Int /\ StartFloor < 0 /\ U8Max \in Nat /\ SlConfirm \in Nat /\ SlConfirm >= 2
    BY LadderAssumption, CalmAssumption
  <2>1. CASE raw = Entry
    <3>1. SlStreakAfter(o) = 0
      BY <1>5, <2>0, <2>1 DEF SlStreakAfter
    <3> QED BY <2>0, <3>1
  <2>2. CASE raw # Entry
    <3>1. slStreak = 0 /\ tape' = "late"
      BY <1>1, <1>3, <2>2
    <3>2. SlStreakAfter(o) \in {0, SatInc(0)}
      BY <3>1 DEF SlStreakAfter
    <3>3. SatInc(0) \in Nat /\ SatInc(0) <= 1
      BY <2>0 DEF SatInc, Smaller
    <3> QED BY <2>0, <3>1, <3>2, <3>3
  <2> QED BY <2>1, <2>2
<1>10. 4 \notin due /\ 5 \notin due /\ 6 \notin due
  <2>1. ~(SlStreakAfter(o) >= SlConfirm) /\ ~(o.mcap >= Ceiling) /\ ~TrailingDue(o, dd)
    <3>1. SlConfirm \in Nat /\ Ceiling \in Nat /\ Ceiling > 100
      BY LadderAssumption, CalmAssumption
    <3> QED BY <1>3, <1>5, <1>9, <3>1 DEF TrailingDue, Entry
  <2> QED BY <2>1 DEF DueRungs
<1> DEFINE Untouched == /\ floor' = StartFloor /\ ~trailing' /\ exit' \notin {"sl", "trailing"}
                        /\ slStreak' \in {slStreak, SlStreakAfter(o)}
<1>11. Untouched
  <2>1. ASSUME NEW r \in due \cap FullExits, TakeFullExit(o, r) PROVE Untouched
    <3>1. r \in {1, 2, 3}
      BY <1>10, <2>1 DEF FullExits
    <3>2. Reason[r] \notin {"sl", "trailing"}
      <4>1. /\ Reason[1] \notin {"sl", "trailing"} /\ Reason[2] \notin {"sl", "trailing"}
            /\ Reason[3] \notin {"sl", "trailing"}
        BY DEF Reason
      <4> QED BY <3>1, <4>1
    <3> QED BY <1>3, <1>5, <2>1, <3>2 DEF TakeFullExit
  <2>2. ~(({r \in due : \A q \in due : r <= q} \ FullExits) # {})
    <3>1. due \subseteq 1..6
      BY DEF DueRungs
    <3> QED BY <1>10, <3>1 DEF FullExits
  <2>3. CASE TakeProfit(o, par)
    <3>1. ~(o.profit >= par.activate) /\ ~(o.profit >= par.smartAt)
      BY <1>5, CalmAssumption, LadderAssumption DEF ParamsType
    <3> QED BY <1>3, <1>5, <2>3, <3>1 DEF TakeProfit, UpgradedFloor
  <2> QED BY <1>7, <2>1, <2>2, <2>3 DEF Ladder
<1>12. slStreak' <= (IF tape' = "calm" THEN 0 ELSE 1)
  BY <1>1, <1>3, <1>9, <1>11
<1>13. Steady(samples', k) /\ (tape' = "calm" => k \notin DOMAIN samples')
  BY <1>1, <1>2, <1>4, <1>6, <1>8
<1> QED BY <1>5, <1>8, <1>11, <1>12, <1>13 DEF GlitchInv, Steady

LEMMA GlitchInvariance == Spec => []GlitchInv
<1>1. Init => GlitchInv
  <2> SUFFICES ASSUME Init PROVE GlitchInv
    OBVIOUS
  <2>1. PICK n \in {1, 2} : samples = [i \in 1..n |-> Entry]
    BY DEF Init, Opened
  <2>2. Steady(samples, 0) /\ 0 \notin DOMAIN samples
    BY <2>1 DEF Steady
  <2> QED BY <2>2 DEF Init, GlitchInv
<1>2. LadderInv /\ GlitchInv /\ [Next]_vars => GlitchInv'
  <2> SUFFICES ASSUME LadderInv, GlitchInv, [Next]_vars PROVE GlitchInv'
    OBVIOUS
  <2> USE DEF memory, levels, streaks, flags, queues, hist
  <2>1. ASSUME NEW raw \in Mcap, Tick(raw) PROVE GlitchInv'
    BY <2>1, GlitchTick DEF LadderInv
  <2>2. ASSUME NEW raw \in Mcap, SkippedTick(raw) PROVE GlitchInv'
    <3>1. /\ samples' = samples /\ peak' = peak /\ floor' = floor /\ trailing' = trailing
          /\ slStreak' = slStreak /\ exit' = exit /\ tape' = TapeAfter(raw)
      BY <2>2 DEF SkippedTick
    <3>2. \/ tape' = tape
          \/ tape = "calm" /\ tape' = "late"
          \/ tape' \notin {"calm", "late"}
      BY <3>1 DEF TapeAfter, LadderInv, TypeOK
    <3>3. slStreak \in Nat
      BY LadderAssumption DEF LadderInv, TypeOK
    <3> QED BY <3>1, <3>2, <3>3 DEF GlitchInv, Steady
  <2>3. CASE SecondPasses \/ FullSellDone \/ PartialSettled \/ UNCHANGED vars
    BY <2>3 DEF SecondPasses, FullSellDone, PartialSettled, vars, GlitchInv, Steady
  <2>4. CASE FullSellFailed \/ PartialExhausted
    BY <2>4 DEF FullSellFailed, PartialExhausted, HandBack, GlitchInv, Steady
  <2> QED BY <2>1, <2>2, <2>3, <2>4 DEF Next, Closed
<1> QED BY <1>1, <1>2, LadderInvariance, PTL DEF Spec

\* The price filter does what it is for, once it has two samples: a single odd tick, high
\* or low, before or after any number of failed sells, never fires the stop loss or the
\* trailing stop.  CalmAssumption is needed: the upper median of a window of two samples is
\* the larger one.
THEOREM LateGlitchesTolerated == Spec => []LateGlitchTolerated
<1>1. GlitchInv => LateGlitchTolerated
  BY DEF GlitchInv, LateGlitchTolerated
<1> QED BY <1>1, GlitchInvariance, PTL
=============================================================================
