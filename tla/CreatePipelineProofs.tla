------------------------ MODULE CreatePipelineProofs ------------------------
(***************************************************************************)
(* Proofs about the create task, for every configuration, dev, launch,     *)
(* patch and sequence of poll samples.                                     *)
(***************************************************************************)
EXTENDS CreatePipeline, FiniteSetTheorems, WellFoundedInduction, TLAPS

-----------------------------------------------------------------------------
(***************************************************************************)
(* Helpers: least numbers, sums, recursive samples, first reasons.         *)
(***************************************************************************)

\* A set of numbers has a least one.
LEMMA LeastNat ==
    ASSUME NEW T, T \subseteq Nat, T # {}
    PROVE  \E n \in T : \A m \in T : n <= m
<1>1. IsWellFoundedOn(OpToRel(<, Nat), Nat)
  BY NatLessThanWellFounded
<1>2. PICK n \in T : \A m \in T : <<m, n>> \notin OpToRel(<, Nat)
  BY <1>1, WFMin
<1>3. \A m \in T : ~(m < n)
  BY <1>2 DEF OpToRel
<1> QED BY <1>3

\* The tape a poll opens on, and the tape after one step.
Opening(at) == [mcap |-> at.mcap, buyers |-> at.buyers, vol |-> 0, sell |-> 0]
Moved(q, step) ==
    [mcap |-> Greatest(1, q.mcap + step.mcap), buyers |-> q.buyers + step.buyers,
     vol |-> q.vol + step.buy, sell |-> q.sell + step.sell]

\* The samples of a poll satisfy the recursion that defines them: of the lengths for which
\* no such function exists there would be a least one.
LEMMA PollSamplesRec ==
    ASSUME NEW at, NEW steps, Len(steps) \in Nat
    PROVE  LET p == PollSamples(at, steps)
           IN  p = [i \in 1..Len(steps) |->
                      Moved(IF i = 1 THEN Opening(at) ELSE p[i-1], steps[i])]
<1> DEFINE Body(p, i) == Moved(IF i = 1 THEN Opening(at) ELSE p[i-1], steps[i])
           Chain(p, k) == p = [i \in 1..k |-> Body(p, i)]
           T == {k \in Nat : ~ \E p : Chain(p, k)}
<1>1. T = {}
  <2> SUFFICES ASSUME T # {} PROVE FALSE
    OBVIOUS
  <2>1. PICK k \in T : \A j \in T : k <= j
    <3> HIDE DEF Chain
    <3> QED BY LeastNat
  <2>2. k # 0
    <3>1. Chain(<<>>, 0)
      BY DEF Chain
    <3> HIDE DEF Chain
    <3> QED BY <2>1, <3>1
  <2>3. k \in Nat /\ k - 1 \in Nat /\ k - 1 \notin T
    <3> HIDE DEF Chain
    <3> QED BY <2>1, <2>2
  <2>4. PICK p : Chain(p, k - 1)
    <3> HIDE DEF Chain
    <3> QED BY <2>3
  <2> DEFINE q == [i \in 1..k |-> IF i = k THEN Body(p, k) ELSE p[i]]
  <2>5. ASSUME NEW i \in 1..k PROVE q[i] = Body(q, i)
    <3>1. CASE i = 1
      <4>1. Body(q, i) = Body(p, i)
        BY <3>1
      <4> HIDE DEF Body
      <4>2. i # k => p[i] = Body(p, i)
        BY <2>3, <2>4
      <4> QED BY <2>5, <4>1, <4>2
    <3>2. CASE i # 1
      <4>1. i - 1 \in 1..k /\ i - 1 # k
        BY <2>3, <3>2
      <4>2. q[i - 1] = p[i - 1]
        BY <4>1
      <4>3. Body(q, i) = Body(p, i)
        BY <3>2, <4>2
      <4> HIDE DEF Body
      <4>4. i # k => p[i] = Body(p, i)
        BY <2>3, <2>4
      <4> QED BY <4>3, <4>4
    <3> QED BY <3>1, <3>2
  <2>6. Chain(q, k)
    <3> HIDE DEF Body
    <3> QED BY <2>5
  <2> HIDE DEF Chain
  <2> QED BY <2>1, <2>6
<1>2. PICK p : Chain(p, Len(steps))
  <2> HIDE DEF Chain
  <2> QED BY <1>1
<1>3. PollSamples(at, steps) = CHOOSE x : Chain(x, Len(steps))
  BY DEF PollSamples, Moved, Opening
<1>4. Chain(PollSamples(at, steps), Len(steps))
  <2> HIDE DEF Chain
  <2> QED BY <1>2, <1>3
<1> QED BY <1>4

\* The heads of a crowd are a number: the recursion behind the sum has a solution, and all
\* its values are numbers.
LEMMA HeadCountType ==
    ASSUME NEW crowd, NEW S, IsFiniteSet(S), \A k \in S : crowd[k] \in Nat
    PROVE  HeadCount(crowd, S) \in Nat
<1> DEFINE Pick(s) == CHOOSE x \in s : TRUE
           Body(g, s) == IF s = {} THEN 0 ELSE crowd[Pick(s)] + g[s \ {Pick(s)}]
           Small(n) == {u \in SUBSET S : Cardinality(u) <= n}
           Sums(g, D) == g = [s \in D |-> Body(g, s)]
           T == {n \in Nat : ~ \E g : Sums(g, Small(n))}
<1>0. \A s \in SUBSET S : IsFiniteSet(s) /\ Cardinality(s) \in Nat /\ Cardinality(s) <= Cardinality(S)
  BY FS_Subset, FS_CardinalityType
<1>1. ASSUME NEW s \in SUBSET S, s # {}
      PROVE  /\ Pick(s) \in s /\ s \ {Pick(s)} \in SUBSET S
             /\ Cardinality(s \ {Pick(s)}) = Cardinality(s) - 1
  <2>1. Pick(s) \in s
    BY <1>1
  <2> HIDE DEF Pick
  <2> QED BY <1>0, <2>1, FS_RemoveElement
<1> HIDE DEF Pick
<1>2. T = {}
  <2> SUFFICES ASSUME T # {} PROVE FALSE
    OBVIOUS
  <2>1. PICK k \in T : \A j \in T : k <= j
    <3> HIDE DEF Sums
    <3> QED BY LeastNat
  <2>2. k # 0
    <3> DEFINE z == [s \in Small(0) |-> 0]
    <3>1. \A s \in Small(0) : s = {}
      BY <1>0, FS_EmptySet
    <3>2. Sums(z, Small(0))
      <4> HIDE DEF Small
      <4> QED BY <3>1
    <3> HIDE DEF Sums
    <3> QED BY <2>1, <3>2
  <2>3. k \in Nat /\ k - 1 \in Nat /\ k - 1 \notin T
    <3>1. k \in Nat
      <4> HIDE DEF Sums, Small
      <4> QED BY <2>1
    <3> HIDE DEF T
    <3> QED BY <2>1, <2>2, <3>1
  <2>4. PICK g : Sums(g, Small(k - 1))
    <3> HIDE DEF Sums
    <3> QED BY <2>3
  <2> DEFINE h == [s \in Small(k) |-> IF s \in Small(k - 1) THEN g[s] ELSE Body(g, s)]
  <2>5. \A s \in Small(k - 1) : s \in Small(k) /\ g[s] = Body(g, s)
    <3>1. Small(k - 1) \subseteq Small(k)
      BY <1>0, <2>3
    <3> HIDE DEF Small, Body
    <3> QED BY <2>4, <3>1
  <2>6. ASSUME NEW s \in Small(k) PROVE h[s] = Body(h, s)
    <3>1. h[s] = Body(g, s)
      <4> HIDE DEF Small, Body
      <4> QED BY <2>5
    <3>2. Body(h, s) = Body(g, s)
      <4>1. CASE s = {}
        BY <4>1
      <4>2. CASE s # {}
        <5> DEFINE r == s \ {Pick(s)}
        <5>1. r \in Small(k - 1)
          BY <1>0, <1>1, <2>3, <4>2
        <5>2. r \in Small(k)
          BY <2>5, <5>1
        <5> HIDE DEF Small, r
        <5>3. h[r] = g[r]
          BY <5>1, <5>2
        <5> HIDE DEF h
        <5> QED BY <4>2, <5>3 DEF r
      <4> QED BY <4>1, <4>2
    <3> QED BY <3>1, <3>2
  <2>7. Sums(h, Small(k))
    <3> HIDE DEF Body, Small
    <3> QED BY <2>6
  <2> HIDE DEF Sums
  <2> QED BY <2>1, <2>7
<1>3. Small(Cardinality(S)) = SUBSET S /\ Cardinality(S) \in Nat
  BY <1>0
<1>4. PICK g : Sums(g, SUBSET S)
  <2> HIDE DEF Sums, Small
  <2>1. \E g : Sums(g, Small(Cardinality(S)))
    BY <1>2, <1>3
  <2> QED BY <1>3, <2>1
<1> DEFINE sum == CHOOSE f : Sums(f, SUBSET S)
<1>5. HeadCount(crowd, S) = sum[S]
  BY DEF HeadCount, MapThenSumSet, MapThenFoldSet, Pick
<1>6. Sums(sum, SUBSET S)
  <2> HIDE DEF Sums
  <2> QED BY <1>4
<1> HIDE DEF sum
<1> DEFINE B == {n \in Nat : \E s \in SUBSET S : Cardinality(s) = n /\ sum[s] \notin Nat}
<1>7. B = {}
  <2> SUFFICES ASSUME B # {} PROVE FALSE
    OBVIOUS
  <2>1. PICK n \in B : \A j \in B : n <= j
    <3> HIDE DEF Sums
    <3>1. B \subseteq Nat
      OBVIOUS
    <3> HIDE DEF B
    <3> QED BY <3>1, LeastNat
  <2>2. PICK s \in SUBSET S : Cardinality(s) = n /\ sum[s] \notin Nat
    BY <2>1
  <2>3. sum[s] = Body(sum, s)
    BY <1>6
  <2>4. s # {}
    BY <2>2, <2>3
  <2> DEFINE r == s \ {Pick(s)}
  <2>5. r \in SUBSET S /\ Cardinality(r) = n - 1 /\ n \in Nat /\ n - 1 \in Nat
    BY <1>0, <1>1, <2>2, <2>4
  <2>6. sum[r] \in Nat
    <3>1. n - 1 \notin B
      <4> HIDE DEF B
      <4> QED BY <2>1, <2>5
    <3> QED BY <2>5, <3>1
  <2>7. crowd[Pick(s)] \in Nat
    BY <1>1, <2>4
  <2>8. sum[s] = crowd[Pick(s)] + sum[r]
    BY <2>3, <2>4
  <2> HIDE DEF r
  <2> QED BY <2>2, <2>6, <2>7, <2>8
<1>8. sum[S] \in Nat
  BY <1>3, <1>7
<1> QED BY <1>5, <1>8

\* The samples of a poll count buyers in numbers, and never fewer than it opened on.
LEMMA PollBuyers ==
    ASSUME NEW at, at.buyers \in Nat, NEW n \in Nat, NEW steps \in [1..n -> PollSteps],
           \A s \in PollSteps : s.buyers \in Nat
    PROVE  \A i \in 1..n : /\ PollSamples(at, steps)[i].buyers \in Nat
                           /\ PollSamples(at, steps)[i].buyers >= at.buyers
<1> DEFINE p == PollSamples(at, steps)
           B == {i \in 1..n : ~(p[i].buyers \in Nat /\ p[i].buyers >= at.buyers)}
<1>1. Len(steps) = n
  OBVIOUS
<1>2. ASSUME NEW i \in 1..n
      PROVE  p[i].buyers = IF i = 1 THEN at.buyers + steps[i].buyers
                           ELSE p[i-1].buyers + steps[i].buyers
  <2>1. p[i] = Moved(IF i = 1 THEN Opening(at) ELSE p[i-1], steps[i])
    <3>1. p = [k \in 1..n |-> Moved(IF k = 1 THEN Opening(at) ELSE p[k-1], steps[k])]
      <4>1. Len(steps) \in Nat
        BY <1>1
      <4>2. p = [k \in 1..Len(steps) |-> Moved(IF k = 1 THEN Opening(at) ELSE p[k-1], steps[k])]
        BY <4>1, PollSamplesRec
      <4> HIDE DEF p
      <4> QED BY <1>1, <4>2
    <3> HIDE DEF p
    <3> QED BY <3>1, Zenon
  <2> HIDE DEF p
  <2> QED BY <2>1 DEF Moved, Opening
<1> HIDE DEF p
<1>3. B = {}
  <2> SUFFICES ASSUME B # {} PROVE FALSE
    OBVIOUS
  <2>1. PICK i \in B : \A j \in B : i <= j
    <3>1. B \subseteq Nat
      OBVIOUS
    <3> HIDE DEF B
    <3> QED BY <3>1, LeastNat
  <2>2. i \in 1..n /\ ~(p[i].buyers \in Nat /\ p[i].buyers >= at.buyers)
    BY <2>1
  <2>3. steps[i].buyers \in Nat
    BY <2>2
  <2>4. i # 1
    BY <1>2, <2>2, <2>3
  <2>5. i - 1 \in 1..n /\ ~(i <= i - 1)
    BY <2>2, <2>4
  <2>6. p[i-1].buyers \in Nat /\ p[i-1].buyers >= at.buyers
    BY <2>1, <2>5
  <2>7. p[i].buyers = p[i-1].buyers + steps[i].buyers
    BY <1>2, <2>2, <2>4
  <2> QED BY <2>2, <2>3, <2>6, <2>7
<1> QED BY <1>3 DEF p

\* A chain of gates that names no reason has no gate whose condition holds.
LEMMA NoReason ==
    ASSUME NEW gates, DOMAIN gates \subseteq Nat,
           \A i \in DOMAIN gates : gates[i][2] # "none",
           FirstReason(gates) = "none", NEW i \in DOMAIN gates
    PROVE  ~gates[i][1]
<1> DEFINE hit == {j \in DOMAIN gates : gates[j][1]}
<1>1. hit = {}
  <2> SUFFICES ASSUME hit # {} PROVE FALSE
    OBVIOUS
  <2>1. hit \subseteq Nat
    OBVIOUS
  <2>2. FirstReason(gates) = gates[Min(hit)][2]
    BY DEF FirstReason
  <2>3. hit \subseteq DOMAIN gates
    OBVIOUS
  <2> HIDE DEF hit
  <2>4. \E n \in hit : \A m \in hit : n <= m
    BY <2>1, LeastNat
  <2>5. Min(hit) \in hit
    BY <2>4 DEF Min
  <2> QED BY <2>2, <2>3, <2>5
<1> QED BY <1>1

\* Two lists of four gates, one after the other.
LEMMA EightGates ==
    ASSUME NEW a1, NEW a2, NEW a3, NEW a4, NEW b1, NEW b2, NEW b3, NEW b4
    PROVE  LET g == <<a1, a2, a3, a4>> \o <<b1, b2, b3, b4>>
           IN  /\ DOMAIN g = 1..8 /\ g[4] = a4 /\ g[7] = b3
               /\ \A i \in 1..8 : g[i] \in {a1, a2, a3, a4, b1, b2, b3, b4}
OBVIOUS

\* Past the live gates a spam dev is an A+ and an A+ has a smart wallet.
LEMMA GatesPassed ==
    ASSUME NEW c, NEW s, NEW f, LiveGates(c, s, f) = "none"
    PROVE  /\ ~(f.spam /\ c.spam_require_a_plus /\ s.tier # "APlus")
           /\ ~AplusRugGate(s, f)
<1> DEFINE a1 == <<c.require_momentum_good /\ ~MomentumSatisfied(c, s, f), "live_gate_momentum">>
           a2 == <<AntiRugSkips(c, f), "anti_rug">>
           a3 == <<c.minimum_tier = "APlus" /\ s.tier = "A", "live_gate_tier">>
           a4 == <<f.spam /\ c.spam_require_a_plus /\ s.tier # "APlus", "spam_dev_weak">>
           b1 == <<WeakAHardSkip(c, s, f), "weak_a_gate">>
           b2 == <<SyntheticPump(c, s, f), "weak_a_synthetic_pump">>
           b3 == <<AplusRugGate(s, f), "aplus_rug_gate">>
           b4 == <<LowVelocityA(s, f), "tier_a_low_velocity">>
           g  == <<a1, a2, a3, a4>> \o <<b1, b2, b3, b4>>
<1>1. FirstReason(g) = "none"
  BY DEF LiveGates, TierGates, ProfileGates
<1>2. \A x \in {a1, a2, a3, a4, b1, b2, b3, b4} : x[2] # "none"
  OBVIOUS
<1>3. /\ a4[1] = (f.spam /\ c.spam_require_a_plus /\ s.tier # "APlus")
      /\ b3[1] = AplusRugGate(s, f)
  OBVIOUS
<1> HIDE DEF a1, a2, a3, a4, b1, b2, b3, b4
<1>4. /\ DOMAIN g = 1..8 /\ g[4] = a4 /\ g[7] = b3
      /\ \A i \in 1..8 : g[i] \in {a1, a2, a3, a4, b1, b2, b3, b4}
  BY EightGates
<1> HIDE DEF g
<1>5. ~g[4][1] /\ ~g[7][1]
  <2>1. DOMAIN g \subseteq Nat /\ 4 \in DOMAIN g /\ 7 \in DOMAIN g
    BY <1>4
  <2>2. \A i \in DOMAIN g : g[i][2] # "none"
    BY <1>2, <1>4
  <2> QED BY <1>1, <2>1, <2>2, NoReason
<1> QED BY <1>3, <1>4, <1>5

\* A chain of gates names the reason of one of them, or none.
LEMMA ReasonNamed ==
    ASSUME NEW gates, DOMAIN gates \subseteq Nat, NEW N, \A i \in DOMAIN gates : gates[i][2] \in N
    PROVE  FirstReason(gates) \in N \cup {"none"}
<1> DEFINE hit == {j \in DOMAIN gates : gates[j][1]}
<1>1. CASE hit = {}
  BY <1>1 DEF FirstReason
<1>2. CASE hit # {}
  <2>1. FirstReason(gates) = gates[Min(hit)][2]
    BY <1>2 DEF FirstReason
  <2>2. hit \subseteq Nat /\ hit \subseteq DOMAIN gates
    OBVIOUS
  <2> HIDE DEF hit
  <2>3. \E n \in hit : \A m \in hit : n <= m
    BY <1>2, <2>2, LeastNat
  <2>4. Min(hit) \in hit
    BY <2>3 DEF Min
  <2> QED BY <2>1, <2>2, <2>4
<1> QED BY <1>1, <1>2

\* The reasons of a second look that saw a dead tape.
LookReasons == {"cont_second_look_mcap_fall", "cont_second_look_no_recovery"}

\* No gate ends the task as if it were open, had bought, or had looked twice.
LEMMA GateNames ==
    ASSUME NEW c, NEW s, NEW f
    PROVE  LiveGates(c, s, f) \notin {"open", "buy"} \cup LookReasons
<1> DEFINE a1 == <<c.require_momentum_good /\ ~MomentumSatisfied(c, s, f), "live_gate_momentum">>
           a2 == <<AntiRugSkips(c, f), "anti_rug">>
           a3 == <<c.minimum_tier = "APlus" /\ s.tier = "A", "live_gate_tier">>
           a4 == <<f.spam /\ c.spam_require_a_plus /\ s.tier # "APlus", "spam_dev_weak">>
           b1 == <<WeakAHardSkip(c, s, f), "weak_a_gate">>
           b2 == <<SyntheticPump(c, s, f), "weak_a_synthetic_pump">>
           b3 == <<AplusRugGate(s, f), "aplus_rug_gate">>
           b4 == <<LowVelocityA(s, f), "tier_a_low_velocity">>
           g  == <<a1, a2, a3, a4>> \o <<b1, b2, b3, b4>>
           N  == {"live_gate_momentum", "anti_rug", "live_gate_tier", "spam_dev_weak", "weak_a_gate",
                  "weak_a_synthetic_pump", "aplus_rug_gate", "tier_a_low_velocity"}
<1>1. LiveGates(c, s, f) = FirstReason(g)
  BY DEF LiveGates, TierGates, ProfileGates
<1>2. \A x \in {a1, a2, a3, a4, b1, b2, b3, b4} : x[2] \in N
  OBVIOUS
<1> HIDE DEF a1, a2, a3, a4, b1, b2, b3, b4
<1>3. DOMAIN g = 1..8 /\ \A i \in 1..8 : g[i] \in {a1, a2, a3, a4, b1, b2, b3, b4}
  BY EightGates
<1> HIDE DEF g, N
<1>4. FirstReason(g) \in N \cup {"none"}
  <2>1. DOMAIN g \subseteq Nat /\ \A i \in DOMAIN g : g[i][2] \in N
    BY <1>2, <1>3
  <2> QED BY <2>1, ReasonNamed
<1> QED BY <1>1, <1>4 DEF N, LookReasons

\* A fresh dev is B or skipped; any other is never B.
LEMMA ScoreTier ==
    ASSUME NEW c, NEW t, NEW f
    PROVE  /\ Score(c, t, f).tier \in {"APlus", "A", "B", "Skip"}
           /\ TierBDevEligible(c, f) => Score(c, t, f).tier \in {"B", "Skip"}
           /\ ~TierBDevEligible(c, f) => Score(c, t, f).tier \in {"APlus", "A", "Skip"}
<1>1. ASSUME NEW total, NEW items
      PROVE  /\ TierBDevEligible(c, f) => TierOf(c, f, total, items) \in {"B", "Skip"}
             /\ ~TierBDevEligible(c, f) => TierOf(c, f, total, items) \in {"APlus", "A", "Skip"}
  <2>1. TierBDevEligible(c, f) => TierOf(c, f, total, items) \in {"B", "Skip"}
    BY DEF TierOf
  <2>2. ~TierBDevEligible(c, f) => TierOf(c, f, total, items) \in {"APlus", "A", "Skip"}
    BY Zenon DEF TierOf, CapTier
  <2> QED BY <2>1, <2>2
<1>2. \E total, items : Score(c, t, f).tier = TierOf(c, f, total, items)
  BY DEF Score
<1> QED BY <1>1, <1>2

\* A poll keeps as many points as it asks for, and ends with no fewer buyers than it began.
LEMMA PollPoints ==
    ASSUME NEW at, at.buyers \in Nat, NEW n \in Nat \ {0}, NEW steps \in [1..(n + 1) -> PollSteps],
           \A s \in PollSteps : s.buyers \in Nat
    PROVE  LET p == ObservePoints(PollSamples(at, steps), n, 0)
           IN  Len(p) = n /\ Last(p).buyers \in Nat /\ Last(p).buyers >= at.buyers
<1> DEFINE seen == PollSamples(at, steps)
           X == {seen[i] : i \in 1..(n + 1)}
           p == Append(SubSeq(seen, 1, n - 1), seen[n + 1])
<1>1. ObservePoints(PollSamples(at, steps), n, 0) = p
  BY DEF ObservePoints
<1>2. seen \in Seq(X) /\ Len(seen) = n + 1
  <2>1. Len(steps) = n + 1 /\ Len(steps) \in Nat
    OBVIOUS
  <2>2. DOMAIN seen = 1..(n + 1) /\ seen = [i \in DOMAIN seen |-> seen[i]]
    <3>1. \E F : seen = [i \in 1..Len(steps) |-> F[i]]
      <4> DEFINE F == [i \in 1..Len(steps) |->
                          Moved(IF i = 1 THEN Opening(at) ELSE seen[i-1], steps[i])]
      <4>1. seen = F
        <5>1. Len(steps) \in Nat
          BY <2>1
        <5>2. seen = [i \in 1..Len(steps) |->
                        Moved(IF i = 1 THEN Opening(at) ELSE seen[i-1], steps[i])]
          BY <5>1, PollSamplesRec
        <5> HIDE DEF seen
        <5> QED BY <5>2
      <4>2. F = [i \in 1..Len(steps) |-> F[i]]
        <5> HIDE DEF seen
        <5> QED OBVIOUS
      <4> HIDE DEF F, seen
      <4> QED BY <4>1, <4>2
    <3> HIDE DEF seen
    <3> QED BY <2>1, <3>1
  <2> HIDE DEF seen
  <2>3. seen \in [1..(n + 1) -> X]
    BY <2>2
  <2> HIDE DEF X
  <2> QED BY <2>3
<1>3. seen[n + 1].buyers \in Nat /\ seen[n + 1].buyers >= at.buyers
  <2>1. n + 1 \in Nat /\ n + 1 \in 1..(n + 1)
    OBVIOUS
  <2> DEFINE m == n + 1
  <2> HIDE DEF m
  <2>2. \A i \in 1..m : seen[i].buyers \in Nat /\ seen[i].buyers >= at.buyers
    <3>1. m \in Nat /\ steps \in [1..m -> PollSteps]
      BY <2>1 DEF m
    <3> QED BY <3>1, PollBuyers
  <2> HIDE DEF seen
  <2> QED BY <2>1, <2>2 DEF m
<1> HIDE DEF seen
<1>4. seen[n + 1] \in X
  OBVIOUS
<1> HIDE DEF X
<1>5. SubSeq(seen, 1, n - 1) \in Seq(X) /\ Len(SubSeq(seen, 1, n - 1)) = n - 1
  BY <1>2
<1>6. Len(p) = n /\ p[n] = seen[n + 1]
  <2> DEFINE q == SubSeq(seen, 1, n - 1)
             e == seen[n + 1]
  <2>1. q \in Seq(X) /\ Len(q) = n - 1 /\ e \in X
    BY <1>4, <1>5
  <2> HIDE DEF q, e
  <2>2. Len(Append(q, e)) = n /\ Append(q, e)[n] = e
    BY <2>1
  <2> QED BY <2>2 DEF q, e
<1> HIDE DEF p
<1> QED BY <1>1, <1>3, <1>6 DEF Last

\* n points hold at most n - 1 upticks.
LEMMA FewUpticks ==
    ASSUME NEW p, NEW n \in Nat \ {0}, Len(p) = n
    PROVE  Upticks(p) \in Nat /\ Upticks(p) <= n - 1
<1> DEFINE U == {i \in 2..Len(p) : p[i].mcap > p[i-1].mcap}
<1>1. U \subseteq 2..n
  OBVIOUS
<1>2. Upticks(p) = Cardinality(U)
  BY DEF Upticks
<1> HIDE DEF U
<1>3. IsFiniteSet(2..n) /\ Cardinality(2..n) = IF 2 > n THEN 0 ELSE n - 2 + 1
  BY FS_Interval
<1>4. IsFiniteSet(U) /\ Cardinality(U) <= Cardinality(2..n) /\ Cardinality(U) \in Nat
  BY <1>1, <1>3, FS_Subset, FS_CardinalityType
<1> QED BY <1>2, <1>3, <1>4

\* A chain of gates names a gate only past all the gates before it.
LEMMA EarlierGatesPassed ==
    ASSUME NEW gates, DOMAIN gates \subseteq Nat, NEW i \in DOMAIN gates,
           FirstReason(gates) # "none", \A j \in DOMAIN gates : j <= i => FirstReason(gates) # gates[j][2]
    PROVE  ~gates[i][1]
<1> DEFINE hit == {j \in DOMAIN gates : gates[j][1]}
<1>1. SUFFICES ASSUME gates[i][1] PROVE FALSE
  OBVIOUS
<1>2. i \in hit /\ hit \subseteq Nat /\ hit \subseteq DOMAIN gates
  BY <1>1
<1>3. FirstReason(gates) = gates[Min(hit)][2]
  BY <1>2 DEF FirstReason
<1> HIDE DEF hit
<1>4. PICK n \in hit : \A m \in hit : n <= m
  BY <1>2, LeastNat
<1>5. Min(hit) \in hit /\ \A m \in hit : Min(hit) <= m
  BY <1>4 DEF Min
<1>6. Min(hit) \in DOMAIN gates /\ Min(hit) <= i
  BY <1>2, <1>5
<1> QED BY <1>3, <1>6

\* A poll cut for its pace or its selling, where continuation asks for new buyers, saw one.
LEMMA CutAfterBuyersSaw ==
    ASSUME NEW c, NEW b2s, NEW baseline \in Nat, NEW p, NEW aplus,
           Last(p).buyers \in Nat, Len(p) \in Nat,
           c.continuation.min_new_buyers \in Nat, c.continuation.min_new_buyers >= 1,
           EvaluateContinuation(c, b2s, baseline, p, aplus)
             \in {"cont_low_buys_per_sec", "cont_sell_absorption", "cont_b2s_worsening"}
    PROVE  Last(p).buyers > baseline
<1> DEFINE buy  == Greatest(0, Last(p).vol - p[1].vol)
           sell == Last(p).sell - p[1].sell
           now  == IF sell > 0 THEN (buy * 10) \div sell ELSE If(buy > 0, b2s)
           a1 == <<Upticks(p) < c.continuation.min_upticks /\ Last(p).mcap < p[1].mcap,
                   "cont_no_uptick">>
           a2 == <<NewBuyers(p, baseline) < c.continuation.min_new_buyers, "cont_no_new_buyers">>
           a5 == <<NewBuyers(p, baseline) * 10000 < c.continuation.min_rate * c.continuation.window,
                   "cont_low_buys_per_sec">>
           a3 == <<buy > 0 /\ sell * 100 > buy * c.continuation.max_absorption,
                   "cont_sell_absorption">>
           a4 == <<b2s > 0 /\ now * 100 < b2s * c.continuation.max_b2s_drop
                     /\ ~(aplus /\ Last(p).mcap > p[1].mcap), "cont_b2s_worsening">>
           g == <<a1, a2, a5, a3, a4>>
           N == {"cont_low_buys_per_sec", "cont_sell_absorption", "cont_b2s_worsening"}
<1>1. FirstReason(g) \in N /\ ~(Len(p) < 2)
  <2>1. EvaluateContinuation(c, b2s, baseline, p, aplus)
          = IF Len(p) < 2 THEN "cont_no_data" ELSE FirstReason(g)
    BY DEF EvaluateContinuation
  <2>2. "cont_no_data" \notin N
    OBVIOUS
  <2>3. EvaluateContinuation(c, b2s, baseline, p, aplus) \in N
    OBVIOUS
  <2> HIDE DEF g, N
  <2> QED BY <2>1, <2>2, <2>3
<1>2. /\ a1[2] = "cont_no_uptick" /\ a2[2] = "cont_no_new_buyers"
      /\ a2[1] = (NewBuyers(p, baseline) < c.continuation.min_new_buyers)
  OBVIOUS
<1> HIDE DEF a1, a2, a3, a4, a5
<1>3. DOMAIN g = 1..5 /\ g[1] = a1 /\ g[2] = a2
  OBVIOUS
<1> HIDE DEF g
<1>4. ~g[2][1]
  <2>1. DOMAIN g \subseteq Nat /\ 2 \in DOMAIN g
    BY <1>3
  <2>2. \A j \in DOMAIN g : j <= 2 => j = 1 \/ j = 2
    BY <1>3
  <2>3. \A j \in DOMAIN g : j <= 2 => FirstReason(g) # g[j][2]
    BY <1>1, <1>2, <1>3, <2>2
  <2>4. FirstReason(g) # "none"
    BY <1>1
  <2> QED BY <2>1, <2>3, <2>4, EarlierGatesPassed
<1>5. ~(NewBuyers(p, baseline) < c.continuation.min_new_buyers)
  BY <1>2, <1>3, <1>4
<1> QED BY <1>1, <1>5 DEF NewBuyers, Greatest

\* A second look that sees buyers beyond the baseline does not find the tape dead.
LEMMA SecondLookSatisfied ==
    ASSUME NEW ref, NEW baseline \in Nat, NEW p, Last(p).buyers \in Nat,
           Last(p).buyers > baseline
    PROVE  EvaluateSecondLook(ref, baseline, p) \notin LookReasons
<1> DEFINE demand == Upticks(p) >= 1 \/ NewBuyers(p, baseline) >= 1
           a1 == <<Last(p).mcap < ref /\ Last(p).mcap < p[1].mcap /\ ~demand,
                   "cont_second_look_mcap_fall">>
           a2 == <<~(Last(p).mcap > ref \/ demand), "cont_second_look_no_recovery">>
           g == <<a1, a2>>
<1>1. CASE Len(p) < 2
  BY <1>1 DEF EvaluateSecondLook, LookReasons
<1>2. CASE ~(Len(p) < 2)
  <2>1. EvaluateSecondLook(ref, baseline, p) = FirstReason(g)
    BY <1>2, Zenon DEF EvaluateSecondLook
  <2>2. NewBuyers(p, baseline) >= 1
    BY <1>2 DEF NewBuyers, Greatest
  <2>3. ~a1[1] /\ ~a2[1]
    BY <2>2
  <2> HIDE DEF a1, a2
  <2>4. {j \in DOMAIN g : g[j][1]} = {}
    BY <2>3
  <2> HIDE DEF g
  <2>5. FirstReason(g) = "none"
    BY <2>4 DEF FirstReason
  <2> QED BY <2>1, <2>5 DEF LookReasons
<1> QED BY <1>1, <1>2

\* Neither poll's verdict is mistaken for a buy.
LEMMA ContinuationNames ==
    ASSUME NEW c, NEW b2s, NEW baseline, NEW p, NEW aplus
    PROVE  EvaluateContinuation(c, b2s, baseline, p, aplus) \notin {"open", "buy"} \cup LookReasons
<1> DEFINE buy  == Greatest(0, Last(p).vol - p[1].vol)
           sell == Last(p).sell - p[1].sell
           now  == IF sell > 0 THEN (buy * 10) \div sell ELSE If(buy > 0, b2s)
           a1 == <<Upticks(p) < c.continuation.min_upticks /\ Last(p).mcap < p[1].mcap,
                   "cont_no_uptick">>
           a2 == <<NewBuyers(p, baseline) < c.continuation.min_new_buyers, "cont_no_new_buyers">>
           a5 == <<NewBuyers(p, baseline) * 10000 < c.continuation.min_rate * c.continuation.window,
                   "cont_low_buys_per_sec">>
           a3 == <<buy > 0 /\ sell * 100 > buy * c.continuation.max_absorption,
                   "cont_sell_absorption">>
           a4 == <<b2s > 0 /\ now * 100 < b2s * c.continuation.max_b2s_drop
                     /\ ~(aplus /\ Last(p).mcap > p[1].mcap), "cont_b2s_worsening">>
           g == <<a1, a2, a5, a3, a4>>
           N == {"cont_no_uptick", "cont_no_new_buyers", "cont_low_buys_per_sec", "cont_sell_absorption",
                 "cont_b2s_worsening"}
<1>1. EvaluateContinuation(c, b2s, baseline, p, aplus)
        = IF Len(p) < 2 THEN "cont_no_data" ELSE FirstReason(g)
  BY DEF EvaluateContinuation
<1>2. a1[2] \in N /\ a2[2] \in N /\ a3[2] \in N /\ a4[2] \in N /\ a5[2] \in N
  OBVIOUS
<1> HIDE DEF a1, a2, a3, a4, a5
<1>3. DOMAIN g \subseteq Nat /\ \A i \in DOMAIN g : g[i][2] \in N
  BY <1>2
<1> HIDE DEF g, N
<1>4. FirstReason(g) \in N \cup {"none"}
  BY <1>3, ReasonNamed
<1> QED BY <1>1, <1>4 DEF N, LookReasons

LEMMA SecondLookNames ==
    ASSUME NEW ref, NEW baseline, NEW p
    PROVE  EvaluateSecondLook(ref, baseline, p) \notin {"open", "buy"}
<1> DEFINE demand == Upticks(p) >= 1 \/ NewBuyers(p, baseline) >= 1
           a1 == <<Last(p).mcap < ref /\ Last(p).mcap < p[1].mcap /\ ~demand,
                   "cont_second_look_mcap_fall">>
           a2 == <<~(Last(p).mcap > ref \/ demand), "cont_second_look_no_recovery">>
           g == <<a1, a2>>
           N == {"cont_second_look_mcap_fall", "cont_second_look_no_recovery"}
<1>1. EvaluateSecondLook(ref, baseline, p) \in {"cont_second_look_no_data", FirstReason(g)}
  BY Zenon DEF EvaluateSecondLook
<1>2. a1[2] \in N /\ a2[2] \in N
  OBVIOUS
<1> HIDE DEF a1, a2
<1>3. DOMAIN g \subseteq Nat /\ \A i \in DOMAIN g : g[i][2] \in N
  BY <1>2
<1> HIDE DEF g, N
<1>4. FirstReason(g) \in N \cup {"none"}
  BY <1>3, ReasonNamed
<1> QED BY <1>1, <1>4 DEF N

-----------------------------------------------------------------------------
(***************************************************************************)
(* The inductive invariant.  What the buy will be judged by is settled     *)
(* step by step: the lane by what stage 1 learnt of the dev, then by the   *)
(* tier and the live gates; the buyers and the peak by the first poll.     *)
(***************************************************************************)

Scored == pc \in {"confirm", "recheck", "dispatch"} \/ Bought
Confirmed == pc = "dispatch" \/ Bought

\* The lane of a scored create.
InLane ==
    /\ (entry.tier = "B") = (ran.stats = "none" /\ ~ran.spam)
    /\ ran.watched => entry.tier = "B"
    /\ cfg.live /\ ran.spam /\ cfg.score.spam_require_a_plus => entry.tier = "APlus"
    /\ cfg.live /\ entry.tier = "APlus" => entry.smart >= 1

\* What the task knows of the dev at each stage; a dev without stats who is no spam dev
\* reaches the score only where the B lane is on.
LaneInv ==
    /\ pc \in {"created", "blacklist", "spam"} => ran = NoDev
    /\ pc \in {"stats", "prior", "watch"} => ran.stats = "none" /\ ~ran.watched
    /\ pc \in {"prior", "watch"} => ~ran.spam
    /\ pc = "watch" => cfg.score.tier_b.enabled
    /\ ran.watched => ran.stats = "none" /\ ~ran.spam
    /\ pc = "score" /\ ran.stats = "none" /\ ~ran.spam => cfg.score.tier_b.enabled
    /\ Scored => InLane

\* A weak entry at its peak under a gate whose polls are too short to see strong demand.
WeakPeak ==
    /\ GuardsPeak /\ PollSlices <= cfg.score.anti_parabolic.strong_upticks
    /\ entry.tier # "APlus" /\ entry.smart = 0
    /\ entry.total <= cfg.score.anti_parabolic.weak_score_max /\ entry.peak > 0
    /\ entry.current * 100 >= entry.peak * cfg.score.anti_parabolic.near_peak

\* The parabolic verdict of the first poll is carried through a recheck.
PeakInv ==
    /\ pc = "recheck" /\ WeakPeak => poll.parabolic
    /\ Confirmed => ~WeakPeak

\* Past the check on new buyers a recheck opens on more buyers than the baseline.
LookInv ==
    /\ pc = "recheck" => /\ poll.buyers \in Nat
                         /\ CutAfterBuyers => poll.buyers > entry.buyers
    /\ SecondLookBlind

\* The deferral of the A+ peak guard never happens: it asks for an A+ without smart wallets,
\* which the A+ rug gate refused before the poll.
PeakGuardIdle == ~poll.deferred

PipelineInv ==
    /\ TypeOK
    /\ cfg \in Configs /\ dev \in Devs /\ entry.buyers \in Nat
    /\ LaneInv /\ PeakInv /\ LookInv /\ PeakGuardIdle

\* The invariant holds when the first coin is created.
LEMMA InitInv == Init => PipelineInv
<1> SUFFICES ASSUME Init PROVE PipelineInv
  OBVIOUS
<1>1. dev.coins \in Nat /\ MaxLaunches \in Nat \ {0}
  BY PipelineAssumption DEF Init
<1>2. TypeOK
  <2>1. launched \in 1..MaxLaunches /\ prior \in dev.coins .. (dev.coins + launched - 1)
    BY <1>1 DEF Init
  <2>2. ran \in [spam : BOOLEAN, stats : {"none", "some"}, watched : BOOLEAN]
    BY DEF Init, NoDev
  <2>3. entry.tier = "Skip"
    BY DEF Init, NoEntry
  <2> QED BY <2>1, <2>2, <2>3 DEF Init, TypeOK
<1>3. ~Scored /\ ~Confirmed
  BY DEF Init, Scored, Confirmed, Bought
<1>4. LaneInv /\ PeakInv /\ LookInv /\ PeakGuardIdle
  BY <1>3 DEF Init, LaneInv, PeakInv, LookInv, SecondLookBlind, PeakGuardIdle, NoDev, NoPoll
<1> QED BY <1>2, <1>4 DEF Init, PipelineInv, NoEntry

\* A step that is not scored afterwards has only the dev's part of the lanes to show.
LEMMA UnscoredStep ==
    ASSUME PipelineInv, TypeOK', UNCHANGED <<cfg, dev>>, entry'.buyers \in Nat, PeakGuardIdle',
           ~Scored', outcome' \notin LookReasons,
           /\ pc' \in {"created", "blacklist", "spam"} => ran' = NoDev
           /\ pc' \in {"stats", "prior", "watch"} => ran'.stats = "none" /\ ~ran'.watched
           /\ pc' \in {"prior", "watch"} => ~ran'.spam
           /\ pc' = "watch" => cfg.score.tier_b.enabled
           /\ ran'.watched => ran'.stats = "none" /\ ~ran'.spam
           /\ pc' = "score" /\ ran'.stats = "none" /\ ~ran'.spam => cfg.score.tier_b.enabled
    PROVE  PipelineInv'
<1>1. ~Confirmed' /\ pc' # "recheck"
  BY DEF Scored, Confirmed
<1>2. LookInv'
  BY <1>1 DEF LookInv, SecondLookBlind, LookReasons
<1> QED BY <1>1, <1>2 DEF PipelineInv, LaneInv, PeakInv

\* The filters on the dev: nothing is known of it before the count of its coins.
LEMMA OnCreateStep == PipelineInv /\ OnCreate => PipelineInv'
<1> SUFFICES ASSUME PipelineInv, OnCreate PROVE PipelineInv'
  OBVIOUS
<1> USE DEF OnCreate, Goto, End, world
<1>1. TypeOK'
  BY DEF PipelineInv, TypeOK
<1>2. ~Scored'
  BY DEF Scored, Bought, PipelineInv, TypeOK
<1>3. ran' = NoDev
  BY DEF PipelineInv, LaneInv
<1> QED BY <1>1, <1>2, <1>3, UnscoredStep DEF NoDev, LookReasons, PipelineInv, TypeOK, PeakGuardIdle

LEMMA CheckBlacklistStep == PipelineInv /\ CheckBlacklist => PipelineInv'
<1> SUFFICES ASSUME PipelineInv, CheckBlacklist PROVE PipelineInv'
  OBVIOUS
<1> USE DEF CheckBlacklist, Goto, End, world
<1>1. TypeOK'
  BY DEF PipelineInv, TypeOK
<1>2. ~Scored'
  BY DEF Scored, Bought, PipelineInv, TypeOK
<1>3. ran' = NoDev
  BY DEF PipelineInv, LaneInv
<1> QED BY <1>1, <1>2, <1>3, UnscoredStep DEF NoDev, LookReasons, PipelineInv, TypeOK, PeakGuardIdle

\* The count of its coins may call it spam, and nothing else.
LEMMA CheckSpamStep == PipelineInv /\ CheckSpam => PipelineInv'
<1> SUFFICES ASSUME PipelineInv, CheckSpam PROVE PipelineInv'
  OBVIOUS
<1> USE DEF CheckSpam, Goto, world
<1>0. ran = NoDev
  BY DEF PipelineInv, LaneInv
<1>1. ran' \in [spam : BOOLEAN, stats : {"none", "some"}, watched : BOOLEAN]
      /\ ran'.stats = "none" /\ ~ran'.watched
  <2>1. \A b \in BOOLEAN :
            LET r == [ran EXCEPT !.spam = b]
            IN  /\ r \in [spam : BOOLEAN, stats : {"none", "some"}, watched : BOOLEAN]
                /\ r.stats = "none" /\ ~r.watched
    BY <1>0 DEF NoDev
  <2>2. (Least(CoinsOfDev, SpamCap + 1) > SpamCap /\ ~dev.white) \in BOOLEAN
    OBVIOUS
  <2>3. CASE ran' = ran
    BY <1>0, <2>3 DEF NoDev
  <2>4. CASE ran' = [ran EXCEPT !.spam = Least(CoinsOfDev, SpamCap + 1) > SpamCap /\ ~dev.white]
    BY <2>1, <2>2, <2>4
  <2> QED BY <2>3, <2>4
<1>2. TypeOK'
  BY <1>1 DEF PipelineInv, TypeOK
<1>3. ~Scored'
  BY DEF Scored, Bought, PipelineInv, TypeOK
<1> QED BY <1>1, <1>2, <1>3, UnscoredStep DEF LookReasons, PipelineInv, TypeOK, PeakGuardIdle

\* Stage 1 lets a dev without stats pass only where the B lane is on.
LEMMA FilterCreatorStep == PipelineInv /\ FilterCreator => PipelineInv'
<1> SUFFICES ASSUME PipelineInv, FilterCreator PROVE PipelineInv'
  OBVIOUS
<1> USE DEF Goto, End
<1>1. /\ pc = "stats" /\ outcome = "open"
      /\ ran \in [spam : BOOLEAN, stats : {"none", "some"}, watched : BOOLEAN]
      /\ ran.stats = "none" /\ ~ran.watched
  BY DEF FilterCreator, PipelineInv, LaneInv, TypeOK
<1>2. /\ UNCHANGED <<cfg, dev, prior, saved, launched, entry, poll>>
      /\ cache' \in {"empty", "none", "some"}
  BY DEF FilterCreator, PipelineInv, TypeOK
<1>3. \/ pc' = "score" /\ UNCHANGED <<ran, outcome>> /\ ran.spam
      \/ pc' = "score" /\ UNCHANGED <<ran, outcome>> /\ cfg.score.tier_b.enabled
      \/ pc' = "score" /\ UNCHANGED outcome /\ ran' = [ran EXCEPT !.stats = "some"]
      \/ pc' = "prior" /\ UNCHANGED <<ran, outcome>> /\ ~ran.spam
      \/ pc' = "ended" /\ UNCHANGED ran /\ outcome' \in {"filter_db", "filter_no_history"}
  BY DEF FilterCreator
<1>4. /\ ran' \in [spam : BOOLEAN, stats : {"none", "some"}, watched : BOOLEAN]
      /\ ~ran'.watched
      /\ pc' = "score" /\ ran'.stats = "none" /\ ~ran'.spam => cfg.score.tier_b.enabled
      /\ pc' = "prior" => ran'.stats = "none" /\ ~ran'.spam
  BY <1>1, <1>3
<1>5. TypeOK'
  BY <1>1, <1>2, <1>3, <1>4 DEF PipelineInv, TypeOK
<1>6. ~Scored' /\ pc' \notin {"created", "blacklist", "spam", "stats", "watch"}
  BY <1>1, <1>3 DEF Scored, Bought
<1>7. outcome' \notin LookReasons
  BY <1>1, <1>3 DEF LookReasons
<1>8. PeakGuardIdle' /\ entry'.buyers \in Nat
  BY <1>2 DEF PipelineInv, PeakGuardIdle
<1> QED BY <1>2, <1>4, <1>5, <1>6, <1>7, <1>8, UnscoredStep

\* Only a dev the B lane is open to is watched, and it leaves the watchlist as it came.
LEMMA CountPriorStep == PipelineInv /\ CountPrior => PipelineInv'
<1> SUFFICES ASSUME PipelineInv, CountPrior PROVE PipelineInv'
  OBVIOUS
<1> USE DEF CountPrior, Goto, End, world
<1>1. TypeOK'
  BY DEF PipelineInv, TypeOK
<1>2. ~Scored' /\ pc' \in {"watch", "ended"}
  BY DEF Scored, Bought, PipelineInv, TypeOK
<1>3. /\ ran' = ran /\ ran.stats = "none" /\ ~ran.spam /\ ~ran.watched
      /\ pc' = "watch" => cfg.score.tier_b.enabled
  BY DEF PipelineInv, LaneInv
<1> QED BY <1>1, <1>2, <1>3, UnscoredStep DEF LookReasons, PipelineInv, TypeOK, PeakGuardIdle

LEMMA WatchEndsStep == PipelineInv /\ WatchEnds => PipelineInv'
<1> SUFFICES ASSUME PipelineInv, WatchEnds PROVE PipelineInv'
  OBVIOUS
<1> USE DEF WatchEnds, Goto, End, world
<1>1. /\ ran \in [spam : BOOLEAN, stats : {"none", "some"}, watched : BOOLEAN]
      /\ ran.stats = "none" /\ ~ran.spam /\ cfg.score.tier_b.enabled /\ outcome = "open"
  BY DEF PipelineInv, LaneInv, TypeOK
<1>2. /\ ran' \in [spam : BOOLEAN, stats : {"none", "some"}, watched : BOOLEAN]
      /\ ran'.stats = "none" /\ ~ran'.spam
  BY <1>1
<1>3. TypeOK'
  BY <1>1, <1>2 DEF PipelineInv, TypeOK
<1>4. ~Scored' /\ pc' \in {"score", "ended"}
  BY <1>1 DEF Scored, Bought
<1> QED BY <1>1, <1>2, <1>3, <1>4, UnscoredStep DEF LookReasons, PipelineInv, TypeOK, PeakGuardIdle

\* Another launch starts from nothing but the coins saved before; a coin may be saved at any time.
LEMMA LaunchAgainStep == PipelineInv /\ LaunchAgain => PipelineInv'
<1> SUFFICES ASSUME PipelineInv, LaunchAgain PROVE PipelineInv'
  OBVIOUS
<1> USE DEF LaunchAgain
<1>1. dev.coins \in Nat /\ MaxLaunches \in Nat \ {0}
  BY PipelineAssumption DEF PipelineInv
<1>2. launched' \in 1..MaxLaunches /\ prior' \in dev.coins .. (dev.coins + launched' - 1)
  <2>1. launched \in 1..MaxLaunches /\ prior \in dev.coins .. (dev.coins + launched - 1)
    BY DEF PipelineInv, TypeOK
  <2>2. If(saved, 1) \in {0, 1}
    BY DEF If
  <2>3. launched' = launched + 1 /\ launched < MaxLaunches /\ prior' = prior + If(saved, 1)
    OBVIOUS
  <2> QED BY <1>1, <2>1, <2>2, <2>3
<1>3. ran' \in [spam : BOOLEAN, stats : {"none", "some"}, watched : BOOLEAN] /\ ~ran'.watched
  BY DEF NoDev
<1>4. entry'.tier = "Skip" /\ entry'.buyers = 0
  BY DEF NoEntry
<1>5. TypeOK'
  BY <1>2, <1>3, <1>4 DEF PipelineInv, TypeOK
<1>6. ~Scored' /\ pc' = "created" /\ PeakGuardIdle'
  BY DEF Scored, Bought, PeakGuardIdle, NoPoll
<1> QED BY <1>3, <1>4, <1>5, <1>6, UnscoredStep DEF LookReasons

LEMMA SaveTokenStep == PipelineInv /\ SaveToken => PipelineInv'
<1> SUFFICES ASSUME PipelineInv, SaveToken PROVE PipelineInv'
  OBVIOUS
<1> USE DEF SaveToken
<1>1. TypeOK'
  BY DEF PipelineInv, TypeOK
<1>2. /\ LaneInv' = LaneInv /\ PeakInv' = PeakInv /\ LookInv' = LookInv
      /\ PeakGuardIdle' = PeakGuardIdle
  BY DEF LaneInv, PeakInv, LookInv, SecondLookBlind, CutAfterBuyers, PeakGuardIdle, Scored,
         Confirmed, Bought, InLane, WeakPeak,
         GuardsPeak, Continues, PollSlices
<1> QED BY <1>1, <1>2 DEF PipelineInv

\* The buy is sent for what the score and the last poll have settled.
LEMMA DispatchStep == PipelineInv /\ Dispatch => PipelineInv'
<1> SUFFICES ASSUME PipelineInv, Dispatch PROVE PipelineInv'
  OBVIOUS
<1> USE DEF Dispatch, End, world
<1>1. TypeOK'
  BY DEF PipelineInv, TypeOK
<1>2. Scored /\ Confirmed /\ pc' = "ended"
  BY DEF Scored, Confirmed
<1>3. InLane' = InLane /\ WeakPeak' = WeakPeak /\ Continues' = Continues
  BY DEF InLane, WeakPeak, GuardsPeak, Continues, PollSlices
<1>4. LaneInv' /\ PeakInv'
  BY <1>2, <1>3 DEF PipelineInv, LaneInv, PeakInv
<1>5. LookInv' /\ PeakGuardIdle'
  BY <1>2, <1>3 DEF PipelineInv, LookInv, SecondLookBlind, PeakGuardIdle
<1> QED BY <1>1, <1>4, <1>5 DEF PipelineInv

\* A score that leads to the polls has settled the lane.
LEMMA ScoredInLane ==
    ASSUME PipelineInv, pc = "score", NEW launch \in Launches, NEW tape, NEW t, NEW f, NEW s,
           f = Features(launch, tape, t), s = Score(cfg.score, t, f), s.tier # "Skip",
           cfg.live => LiveGates(cfg.score, s, f) = "none"
    PROVE  /\ s.tier \in {"APlus", "A", "B"}
           /\ (s.tier = "B") = (ran.stats = "none" /\ ~ran.spam)
           /\ cfg.live /\ ran.spam /\ cfg.score.spam_require_a_plus => s.tier = "APlus"
           /\ cfg.live /\ s.tier = "APlus" => f.smart >= 1
           /\ f.smart \in Nat /\ f.buyers \in Nat
<1>1. f.spam = ran.spam /\ f.cat = Category /\ f.smart = launch.smart
  BY DEF Features, Assemble
<1>2. launch.smart \in Nat /\ dev.cat # "Fresh"
  BY PipelineAssumption DEF PipelineInv
<1>3. f.buyers = HeadCount(launch.crowd, DOMAIN launch.crowd)
  BY DEF Features, Assemble, SnapshotEarlyBuyers
<1>4. f.buyers \in Nat
  <2>1. IsFiniteSet(DOMAIN launch.crowd) /\ \A k \in DOMAIN launch.crowd : launch.crowd[k] \in Nat
    BY PipelineAssumption
  <2> QED BY <1>3, <2>1, HeadCountType
<1>5. TierBDevEligible(cfg.score, f) = (ran.stats = "none" /\ ~ran.spam)
  <2>1. ran.stats = "none" /\ ~ran.spam => cfg.score.tier_b.enabled
    BY DEF PipelineInv, LaneInv
  <2>2. cfg.score.tier_b.enabled \in BOOLEAN /\ ran.spam \in BOOLEAN
    BY PipelineAssumption DEF PipelineInv, ConfigOK, TypeOK
  <2> QED BY <1>1, <1>2, <2>1, <2>2 DEF TierBDevEligible, Category
<1>6. /\ TierBDevEligible(cfg.score, f) => s.tier \in {"B", "Skip"}
      /\ ~TierBDevEligible(cfg.score, f) => s.tier \in {"APlus", "A", "Skip"}
  BY ScoreTier
<1>7. cfg.live => /\ ~(f.spam /\ cfg.score.spam_require_a_plus /\ s.tier # "APlus")
                  /\ ~AplusRugGate(s, f)
  BY GatesPassed
<1>8. s.tier \in {"APlus", "A", "B"} /\ (s.tier = "B") = (ran.stats = "none" /\ ~ran.spam)
  BY <1>5, <1>6
<1>9. cfg.live /\ s.tier = "APlus" => f.smart >= 1
  BY <1>1, <1>2, <1>7 DEF AplusRugGate
<1> QED BY <1>1, <1>2, <1>4, <1>7, <1>8, <1>9

\* The score, the live gates and the size: a skip, or an entry in its lane.
LEMMA ScoreTokenStep == PipelineInv /\ ScoreToken => PipelineInv'
<1> SUFFICES ASSUME PipelineInv, ScoreToken PROVE PipelineInv'
  OBVIOUS
<1> USE DEF Goto, End, world
<1>0. /\ pc = "score" /\ outcome = "open" /\ UNCHANGED <<cfg, dev, world, ran, poll>>
      /\ ran.watched => ran.stats = "none" /\ ~ran.spam
  BY DEF ScoreToken, PipelineInv, TypeOK, LaneInv
<1> DEFINE Verdict(f, s, gate, cap) ==
             IF s.tier = "Skip" THEN End("score_skip") /\ UNCHANGED entry
             ELSE IF gate # "none" THEN End(gate) /\ UNCHANGED entry
             ELSE IF BuySize(s.tier, cap) = 0 THEN End("size_zero") /\ UNCHANGED entry
             ELSE /\ entry' = [tier |-> s.tier, total |-> s.total, smart |-> f.smart,
                               b2s |-> f.b2s, current |-> f.current, peak |-> f.peak,
                               buyers |-> f.buyers, weakA |-> WeakAProfile(cfg.score, s, f),
                               amount |-> BuySize(s.tier, cap)]
                  /\ Goto("confirm")
                  /\ UNCHANGED outcome
           Gate(s, f) == IF cfg.live THEN LiveGates(cfg.score, s, f) ELSE "none"
<1>1. PICK launch \in Launches :
      \E p \in {ObservePoints(launch.samples, cfg.score.slices, cfg.score.thresholds.good_low)} :
      \E t \in {Thresholds(patch) : patch \in Patches} : \E f \in {Features(launch, Finalize(p), t)} :
      \E s \in {Score(cfg.score, t, f)} : \E gate \in {Gate(s, f)}, cap \in Caps :
         Verdict(f, s, gate, cap)
  BY DEF ScoreToken
<1> HIDE DEF Verdict, Gate
<1>a. PICK p : \E t \in {Thresholds(patch) : patch \in Patches} :
      \E f \in {Features(launch, Finalize(p), t)} :
      \E s \in {Score(cfg.score, t, f)} : \E gate \in {Gate(s, f)}, cap \in Caps :
         Verdict(f, s, gate, cap)
  BY <1>1, Zenon
<1>b. PICK t : \E f \in {Features(launch, Finalize(p), t)} :
      \E s \in {Score(cfg.score, t, f)} : \E gate \in {Gate(s, f)}, cap \in Caps :
         Verdict(f, s, gate, cap)
  BY <1>a, Zenon
<1> DEFINE f == Features(launch, Finalize(p), t)
           s == Score(cfg.score, t, f)
           gate == Gate(s, f)
<1>2. PICK cap \in Caps : Verdict(f, s, gate, cap)
  BY <1>b, Zenon
<1>c. /\ f = Features(launch, Finalize(p), t) /\ s = Score(cfg.score, t, f)
      /\ gate = IF cfg.live THEN LiveGates(cfg.score, s, f) ELSE "none"
  BY DEF Gate
<1> HIDE DEF f, s, gate
<1> USE DEF Verdict
<1>3. CASE pc' = "ended" /\ UNCHANGED entry /\ outcome' \notin {"open", "buy"} \cup LookReasons
  <2>1. TypeOK'
    BY <1>0, <1>3 DEF PipelineInv, TypeOK
  <2>2. ~Scored'
    BY <1>3 DEF Scored, Bought
  <2> QED BY <1>0, <1>3, <2>1, <2>2, UnscoredStep DEF LookReasons, PipelineInv, TypeOK, PeakGuardIdle
<1>4. CASE /\ s.tier # "Skip" /\ gate = "none" /\ BuySize(s.tier, cap) # 0
           /\ entry' = [tier |-> s.tier, total |-> s.total, smart |-> f.smart,
                        b2s |-> f.b2s, current |-> f.current, peak |-> f.peak,
                        buyers |-> f.buyers, weakA |-> WeakAProfile(cfg.score, s, f),
                        amount |-> BuySize(s.tier, cap)]
           /\ pc' = "confirm" /\ UNCHANGED outcome
  <2>1. /\ s.tier \in {"APlus", "A", "B"}
        /\ (s.tier = "B") = (ran.stats = "none" /\ ~ran.spam)
        /\ cfg.live /\ ran.spam /\ cfg.score.spam_require_a_plus => s.tier = "APlus"
        /\ cfg.live /\ s.tier = "APlus" => f.smart >= 1
        /\ f.smart \in Nat /\ f.buyers \in Nat
    <3>1. cfg.live => LiveGates(cfg.score, s, f) = "none"
      BY <1>4, <1>c
    <3> QED BY <1>0, <1>4, <1>c, <3>1, ScoredInLane
  <2>2. /\ entry'.tier = s.tier /\ entry'.smart = f.smart /\ entry'.buyers = f.buyers
        /\ entry'.amount = BuySize(s.tier, cap)
    BY <1>4
  <2>3. BuySize(s.tier, cap) > 0
    <3>1. cfg.score.size[s.tier] \in Nat
      BY <2>1, PipelineAssumption DEF PipelineInv, ConfigOK
    <3>2. cap \in Nat
      BY <1>2, PipelineAssumption
    <3> QED BY <1>4, <3>1, <3>2 DEF BuySize, Least
  <2>4. TypeOK'
    BY <1>0, <1>4, <2>1, <2>2, <2>3 DEF PipelineInv, TypeOK
  <2>5. InLane'
    BY <1>0, <2>1, <2>2 DEF InLane
  <2>6. ~Confirmed' /\ pc' = "confirm"
    BY <1>0, <1>4 DEF Confirmed, Bought
  <2>7. LaneInv'
    BY <1>0, <2>5, <2>6 DEF LaneInv
  <2>8. PeakInv' /\ LookInv' /\ PeakGuardIdle'
    BY <1>0, <1>4, <2>6 DEF PipelineInv, PeakInv, LookInv, SecondLookBlind, PeakGuardIdle
  <2> QED BY <1>0, <2>1, <2>2, <2>4, <2>7, <2>8 DEF PipelineInv
<1>5. gate \notin ({"open", "buy"} \cup LookReasons) \/ gate = "none"
  <2>1. LiveGates(cfg.score, s, f) \notin {"open", "buy"} \cup LookReasons
    BY GateNames
  <2> QED BY <1>c, <2>1
<1> QED BY <1>2, <1>3, <1>4, <1>5 DEF LookReasons

\* Without a poll there is neither a continuation nor a peak to guard.
LEMMA SkipPollStep == PipelineInv /\ SkipPoll => PipelineInv'
<1> SUFFICES ASSUME PipelineInv, SkipPoll PROVE PipelineInv'
  OBVIOUS
<1> USE DEF SkipPoll, Goto, world
<1>1. TypeOK'
  BY DEF PipelineInv, TypeOK
<1>a. outcome' = "open"
  BY DEF PipelineInv, TypeOK
<1>2. InLane /\ ~Continues /\ ~GuardsPeak /\ pc' = "dispatch"
  BY DEF PipelineInv, LaneInv, Scored
<1>3. InLane' = InLane /\ GuardsPeak' = GuardsPeak /\ Continues' = Continues
  BY DEF InLane, GuardsPeak, Continues
<1>4. LaneInv'
  BY <1>2, <1>3 DEF PipelineInv, LaneInv
<1>5. PeakInv' /\ LookInv' /\ PeakGuardIdle'
  BY <1>2, <1>3, <1>a DEF PipelineInv, PeakInv, WeakPeak, LookInv, SecondLookBlind, PeakGuardIdle
<1> QED BY <1>1, <1>4, <1>5 DEF PipelineInv

\* A poll that sends the task on keeps the invariant once its verdicts agree with it.
LEMMA PollStep ==
    ASSUME PipelineInv, pc \in {"confirm", "recheck"}, UNCHANGED <<cfg, dev, world, ran, entry>>,
           PeakGuardIdle',
           \/ /\ pc' = "ended" /\ outcome' \notin {"open", "buy"}
              /\ CutAfterBuyers' => outcome' \notin LookReasons
           \/ /\ pc' = "recheck" /\ UNCHANGED outcome
              /\ WeakPeak => poll'.parabolic
              /\ poll'.buyers \in Nat /\ (CutAfterBuyers' => poll'.buyers > entry.buyers)
           \/ pc' = "dispatch" /\ UNCHANGED outcome /\ ~WeakPeak
    PROVE  PipelineInv'
<1> USE DEF world
<1>1. outcome = "open" /\ InLane
  BY DEF PipelineInv, TypeOK, LaneInv, Scored
<1>2. TypeOK'
  BY <1>1 DEF PipelineInv, TypeOK
<1>3. InLane' = InLane /\ WeakPeak' = WeakPeak
  BY DEF InLane, WeakPeak, GuardsPeak, Continues, PollSlices
<1>4. Confirmed' => pc' = "dispatch"
  BY <1>1 DEF Confirmed, Bought
<1>5. LaneInv'
  BY <1>1, <1>3 DEF PipelineInv, LaneInv
<1>6. PeakInv'
  BY <1>3, <1>4 DEF PeakInv
<1>7. LookInv'
  BY <1>1 DEF LookInv, SecondLookBlind, LookReasons
<1> QED BY <1>2, <1>5, <1>6, <1>7 DEF PipelineInv

\* The first poll: the guard never defers, a weak peak cannot look strong, and a poll cut
\* for its pace or its selling has seen new buyers.
LEMMA ConfirmPollStep == PipelineInv /\ ConfirmPoll => PipelineInv'
<1> SUFFICES ASSUME PipelineInv, ConfirmPoll PROVE PipelineInv'
  OBVIOUS
<1> DEFINE at == [mcap |-> entry.current, buyers |-> entry.buyers]
           First(p) ==
             IF Continues
             THEN EvaluateContinuation(cfg.score, entry.b2s, entry.buyers, p, entry.tier = "APlus")
             ELSE "none"
           Defer(p, first) ==
             Continues /\ PeakGuard(entry) /\ (first # "none" \/ ~ConfirmStrong(entry, p))
           Again(first) == first # "none" /\ SecondLookEligible(cfg.score, entry, first)
           Parab(p) == GuardsPeak /\ ParabolicSkips(cfg.score, entry, p)
           Ends(p, first) ==
             /\ poll' = [first |-> first, mcap |-> Last(p).mcap, buyers |-> Last(p).buyers,
                         parabolic |-> Parab(p), deferred |-> Defer(p, first)]
             /\ IF Defer(p, first) \/ Again(first) THEN Goto("recheck") /\ UNCHANGED outcome
                ELSE Settle(first, Parab(p))
<1>0. /\ pc = "confirm" /\ UNCHANGED <<cfg, dev, world, ran, entry>>
      /\ entry.buyers \in Nat /\ InLane
  BY DEF ConfirmPoll, PipelineInv, LaneInv, Scored
<1>1. PICK steps \in [1..(PollSlices + 1) -> PollSteps] :
        \E seen \in {PollSamples(at, steps)} :
        \E p \in {ObservePoints(seen, PollSlices, 0)} : \E first \in {First(p)} : Ends(p, first)
  BY DEF ConfirmPoll
<1> HIDE DEF Ends, First
<1> DEFINE p == ObservePoints(PollSamples(at, steps), PollSlices, 0)
<1>2. Ends(p, First(p))
  BY <1>1, Zenon
<1>3. PollSlices \in Nat \ {0} /\ \A s \in PollSteps : s.buyers \in Nat
  BY PipelineAssumption DEF PipelineInv, ConfigOK, PollSlices
<1>a. at.buyers = entry.buyers
  OBVIOUS
<1> HIDE DEF at
<1>4. Len(p) = PollSlices /\ Last(p).buyers \in Nat
  BY <1>0, <1>3, <1>a, PollPoints
<1> HIDE DEF p
<1>5. ~Defer(p, First(p))
  BY <1>0 DEF Continues, InLane, PeakGuard
<1>6. WeakPeak => Parab(p)
  <2> SUFFICES ASSUME WeakPeak PROVE Parab(p)
    OBVIOUS
  <2>1. Upticks(p) \in Nat /\ Upticks(p) <= PollSlices - 1
    BY <1>3, <1>4, FewUpticks
  <2>2. cfg.score.anti_parabolic.strong_upticks \in Nat
    BY PipelineAssumption DEF PipelineInv, ConfigOK
  <2>3. PollSlices <= cfg.score.anti_parabolic.strong_upticks
    BY DEF WeakPeak
  <2>4. ~(Upticks(p) >= cfg.score.anti_parabolic.strong_upticks)
    BY <1>3, <2>1, <2>2, <2>3
  <2> QED BY <2>4 DEF WeakPeak, GuardsPeak, ParabolicSkips
<1>7. First(p) \notin {"open", "buy"} \cup LookReasons
  BY ContinuationNames DEF First, LookReasons
<1>8. /\ poll'.parabolic = Parab(p) /\ poll'.deferred = Defer(p, First(p))
      /\ poll'.first = First(p) /\ poll'.buyers = Last(p).buyers
  <2> HIDE DEF Parab, Defer
  <2> QED BY <1>2 DEF Ends
<1>9. PeakGuardIdle'
  BY <1>5, <1>8 DEF PeakGuardIdle
<1>10. ASSUME CutAfterBuyers' PROVE Last(p).buyers > entry.buyers
  <2>1. /\ First(p) \in {"cont_low_buys_per_sec", "cont_sell_absorption", "cont_b2s_worsening"}
        /\ cfg.score.continuation.min_new_buyers >= 1
    BY <1>0, <1>8, <1>10 DEF CutAfterBuyers
  <2>2. First(p) = EvaluateContinuation(cfg.score, entry.b2s, entry.buyers, p, entry.tier = "APlus")
    BY <2>1 DEF First
  <2>3. cfg.score.continuation.min_new_buyers \in Nat
    BY PipelineAssumption DEF PipelineInv, ConfigOK
  <2> QED BY <1>0, <1>3, <1>4, <2>1, <2>2, <2>3, CutAfterBuyersSaw
<1>11. CASE pc' = "recheck" /\ UNCHANGED outcome
  <2> HIDE DEF Parab, Defer
  <2> QED BY <1>0, <1>4, <1>6, <1>8, <1>9, <1>10, <1>11, PollStep
<1>12. CASE Settle(First(p), Parab(p))
  <2>1. CASE pc' = "ended" /\ outcome' \notin {"open", "buy"} \cup LookReasons
    BY <1>0, <1>9, <2>1, PollStep
  <2>2. CASE pc' = "dispatch" /\ UNCHANGED outcome /\ First(p) = "none" /\ ~Parab(p)
    BY <1>0, <1>6, <1>9, <2>2, PollStep
  <2>3. Parab(p) \in BOOLEAN
    OBVIOUS
  <2> HIDE DEF Parab
  <2>4. \/ pc' = "ended" /\ outcome' \notin {"open", "buy"} \cup LookReasons
        \/ pc' = "dispatch" /\ UNCHANGED outcome /\ First(p) = "none" /\ ~Parab(p)
    BY <1>7, <1>12, <2>3 DEF Settle, End, Goto, LookReasons
  <2> QED BY <2>1, <2>2, <2>4
<1> QED BY <1>2, <1>5, <1>11, <1>12 DEF Ends, Goto

\* The recheck is a plain second look, from the tape the first poll ended on and under its
\* parabolic verdict.
LEMMA RecheckStep == PipelineInv /\ Recheck => PipelineInv'
<1> SUFFICES ASSUME PipelineInv, Recheck PROVE PipelineInv'
  OBVIOUS
<1> DEFINE n == SecondLook.recheck_slices
<1>0. /\ pc = "recheck" /\ UNCHANGED <<cfg, dev, world, ran, entry, poll>> /\ ~poll.deferred
      /\ entry.buyers \in Nat /\ poll.buyers \in Nat
      /\ CutAfterBuyers => poll.buyers > entry.buyers
  BY DEF Recheck, PipelineInv, LookInv, PeakGuardIdle
<1>1. PICK steps \in [1..(n + 1) -> PollSteps] :
        \E seen \in {PollSamples(poll, steps)} : \E p \in {ObservePoints(seen, n, 0)} :
          Settle(RecheckReason(p), poll.parabolic)
  BY DEF Recheck
<1> DEFINE p == ObservePoints(PollSamples(poll, steps), n, 0)
<1>2. Settle(RecheckReason(p), poll.parabolic)
  BY <1>1, Zenon
<1>3. n \in Nat \ {0} /\ \A s \in PollSteps : s.buyers \in Nat
  BY PipelineAssumption DEF SecondLook
<1> HIDE DEF n
<1>4. Last(p).buyers \in Nat /\ Last(p).buyers >= poll.buyers
  BY <1>0, <1>3, PollPoints
<1> HIDE DEF p
<1>5. RecheckReason(p) = EvaluateSecondLook(poll.mcap, entry.buyers, p)
  BY <1>0 DEF RecheckReason
<1>6. RecheckReason(p) \notin {"open", "buy"}
  BY <1>5, SecondLookNames
<1>7. CutAfterBuyers => RecheckReason(p) \notin LookReasons
  <2> SUFFICES ASSUME CutAfterBuyers PROVE RecheckReason(p) \notin LookReasons
    OBVIOUS
  <2>1. Last(p).buyers > entry.buyers
    BY <1>0, <1>4
  <2> QED BY <1>0, <1>4, <1>5, <2>1, SecondLookSatisfied
<1>8. PeakGuardIdle' /\ CutAfterBuyers' = CutAfterBuyers
  BY <1>0 DEF PeakGuardIdle, CutAfterBuyers
<1>9. CASE pc' = "ended" /\ outcome' \in {RecheckReason(p), "parabolic_peak_entry"}
  BY <1>0, <1>6, <1>7, <1>8, <1>9, PollStep DEF LookReasons
<1>10. CASE pc' = "dispatch" /\ UNCHANGED outcome /\ ~poll.parabolic
  <2>1. ~WeakPeak
    BY <1>0, <1>10 DEF PipelineInv, PeakInv
  <2> QED BY <1>0, <1>8, <1>10, <2>1, PollStep
<1>11. \/ pc' = "ended" /\ outcome' \in {RecheckReason(p), "parabolic_peak_entry"}
       \/ pc' = "dispatch" /\ UNCHANGED outcome /\ ~poll.parabolic
  BY <1>2 DEF Settle, End, Goto
<1> QED BY <1>9, <1>10, <1>11

\* Every step keeps the invariant.
LEMMA NextInv == PipelineInv /\ [Next]_vars => PipelineInv'
<1> SUFFICES ASSUME PipelineInv, [Next]_vars PROVE PipelineInv'
  OBVIOUS
<1>1. CASE TaskStep
  BY <1>1, OnCreateStep, CheckBlacklistStep, CheckSpamStep, FilterCreatorStep, CountPriorStep,
     WatchEndsStep, ScoreTokenStep, ConfirmPollStep, SkipPollStep, RecheckStep, DispatchStep
     DEF TaskStep
<1>2. CASE SaveToken
  BY <1>2, SaveTokenStep
<1>3. CASE LaunchAgain
  BY <1>3, LaunchAgainStep
<1>4. CASE UNCHANGED vars
  <2> USE <1>4 DEF vars, world
  <2>1. /\ TypeOK' = TypeOK /\ LaneInv' = LaneInv /\ PeakInv' = PeakInv /\ LookInv' = LookInv
        /\ PeakGuardIdle' = PeakGuardIdle
    BY DEF TypeOK, LaneInv, PeakInv, LookInv, SecondLookBlind, CutAfterBuyers, PeakGuardIdle, Scored, Confirmed, Bought, InLane,
           WeakPeak, GuardsPeak, Continues, PollSlices
  <2> QED BY <2>1 DEF PipelineInv
<1> QED BY <1>1, <1>2, <1>3, <1>4 DEF Next

-----------------------------------------------------------------------------
(***************************************************************************)
(* The theorems.                                                           *)
(***************************************************************************)

\* The invariant of every behaviour of the create task.
THEOREM Invariant == Spec => []PipelineInv
BY InitInv, NextInv, PTL DEF Spec

\* Every variable of the create task keeps its shape: a create past the score has a tier
\* and a size above zero, the coins counted as prior are those of earlier launches, and the
\* task has a verdict exactly when it has ended.
THEOREM TypeCorrect == Spec => []TypeOK
<1>1. PipelineInv => TypeOK
  BY DEF PipelineInv
<1> QED BY <1>1, Invariant, PTL

\* The lanes keep apart, whatever the configuration, the learned thresholds and the tape: a
\* dev without stats who is no spam dev is bought as B or not at all, everyone else never as
\* B; a live bot buys a spam dev only as A+ where spam_require_a_plus is on, and an A+ only
\* with a smart wallet among its buyers.
THEOREM LanesKept == Spec => []LaneLaw
<1>1. PipelineInv => LaneLaw
  BY DEF PipelineInv, LaneInv, LaneLaw, InLane, Scored
<1> QED BY <1>1, Invariant, PTL

\* A second look never refuses a create whose first poll was cut for its pace or its
\* selling, under every configuration that asks for a new buyer and for every tape: the
\* buyers of the first poll are new to the recheck too, so its verdict is known before the
\* wait starts.
THEOREM SecondLookAlwaysBlind == Spec => []SecondLookBlind
<1>1. PipelineInv => SecondLookBlind
  BY DEF PipelineInv, LookInv
<1> QED BY <1>1, Invariant, PTL

\* A poll with no more samples than the reprieve asks upticks never grants it: under such
\* counts a weak entry at its peak is never bought.
THEOREM PeakNeverReprieved == Spec => []NoPeakReprieve
<1>1. PipelineInv => NoPeakReprieve
  BY DEF PipelineInv, PeakInv, NoPeakReprieve, WeakPeak, Confirmed
<1> QED BY <1>1, Invariant, PTL

=============================================================================
