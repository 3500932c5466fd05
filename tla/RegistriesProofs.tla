-------------------------- MODULE RegistriesProofs --------------------------
(***************************************************************************)
(* Proofs about what the bot remembers of its closed trades, for any       *)
(* number of devs, wallets, closes, failed saves and restarts.             *)
(***************************************************************************)
EXTENDS Registries, FiniteSetTheorems, SequenceTheorems, TLAPS

-----------------------------------------------------------------------------
(***************************************************************************)
(* The learned thresholds.                                                 *)
(***************************************************************************)

\* Thresholds in the order the score needs.
SaneBase(b) ==
    /\ b.buyers_low \in Nat /\ b.buyers_mid \in Nat
    /\ b.smart_1plus \in Nat /\ b.smart_3plus \in Nat
    /\ 1 <= b.buyers_low /\ b.buyers_low < b.buyers_mid
    /\ 1 <= b.smart_1plus /\ b.smart_1plus < b.smart_3plus /\ b.smart_3plus <= 8

\* merge_thresholds keeps the order of any configured thresholds, and moves the buyer
\* threshold by two at most, whatever the patch has grown to.
LEMMA MergeKeepsOrder ==
    ASSUME NEW p \in PatchType, NEW D, NEW base \in [D -> Nat],
           {"buyers_low", "buyers_mid", "smart_1plus", "smart_3plus"} \subseteq D,
           SaneBase(base)
    PROVE  LET t == MergeThresholds(base, p)
           IN  SaneBase(t) /\ t.buyers_low \in (base.buyers_low - 2)..(base.buyers_low + 2)
<1> DEFINE t == MergeThresholds(base, p)
           low == base.buyers_low
           mid == base.buyers_mid
           one == base.smart_1plus
           three == base.smart_3plus
           lo == Greatest(1, low - 2)
           hi == Least(low + 2, Greatest(1, mid - 1))
           th == Least(8, Greatest(2, p.smart_3plus))
           on == IF p.smart_1plus >= 0 THEN p.smart_1plus ELSE one
<1>0. low \in Nat /\ mid \in Nat /\ one \in Nat /\ three \in Nat
  OBVIOUS
<1>1. /\ p.buyers_low \in Nat \cup {-1} /\ p.smart_3plus \in Nat \cup {-1}
      /\ p.smart_1plus \in (Nat \ {0}) \cup {-1}
  BY DEF PatchType
<1>2. 1 <= low /\ low < mid /\ 1 <= one /\ one < three /\ three <= 8
  BY DEF SaneBase
<1>3. /\ t.buyers_mid = mid
      /\ t.buyers_low = IF p.buyers_low >= 0 THEN Least(Greatest(p.buyers_low, lo), hi) ELSE low
      /\ t.smart_3plus = IF p.smart_3plus >= 0 THEN th ELSE three
      /\ t.smart_1plus = IF p.smart_3plus >= 0 THEN Least(on, Greatest(1, th - 1))
                         ELSE IF p.smart_1plus >= 0
                              THEN Least(Greatest(1, p.smart_1plus), Greatest(1, three - 1))
                              ELSE one
  BY DEF MergeThresholds
<1> HIDE DEF t, low, mid, one, three
<1>4. /\ t.buyers_low \in Nat /\ t.buyers_low \in (low - 2)..(low + 2) /\ 1 <= t.buyers_low
      /\ t.buyers_low < mid
  BY <1>0, <1>1, <1>2, <1>3 DEF Greatest, Least
<1>5. th \in 2..8
  BY <1>1 DEF Greatest, Least
<1>6. on \in Nat \ {0}
  BY <1>0, <1>1, <1>2
<1> HIDE DEF th, on
<1>7. /\ t.smart_3plus \in Nat /\ t.smart_1plus \in Nat
      /\ 1 <= t.smart_1plus /\ t.smart_1plus < t.smart_3plus /\ t.smart_3plus <= 8
  BY <1>0, <1>1, <1>2, <1>3, <1>5, <1>6 DEF Greatest, Least
<1> QED BY <1>0, <1>3, <1>4, <1>7 DEF SaneBase, t, low

\* A round of the optimiser leaves a patch.
LEMMA HeuristicsType ==
    ASSUME NEW p \in PatchType, NEW wins, NEW n, NEW helps
    PROVE  ApplyHeuristics(FeatureThresholds, p, wins, n, helps) \in PatchType
<1> DEFINE base == FeatureThresholds
           low   == IF p.buyers_low >= 0 THEN p.buyers_low ELSE base.buyers_low
           three == IF p.smart_3plus >= 0 THEN p.smart_3plus ELSE base.smart_3plus
           a == IF wins * 100 < 48 * n THEN low + 1
                ELSE IF wins * 100 > 62 * n THEN Greatest(1, low - 1) ELSE p.buyers_low
           b == IF wins * 100 < 52 * n /\ helps THEN Least(8, three + 1) ELSE p.smart_3plus
<1>1. base.buyers_low = 4 /\ base.smart_3plus = 4
  BY DEF FeatureThresholds
<1>2. low \in Nat /\ three \in Nat
  BY <1>1 DEF PatchType
<1>3. a \in Nat \cup {-1} /\ b \in Nat \cup {-1}
  <2> HIDE DEF low, three
  <2> QED BY <1>2 DEF PatchType, Greatest, Least
<1>4. ApplyHeuristics(base, p, wins, n, helps) = [p EXCEPT !.buyers_low = a, !.smart_3plus = b]
  BY DEF ApplyHeuristics, PatchType
<1> HIDE DEF a, b
<1> QED BY <1>3, <1>4 DEF PatchType

-----------------------------------------------------------------------------
(***************************************************************************)
(* The inductive invariant.                                                *)
(***************************************************************************)

\* A save never shows in the file before the rename, and until a start fails to read it the
\* file is no further than the map in memory.
FilesBehind ==
    \A r \in Registry :
        /\ file[r].ok
        /\ r \notin unread => \A k \in Keys(r) : file[r].map[k].tokens <= mem[r][k].tokens

\* A ban is waiting to be written, is lost, or has the row that its close asked for.
BanKept(i) ==
    \/ ClassifyDevBlacklist(closes[i]) = "none"
    \/ [kind |-> "ban", id |-> i] \in tasks
    \/ i \in lost
    \/ Row(closes[i]) \in blacklist

BansKept == \A i \in DOMAIN closes : BanKept(i)

RegInv == TypeOK /\ FilesBehind /\ BansKept

\* An outcome is added to a map, which stays whole and forgets nothing.
LEMMA NoteAdds ==
    ASSUME NEW r \in Registry, NEW state \in [Keys(r) -> RecordType(r)], NEW c \in CloseType
    PROVE  /\ Note(r, state, c) \in [Keys(r) -> RecordType(r)]
           /\ \A k \in Keys(r) : state[k].tokens <= Note(r, state, c)[k].tokens
<1>0. c.dev \in Devs /\ c.buyers \subseteq Wallets /\ c.pnl \in Int
  BY DEF CloseType
<1>1. CASE r = "dev"
  <2> DEFINE g == Outcome(c.pnl)
  <2>1. g \in Int
    BY DEF Outcome
  <2>2. /\ Keys(r) = Devs /\ RecordType(r) = [score : Int, tokens : Nat]
        /\ Note(r, state, c) = [state EXCEPT ![c.dev].score = @ + g, ![c.dev].tokens = @ + 1]
    BY <1>1 DEF Keys, RecordType, Note
  <2> HIDE DEF g
  <2> QED BY <1>0, <2>1, <2>2
<1>2. CASE r = "smart"
  <2>1. /\ Keys(r) = Wallets /\ RecordType(r) = [pnl : Int, tokens : Nat, wins : Nat]
        /\ Note(r, state, c) =
             [w \in Wallets |->
                IF w \in c.buyers
                THEN [pnl |-> state[w].pnl + c.pnl, tokens |-> state[w].tokens + 1,
                      wins |-> state[w].wins + If(c.pnl > 0, 1)]
                ELSE state[w]]
    BY <1>2 DEF Keys, RecordType, Note
  <2>2. If(c.pnl > 0, 1) \in Nat
    BY DEF If
  <2> QED BY <1>0, <2>1, <2>2
<1> QED BY <1>1, <1>2 DEF Registry

LEMMA EmptyType ==
    ASSUME NEW r \in Registry
    PROVE  Empty(r) \in [Keys(r) -> RecordType(r)]
BY DEF Registry, Empty, Keys, RecordType

\* A step that drops no ban task and leaves closes, rows and losses alone keeps the bans.
LEMMA BansUntouched ==
    ASSUME BansKept, UNCHANGED <<closes, blacklist, lost>>,
           \A i : [kind |-> "ban", id |-> i] \in tasks => [kind |-> "ban", id |-> i] \in tasks'
    PROVE  BansKept'
BY DEF BansKept, BanKept, ClassifyDevBlacklist, IsPermanentRugExit, Row

\* A ban task that ends by its insert leaves a row, and one that is lost is in the history.
LEMMA BanTaskEnds ==
    ASSUME TypeOK, BansKept, UNCHANGED closes, blacklist \subseteq blacklist', lost \subseteq lost',
           \A i \in DOMAIN closes :
              [kind |-> "ban", id |-> i] \in tasks =>
                 \/ [kind |-> "ban", id |-> i] \in tasks'
                 \/ i \in lost' \/ Row(closes[i]) \in blacklist'
    PROVE  BansKept'
<1> SUFFICES ASSUME NEW i \in DOMAIN closes PROVE BanKept(i)'
  BY DEF BansKept
<1>1. BanKept(i)
  BY DEF BansKept
<1>2. /\ ClassifyDevBlacklist(closes[i])' = ClassifyDevBlacklist(closes[i])
      /\ Row(closes[i])' = Row(closes[i])
  BY DEF ClassifyDevBlacklist, IsPermanentRugExit, Row
<1> QED BY <1>1, <1>2 DEF BanKept

LEMMA RegInit == Init => RegInv
<1> SUFFICES ASSUME Init PROVE RegInv
  OBVIOUS
<1>1. /\ DOMAIN mem = Registry /\ DOMAIN file = Registry
      /\ \A r \in Registry : /\ mem[r] = Empty(r)
                             /\ file[r] = [ok |-> TRUE, map |-> Empty(r)]
  BY DEF Init
<1>2. \A r \in Registry : /\ mem[r] \in [Keys(r) -> RecordType(r)]
                          /\ file[r] \in [ok : BOOLEAN, map : [Keys(r) -> RecordType(r)]]
  <2> TAKE r \in Registry
  <2>1. Empty(r) \in [Keys(r) -> RecordType(r)]
    BY EmptyType
  <2> DEFINE T == [Keys(r) -> RecordType(r)]
             e == Empty(r)
  <2>2. e \in T /\ mem[r] = e /\ file[r] = [ok |-> TRUE, map |-> e]
    BY <1>1, <2>1
  <2> HIDE DEF T, e
  <2>3. mem[r] \in T /\ file[r] \in [ok : BOOLEAN, map : T]
    BY <2>2
  <2> QED BY <2>3 DEF T
<1>3. patch \in PatchType /\ patchFile \in [ok : BOOLEAN, patch : PatchType]
  BY RegistriesAssumption DEF Init
<1>4. closes \in Seq(CloseType) /\ rounds \in Seq(Nat)
  BY DEF Init
<1>5. round = {} /\ Cardinality(round) = 0
  BY FS_EmptySet DEF Init
<1>6. now \in 1..MaxTime /\ faults \in 0..MaxFaults
  BY RegistriesAssumption DEF Init
<1>7. dirty \in [Registry -> BOOLEAN] /\ saving \subseteq {r \in Registry : dirty[r]}
  BY DEF Init
<1>8. tasks = {} /\ blacklist = {} /\ learned = {} /\ unread = {} /\ lost = {} /\ lastOpt = 0
  BY DEF Init
<1>9. TypeOK
  BY <1>1, <1>2, <1>3, <1>4, <1>5, <1>6, <1>7, <1>8 DEF TypeOK
<1>10. FilesBehind
  <2>1. \A r \in Registry : \A k \in Keys(r) : Empty(r)[k].tokens \in Nat
    BY DEF Registry, Empty, Keys
  <2> QED BY <1>1, <2>1 DEF FilesBehind
<1>11. BansKept
  <2>1. DOMAIN closes = {}
    BY DEF Init
  <2> QED BY <2>1 DEF BansKept
<1> QED BY <1>9, <1>10, <1>11 DEF RegInv

\* The steps of the tasks and the actors.
LEMMA RegistryStepsInv ==
    ASSUME RegInv, (\E c \in Closes : Close(c)) \/ TaskStep \/ RegistryStep
    PROVE  RegInv'
<1>0. TypeOK /\ FilesBehind /\ BansKept
  BY DEF RegInv
<1> USE DEF regVars, learnVars
<1>1. ASSUME NEW c \in Closes, Close(c) PROVE RegInv'
  <2> DEFINE new == [c EXCEPT !.at = now]
             n == Len(closes)
  <2>1. new \in CloseType
    <3>1. c \in CloseType /\ now \in Nat
      BY <1>0, RegistriesAssumption DEF TypeOK
    <3> QED BY <3>1 DEF CloseType
  <2>2. closes \in Seq(CloseType) /\ n \in Nat /\ DOMAIN closes = 1..n /\ closes' = Append(closes, new)
    BY <1>0, <1>1 DEF TypeOK, Close
  <2> HIDE DEF new
  <2>3. closes' \in Seq(CloseType) /\ DOMAIN closes' = 1..(n + 1)
    BY <2>1, <2>2
  <2>4. PICK kinds : /\ kinds \subseteq {"dev", "smart", "ban", "learn"}
                     /\ tasks' = tasks \cup {[kind |-> k, id |-> n + 1] : k \in kinds}
    BY <1>1 DEF Close
  <2>5. tasks' \subseteq [kind : {"dev", "smart", "ban", "learn"}, id : DOMAIN closes']
    <3>1. n + 1 \in DOMAIN closes' /\ DOMAIN closes \subseteq DOMAIN closes'
      BY <2>2, <2>3
    <3>2. tasks \subseteq [kind : {"dev", "smart", "ban", "learn"}, id : DOMAIN closes]
      BY <1>0 DEF TypeOK
    <3> HIDE DEF n
    <3> QED BY <2>4, <3>1, <3>2
  <2>6. learned' \subseteq DOMAIN closes'
    BY <1>0, <1>1, <2>2, <2>3 DEF TypeOK, Close
  <2>7. TypeOK'
    BY <1>0, <1>1, <2>2, <2>3, <2>5, <2>6 DEF TypeOK, Close
  <2>8. BansKept'
    <3> SUFFICES ASSUME NEW i \in 1..(n + 1) PROVE BanKept(i)'
      BY <2>3 DEF BansKept
    <3>1. blacklist' = blacklist /\ lost' = lost /\ tasks \subseteq tasks'
      BY <1>1 DEF Close
    <3>2. CASE i \in 1..n
      <4>1. closes'[i] = closes[i]
        BY <2>1, <2>2, <3>2
      <4>2. BanKept(i)
        BY <1>0, <2>2, <3>2 DEF BansKept
      <4> QED BY <3>1, <4>1, <4>2 DEF BanKept, ClassifyDevBlacklist, IsPermanentRugExit, Row
    <3>3. CASE i = n + 1
      <4>1. closes'[i] = new
        BY <2>1, <2>2, <3>3
      <4>2. /\ new.reason = c.reason /\ new.pnl = c.pnl
            /\ new.tick_drop = c.tick_drop /\ new.mcap_drop = c.mcap_drop
        <5>1. c \in CloseType
          BY RegistriesAssumption
        <5> QED BY <5>1 DEF new, CloseType
      <4>3. ClassifyDevBlacklist(new) = ClassifyDevBlacklist(c)
        BY <4>2 DEF ClassifyDevBlacklist, IsPermanentRugExit
      <4>4. ClassifyDevBlacklist(c) # "none" => [kind |-> "ban", id |-> n + 1] \in tasks'
        BY <1>1 DEF Close
      <4> QED BY <3>3, <4>1, <4>3, <4>4 DEF BanKept
    <3> QED BY <2>2, <3>2, <3>3
  <2> QED BY <1>0, <1>1, <2>7, <2>8 DEF RegInv, FilesBehind, Close
<1>2. ASSUME NEW t \in tasks, NoteOutcome(t) PROVE RegInv'
  <2> DEFINE r == t.kind
             c == closes[t.id]
  <2>1. r \in Registry /\ c \in CloseType /\ mem[r] \in [Keys(r) -> RecordType(r)]
    BY <1>0, <1>2 DEF TypeOK, NoteOutcome
  <2>2. /\ Note(r, mem[r], c) \in [Keys(r) -> RecordType(r)]
        /\ \A k \in Keys(r) : mem[r][k].tokens <= Note(r, mem[r], c)[k].tokens
    BY <2>1, NoteAdds
  <2>3. /\ mem' = [mem EXCEPT ![r] = Note(r, mem[r], c)] /\ tasks' \subseteq tasks
        /\ dirty' = [dirty EXCEPT ![r] = TRUE]
    BY <1>2 DEF NoteOutcome
  <2>4. /\ DOMAIN mem' = Registry
        /\ \A q \in Registry : mem'[q] = IF q = r THEN Note(r, mem[r], c) ELSE mem[q]
    BY <1>0, <2>1, <2>3 DEF TypeOK
  <2> HIDE DEF r, c
  <2>5. \A q \in Registry : /\ mem'[q] \in [Keys(q) -> RecordType(q)]
                            /\ \A k \in Keys(q) : mem[q][k].tokens <= mem'[q][k].tokens
    <3> TAKE q \in Registry
    <3>1. mem[q] \in [Keys(q) -> RecordType(q)]
      BY <1>0 DEF TypeOK
    <3>2. \A k \in Keys(q) : mem[q][k].tokens \in Nat
      BY <3>1 DEF RecordType
    <3> QED BY <2>2, <2>4, <3>1, <3>2
  <2>6. dirty' \in [Registry -> BOOLEAN] /\ saving \subseteq {q \in Registry : dirty'[q]}
    BY <1>0, <2>1, <2>3 DEF TypeOK
  <2>7. TypeOK'
    BY <1>0, <1>2, <2>3, <2>4, <2>5, <2>6 DEF TypeOK, NoteOutcome
  <2>8. FilesBehind'
    <3> SUFFICES ASSUME NEW q \in Registry
                 PROVE  /\ file'[q].ok
                        /\ q \notin unread' =>
                             \A k \in Keys(q) : file'[q].map[k].tokens <= mem'[q][k].tokens
      BY DEF FilesBehind
    <3>1. file' = file /\ unread' = unread
      BY <1>2 DEF NoteOutcome
    <3>2. \A k \in Keys(q) : /\ file[q].map[k].tokens \in Nat /\ mem[q][k].tokens \in Nat
                             /\ mem'[q][k].tokens \in Nat
      BY <1>0, <2>5 DEF TypeOK, RecordType
    <3> QED BY <1>0, <2>5, <3>1, <3>2 DEF FilesBehind
  <2>9. BansKept'
    BY <1>0, <1>2, BansUntouched DEF NoteOutcome, Registry
  <2> QED BY <2>7, <2>8, <2>9 DEF RegInv
<1>3. ASSUME NEW t \in tasks, InsertBan(t) PROVE RegInv'
  <2>1. closes[t.id] \in CloseType
    BY <1>0, <1>3 DEF TypeOK
  <2> DEFINE row == Row(closes[t.id])
  <2>2. row \in [dev : Devs, created : Nat, expires : Nat]
    BY <2>1, RegistriesAssumption DEF Row, Never, CloseType
  <2>3. blacklist' = blacklist \cup {row} /\ tasks' \subseteq tasks
    BY <1>3 DEF InsertBan
  <2>5. BansKept'
    <3>1. \A i \in DOMAIN closes :
             [kind |-> "ban", id |-> i] \in tasks =>
                \/ [kind |-> "ban", id |-> i] \in tasks'
                \/ Row(closes[i]) \in blacklist'
      <4>1. tasks' = tasks \ {t}
        BY <1>3 DEF InsertBan
      <4> SUFFICES ASSUME NEW i \in DOMAIN closes, t = [kind |-> "ban", id |-> i]
                   PROVE  Row(closes[i]) \in blacklist'
        BY <4>1
      <4>2. row = Row(closes[i])
        OBVIOUS
      <4> HIDE DEF row
      <4> QED BY <2>3, <4>2
    <3> HIDE DEF row
    <3> QED BY <1>0, <1>3, <3>1, BanTaskEnds DEF InsertBan
  <2> HIDE DEF row
  <2>4. TypeOK'
    BY <1>0, <1>3, <2>2, <2>3 DEF TypeOK, InsertBan
  <2> QED BY <1>0, <1>3, <2>4, <2>5 DEF RegInv, FilesBehind, InsertBan
<1>4. ASSUME NEW t \in tasks, LogClosedTrade(t) PROVE RegInv'
  <2>1. learned' \subseteq DOMAIN closes /\ tasks' \subseteq tasks
    BY <1>0, <1>4 DEF TypeOK, LogClosedTrade
  <2>2. TypeOK'
    BY <1>0, <1>4, <2>1 DEF TypeOK, LogClosedTrade
  <2>3. BansKept'
    BY <1>0, <1>4, BansUntouched DEF LogClosedTrade
  <2> QED BY <1>0, <1>4, <2>2, <2>3 DEF RegInv, FilesBehind, LogClosedTrade
<1>5. ASSUME NEW r \in Registry, Flush(r) PROVE RegInv'
  <2>1. saving' \subseteq {q \in Registry : dirty[q]}
    BY <1>0, <1>5 DEF TypeOK, Flush
  <2>2. TypeOK'
    BY <1>0, <1>5, <2>1 DEF TypeOK, Flush
  <2>3. BansKept'
    BY <1>0, <1>5, BansUntouched DEF Flush
  <2> QED BY <1>0, <1>5, <2>2, <2>3 DEF RegInv, FilesBehind, Flush
<1>6. ASSUME NEW r \in Registry, Rename(r) PROVE RegInv'
  <2>1. /\ file' = [file EXCEPT ![r] = [ok |-> TRUE, map |-> mem[r]]]
        /\ mem' = mem /\ unread' = unread
    BY <1>6 DEF Rename
  <2>2. /\ DOMAIN file' = Registry
        /\ \A q \in Registry : file'[q] = IF q = r THEN [ok |-> TRUE, map |-> mem[r]] ELSE file[q]
    BY <1>0, <2>1 DEF TypeOK
  <2>3. \A q \in Registry : file'[q] \in [ok : BOOLEAN, map : [Keys(q) -> RecordType(q)]]
    <3> TAKE q \in Registry
    <3> DEFINE T == [Keys(q) -> RecordType(q)]
    <3>1. mem[q] \in T /\ file[q] \in [ok : BOOLEAN, map : T]
      BY <1>0 DEF TypeOK
    <3> HIDE DEF T
    <3>2. file'[q] \in [ok : BOOLEAN, map : T]
      <4>1. CASE q = r
        <5>1. file'[q] = [ok |-> TRUE, map |-> mem[q]]
          BY <2>2, <4>1
        <5> QED BY <3>1, <5>1
      <4>2. CASE q # r
        BY <2>2, <3>1, <4>2
      <4> QED BY <4>1, <4>2
    <3> QED BY <3>2 DEF T
  <2>4. dirty' \in [Registry -> BOOLEAN] /\ saving' \subseteq {q \in Registry : dirty'[q]}
    BY <1>0, <1>6 DEF TypeOK, Rename
  <2>5. TypeOK'
    BY <1>0, <1>6, <2>2, <2>3, <2>4 DEF TypeOK, Rename
  <2>6. FilesBehind'
    <3>1. \A q \in Registry : \A k \in Keys(q) : mem[q][k].tokens \in Nat
      BY <1>0 DEF TypeOK, RecordType
    <3> QED BY <1>0, <2>1, <2>2, <3>1 DEF FilesBehind
  <2>7. BansKept'
    BY <1>0, <1>6, BansUntouched DEF Rename
  <2> QED BY <2>5, <2>6, <2>7 DEF RegInv
<1> QED BY <1>1, <1>2, <1>3, <1>4, <1>5, <1>6 DEF TaskStep, RegistryStep

\* The steps of the learning engine.
LEMMA LearningInv ==
    ASSUME RegInv, TooFewTrades \/ Optimize \/ Publish \/ PatchSaveFails
    PROVE  RegInv'
<1>0. TypeOK /\ FilesBehind /\ BansKept
  BY DEF RegInv
<1> USE DEF regVars, learnVars
<1>1. Cardinality(learned) \in Nat
  <2>1. IsFiniteSet(DOMAIN closes)
    <3>1. DOMAIN closes = 1..Len(closes) /\ Len(closes) \in Nat
      BY <1>0 DEF TypeOK
    <3> QED BY <3>1, FS_Interval
  <2> QED BY <1>0, <2>1, FS_Subset, FS_CardinalityType DEF TypeOK
<1>2. ASSUME TypeOK', UNCHANGED <<mem, file, unread, closes, tasks, blacklist, lost>> PROVE RegInv'
  <2>1. BansKept'
    BY <1>0, <1>2, BansUntouched
  <2> QED BY <1>0, <1>2, <2>1 DEF RegInv, FilesBehind
<1>3. Cardinality({}) = 0
  BY FS_EmptySet
<1>4. CASE TooFewTrades
  <2>1. TypeOK'
    BY <1>0, <1>1, <1>4 DEF TypeOK, TooFewTrades
  <2> QED BY <1>2, <1>4, <2>1 DEF TooFewTrades
<1>5. CASE Optimize
  <2> DEFINE p == Optimized
             cnt == Cardinality(learned)
             rec == [patch |-> p, cnt |-> cnt]
  <2>1. p \in PatchType
    BY <1>0, HeuristicsType DEF TypeOK, Optimized
  <2>2. round' = {rec} /\ patchFile' = [patchFile EXCEPT !.ok = FALSE]
    BY <1>5 DEF Optimize
  <2>3. patchFile' \in [ok : BOOLEAN, patch : PatchType]
    BY <1>0, <2>2 DEF TypeOK
  <2> HIDE DEF p, cnt
  <2>4. rec \in [patch : PatchType, cnt : Nat]
    BY <1>1, <2>1 DEF cnt
  <2> HIDE DEF rec
  <2>5. round' \subseteq [patch : PatchType, cnt : Nat] /\ Cardinality(round') = 1
    BY <2>2, <2>4, FS_Singleton
  <2>6. TypeOK'
    BY <1>0, <1>5, <2>3, <2>5 DEF TypeOK, Optimize
  <2> QED BY <1>2, <1>5, <2>6 DEF Optimize
<1>6. CASE Publish
  <2>1. PICK p \in round : /\ patchFile' = [ok |-> TRUE, patch |-> p.patch]
                           /\ patch' = p.patch /\ lastOpt' = p.cnt
                           /\ rounds' = Append(rounds, p.cnt) /\ round' = {}
    BY <1>6 DEF Publish
  <2>2. p.patch \in PatchType /\ p.cnt \in Nat /\ rounds \in Seq(Nat)
    BY <1>0 DEF TypeOK
  <2>3. patchFile' \in [ok : BOOLEAN, patch : PatchType] /\ patch' \in PatchType
    BY <2>1, <2>2
  <2>4. lastOpt' \in Nat /\ rounds' \in Seq(Nat)
    BY <2>1, <2>2
  <2>5. TypeOK'
    BY <1>0, <1>3, <1>6, <2>1, <2>3, <2>4 DEF TypeOK, Publish
  <2> QED BY <1>2, <1>6, <2>5 DEF Publish
<1>7. CASE PatchSaveFails
  <2>1. faults' \in 0..MaxFaults /\ round' = {}
    BY <1>0, <1>7, RegistriesAssumption DEF TypeOK, PatchSaveFails, Fault
  <2>2. TypeOK'
    BY <1>0, <1>3, <1>7, <2>1 DEF TypeOK, PatchSaveFails
  <2> QED BY <1>2, <1>7, <2>2 DEF PatchSaveFails
<1> QED BY <1>4, <1>5, <1>6, <1>7

\* A start takes each map from its file, or begins with an empty one and says so.
LEMMA RestartInv ==
    ASSUME RegInv, NEW bad \in SUBSET (Registry \cup {"patch"}), CrashRestart(bad)
    PROVE  RegInv'
<1>0. TypeOK /\ FilesBehind /\ BansKept
  BY DEF RegInv
<1>1. /\ mem' = [r \in Registry |-> IF r \in bad THEN Empty(r) ELSE Loaded(r)]
      /\ dirty' = [r \in Registry |-> FALSE] /\ saving' = {} /\ tasks' = {}
      /\ round' = {} /\ lastOpt' = 0 /\ unread' = unread \cup (bad \cap Registry)
      /\ patch' = IF "patch" \notin bad /\ patchFile.ok THEN patchFile.patch ELSE NoPatch
      /\ file' = file /\ blacklist' = blacklist
  BY DEF CrashRestart
<1>2. faults' \in 0..MaxFaults
  <2>1. IsFiniteSet(Registry \cup {"patch"})
    <3>1. IsFiniteSet({"dev"}) /\ IsFiniteSet({"smart"}) /\ IsFiniteSet({"patch"})
      BY FS_Singleton
    <3>2. IsFiniteSet({"dev"} \cup {"smart"})
      BY <3>1, FS_Union
    <3>3. IsFiniteSet(({"dev"} \cup {"smart"}) \cup {"patch"})
      BY <3>1, <3>2, FS_Union
    <3>4. Registry \cup {"patch"} = ({"dev"} \cup {"smart"}) \cup {"patch"}
      BY DEF Registry
    <3> QED BY <3>3, <3>4
  <2>2. Cardinality(bad) \in Nat
    BY <2>1, FS_Subset, FS_CardinalityType
  <2> QED BY <1>0, <2>2, RegistriesAssumption DEF CrashRestart, TypeOK
<1>3. patch' \in PatchType
  <2>1. NoPatch \in PatchType
    BY DEF NoPatch, PatchType
  <2> QED BY <1>0, <1>1, <2>1 DEF TypeOK
<1>4. \A r \in Registry : /\ mem'[r] \in [Keys(r) -> RecordType(r)]
                          /\ r \notin bad => mem'[r] = file[r].map
  <2> TAKE r \in Registry
  <2>1. mem'[r] = IF r \in bad THEN Empty(r) ELSE file[r].map
    BY <1>0, <1>1 DEF FilesBehind, Loaded
  <2>2. Empty(r) \in [Keys(r) -> RecordType(r)] /\ file[r].map \in [Keys(r) -> RecordType(r)]
    BY <1>0, EmptyType DEF TypeOK
  <2> QED BY <2>1, <2>2
<1>5. dirty' \in [Registry -> BOOLEAN] /\ saving' \subseteq {r \in Registry : dirty'[r]}
  BY <1>1
<1>6. Cardinality(round') <= 1 /\ round' = {}
  BY <1>1, FS_EmptySet
<1>a. lost' \subseteq DOMAIN closes
  <2>1. BansOf(tasks) \subseteq DOMAIN closes
    BY <1>0 DEF TypeOK, BansOf
  <2> QED BY <1>0, <2>1 DEF TypeOK, CrashRestart
<1>7. TypeOK'
  BY <1>0, <1>1, <1>2, <1>3, <1>4, <1>5, <1>6, <1>a DEF TypeOK, CrashRestart
<1>8. FilesBehind'
  <2>1. \A r \in Registry : \A k \in Keys(r) : file[r].map[k].tokens \in Nat
    BY <1>0 DEF TypeOK, RecordType
  <2> QED BY <1>0, <1>1, <1>4, <2>1 DEF FilesBehind
<1>9. BansKept'
  <2>1. lost' = lost \cup BansOf(tasks) /\ closes' = closes
    BY DEF CrashRestart
  <2>2. \A i \in DOMAIN closes : [kind |-> "ban", id |-> i] \in tasks => i \in lost'
    <3>1. \A i : [kind |-> "ban", id |-> i] \in tasks => i \in BansOf(tasks)
      <4> TAKE i
      <4>1. /\ [kind |-> "ban", id |-> i].kind = "ban"
            /\ [kind |-> "ban", id |-> i].id = i
        OBVIOUS
      <4> DEFINE b == [kind |-> "ban", id |-> i]
      <4> HIDE DEF b
      <4> QED BY <4>1 DEF BansOf, b
    <3> QED BY <2>1, <3>1
  <2> QED BY <1>0, <1>1, <2>1, <2>2, BanTaskEnds
<1> QED BY <1>7, <1>8, <1>9 DEF RegInv

LEMMA RegStep == RegInv /\ [Next]_vars => RegInv'
<1> SUFFICES ASSUME RegInv, [Next]_vars PROVE RegInv'
  OBVIOUS
<1>0. TypeOK /\ FilesBehind /\ BansKept
  BY DEF RegInv
<1> USE DEF regVars, learnVars
<1>1. CASE (\E c \in Closes : Close(c)) \/ TaskStep \/ RegistryStep
  BY <1>1, RegistryStepsInv
<1>2. CASE TooFewTrades \/ Optimize \/ Publish \/ PatchSaveFails
  BY <1>2, LearningInv
<1>3. ASSUME NEW bad \in SUBSET (Registry \cup {"patch"}), CrashRestart(bad) PROVE RegInv'
  BY <1>3, RestartInv
<1>4. ASSUME NEW t \in tasks, StatementFails(t) PROVE RegInv'
  <2>1. faults' \in 0..MaxFaults /\ tasks' \subseteq tasks
    BY <1>0, <1>4, RegistriesAssumption DEF TypeOK, StatementFails, Fault
  <2>2. BansOf({t}) = IF t.kind = "ban" THEN {t.id} ELSE {}
    BY DEF BansOf
  <2>3. /\ t \in [kind : {"dev", "smart", "ban", "learn"}, id : DOMAIN closes]
        /\ tasks' = tasks \ {t} /\ lost' = lost \cup BansOf({t})
    BY <1>0, <1>4 DEF TypeOK, StatementFails
  <2>4. TypeOK'
    BY <1>0, <1>4, <2>1, <2>2, <2>3 DEF TypeOK, StatementFails
  <2>5. BansKept'
    <3>1. \A i \in DOMAIN closes : [kind |-> "ban", id |-> i] \in tasks =>
             [kind |-> "ban", id |-> i] \in tasks' \/ i \in lost'
      BY <2>2, <2>3
    <3> QED BY <1>0, <1>4, <2>3, <3>1, BanTaskEnds DEF StatementFails
  <2> QED BY <1>0, <1>4, <2>4, <2>5 DEF RegInv, FilesBehind, StatementFails
<1>5. ASSUME NEW r \in Registry, SaveFails(r) PROVE RegInv'
  <2>1. faults' \in 0..MaxFaults /\ saving' \subseteq saving
    BY <1>0, <1>5, RegistriesAssumption DEF TypeOK, SaveFails, Fault
  <2>2. TypeOK'
    BY <1>0, <1>5, <2>1 DEF TypeOK, SaveFails
  <2>3. BansKept'
    BY <1>0, <1>5, BansUntouched DEF SaveFails
  <2> QED BY <1>0, <1>5, <2>2, <2>3 DEF RegInv, FilesBehind, SaveFails
<1>6. CASE TimePasses
  <2>1. now' \in 1..MaxTime
    BY <1>0, <1>6, RegistriesAssumption DEF TypeOK, TimePasses
  <2>2. TypeOK'
    BY <1>0, <1>6, <2>1 DEF TypeOK, TimePasses
  <2>3. BansKept'
    BY <1>0, <1>6, BansUntouched DEF TimePasses
  <2> QED BY <1>0, <1>6, <2>2, <2>3 DEF RegInv, FilesBehind, TimePasses
<1>7. CASE UNCHANGED vars
  <2>1. TypeOK'
    BY <1>0, <1>7 DEF TypeOK, vars
  <2>2. BansKept'
    BY <1>0, <1>7, BansUntouched DEF vars
  <2> QED BY <1>0, <1>7, <2>1, <2>2 DEF RegInv, FilesBehind, vars
<1> QED BY <1>1, <1>2, <1>3, <1>4, <1>5, <1>6, <1>7 DEF Next

LEMMA RegInvariance == Spec => []RegInv
BY RegInit, RegStep, PTL DEF Spec

\* Type correctness: no crash, failed save or unreadable file leaves a map with a hole, and
\* tasks and learned trades only ever refer to closes that happened.
THEOREM TypeCorrect == Spec => []TypeOK
<1>1. RegInv => TypeOK
  BY DEF RegInv
<1> QED BY <1>1, RegInvariance, PTL

\* No ban goes missing: for any number of closes, failed statements and crashes, the ban a
\* close calls for is found by active_for_dev through its whole term, unless its insert has
\* not run, has failed, or was lost with the process.
THEOREM EveryBanAccounted == Spec => []BansAccounted
<1>1. RegInv => BansAccounted
  <2> SUFFICES ASSUME RegInv, NEW i \in DOMAIN closes, BanDue(closes[i]),
                      [kind |-> "ban", id |-> i] \notin tasks, i \notin lost
               PROVE  ActiveForDev(closes[i].dev)
    BY DEF BansAccounted
  <2> DEFINE c == closes[i]
             row == Row(c)
  <2>1. c \in CloseType /\ now \in Nat
    BY DEF RegInv, TypeOK
  <2>2. ClassifyDevBlacklist(c) # "none"
    BY DEF BanDue
  <2>3. row \in blacklist
    BY <2>2 DEF RegInv, BansKept, BanKept
  <2>4. row.dev = c.dev /\ (row.expires = Never \/ row.expires > now)
    <3>1. CASE ClassifyDevBlacklist(c) = "permanent"
      BY <3>1 DEF Row
    <3>2. CASE ClassifyDevBlacklist(c) # "permanent"
      <4>1. now < c.at + Cooldown
        BY <3>2 DEF BanDue
      <4>2. row.dev = c.dev /\ row.expires = c.at + Cooldown
        BY <3>2 DEF Row
      <4>3. c.at \in Nat /\ Cooldown \in Nat
        BY <2>1, RegistriesAssumption DEF CloseType
      <4> QED BY <2>1, <4>1, <4>2, <4>3
    <3> QED BY <3>1, <3>2
  <2> HIDE DEF row
  <2> QED BY <2>3, <2>4 DEF ActiveForDev
<1> QED BY <1>1, RegInvariance, PTL

\* However many rounds the engine makes, on whatever trades and from whatever saved patch,
\* the thresholds that score a launch keep their order and stay near the configured ones.
THEOREM LearnedThresholdsStaySane == Spec => []LearnedThresholdsSane
<1>1. RegInv => LearnedThresholdsSane
  <2> SUFFICES ASSUME RegInv PROVE LearnedThresholdsSane
    OBVIOUS
  <2> DEFINE base == FeatureThresholds
             t == MergeThresholds(base, patch)
  <2>1. /\ base \in [DOMAIN base -> Nat] /\ SaneBase(base)
        /\ {"buyers_low", "buyers_mid", "smart_1plus", "smart_3plus"} \subseteq DOMAIN base
    BY DEF FeatureThresholds, SaneBase
  <2>2. patch \in PatchType
    BY DEF RegInv, TypeOK
  <2>3. SaneBase(t) /\ t.buyers_low \in (base.buyers_low - 2)..(base.buyers_low + 2)
    <3> HIDE DEF base
    <3> QED BY <2>1, <2>2, MergeKeepsOrder
  <2> QED BY <2>3 DEF LearnedThresholdsSane, SaneBase
<1> QED BY <1>1, RegInvariance, PTL

\* What a start would find never shrinks: the temporary file and its rename make a save
\* all or nothing, and the map that is saved is never behind the one on file, unless some
\* start could not read it.
THEOREM HistoryIsKept == Spec => HistoryKept
<1> DEFINE A == \A r \in Registry \ unread : \A k \in Keys(r) :
                    Loaded(r)'[k].tokens >= Loaded(r)[k].tokens
<1>1. RegInv /\ RegInv' /\ [Next]_vars => [A]_vars
  <2> SUFFICES ASSUME RegInv, RegInv', Next, NEW r \in Registry, r \notin unread, NEW k \in Keys(r)
               PROVE  Loaded(r)'[k].tokens >= Loaded(r)[k].tokens
    OBVIOUS
  <2>1. Loaded(r) = file[r].map /\ Loaded(r)' = file'[r].map
    BY DEF RegInv, FilesBehind, Loaded
  <2>2. file'[r] = file[r] \/ file'[r].map = mem[r]
    <3>1. ASSUME NEW q \in Registry, Rename(q) PROVE file'[r] = file[r] \/ file'[r].map = mem[r]
      BY <3>1 DEF Rename, RegInv, TypeOK
    <3>2. CASE file' = file
      BY <3>2
    <3> QED BY <3>1, <3>2
            DEF Next, Close, TaskStep, NoteOutcome, InsertBan, LogClosedTrade, StatementFails,
                RegistryStep, Flush, SaveFails, TooFewTrades, Optimize, Publish,
                PatchSaveFails, CrashRestart, TimePasses, regVars
  <2>3. file[r].map[k].tokens \in Nat /\ mem[r][k].tokens \in Nat
    BY DEF RegInv, TypeOK, RecordType
  <2> QED BY <2>1, <2>2, <2>3 DEF RegInv, FilesBehind
<1> QED BY <1>1, RegInvariance, PTL DEF Spec, HistoryKept
=============================================================================
