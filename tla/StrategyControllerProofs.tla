----------------------- MODULE StrategyControllerProofs -----------------------
(***************************************************************************)
(* Proofs about the risk gate, for every configuration, every clock and    *)
(* every sequence of results.                                              *)
(***************************************************************************)
EXTENDS StrategyController, TLAPS

-----------------------------------------------------------------------------
(* The calendar. *)

\* A midnight is a natural number not after the time it belongs to.
LEMMA CurrentDayBound ==
    ASSUME NEW t \in Nat
    PROVE  /\ CurrentDay(t) \in Nat
           /\ CurrentDay(t) <= t
           /\ t < CurrentDay(t) + DaySecs
<1>1. t % DaySecs \in 0..(DaySecs - 1)
  BY StrategyAssumption
<1>2. t % DaySecs <= t
  BY StrategyAssumption
<1> QED BY <1>1, <1>2, StrategyAssumption DEF CurrentDay

\* Midnights are whole days.
LEMMA CurrentDayMultiple ==
    ASSUME NEW t \in Nat
    PROVE  CurrentDay(t) = DaySecs * (t \div DaySecs) /\ (t \div DaySecs) \in Nat
<1>1. t = DaySecs * (t \div DaySecs) + (t % DaySecs)
  BY StrategyAssumption
<1> QED BY <1>1, StrategyAssumption DEF CurrentDay

\* Two days apart means a whole day apart.
LEMMA WholeDays ==
    ASSUME NEW a \in Nat, NEW b \in Nat, NEW D \in Nat \ {0}, D * b < D * a
    PROVE  D * b + D <= D * a
<1>1. b < a
  <2> SUFFICES ASSUME a <= b PROVE D * a <= D * b
    OBVIOUS
  <2>1. PICK n \in Nat : b = a + n
    BY b - a \in Nat, b = a + (b - a)
  <2>2. D * b = D * a + D * n /\ D * n \in Nat
    BY <2>1
  <2> QED BY <2>2
<1>2. PICK n \in Nat : a = b + 1 + n
  BY <1>1, a - b - 1 \in Nat, a = b + 1 + (a - b - 1)
<1>3. D * a = D * b + D + D * n /\ D * n \in Nat
  BY <1>2
<1> QED BY <1>3

\* Time that does not go back never returns to an earlier day.
LEMMA CurrentDayMonotone ==
    ASSUME NEW s \in Nat, NEW t \in Nat, s <= t
    PROVE  CurrentDay(s) <= CurrentDay(t)
<1> SUFFICES ASSUME CurrentDay(t) < CurrentDay(s) PROVE FALSE
  BY CurrentDayBound
<1>1. CurrentDay(t) + DaySecs <= CurrentDay(s)
  BY CurrentDayMultiple, WholeDays, StrategyAssumption
<1> QED BY <1>1, CurrentDayBound, StrategyAssumption

\* Every time of the model is a natural number and has a day.
LEMMA TimeDays ==
    /\ Time \subseteq Nat
    /\ \A t \in Time : CurrentDay(t) \in Days
    /\ Days \subseteq Nat
BY StrategyAssumption, CurrentDayBound DEF Time, Days

\* An entry in the ledger of day d changes that day only.
LEMMA LedgerEntry ==
    ASSUME NEW f \in [Days -> Int], NEW d \in Days, NEW x \in Int
    PROVE  /\ [f EXCEPT ![d] = @ + x] \in [Days -> Int]
           /\ [f EXCEPT ![d] = @ + x][d] = f[d] + x
           /\ \A e \in Days : e # d => [f EXCEPT ![d] = @ + x][e] = f[e]
OBVIOUS

\* The same for the count of admitted signals.
LEMMA LedgerCount ==
    ASSUME NEW f \in [Days -> Nat], NEW d \in Days
    PROVE  /\ [f EXCEPT ![d] = @ + 1] \in [Days -> Nat]
           /\ [f EXCEPT ![d] = @ + 1][d] = f[d] + 1
           /\ \A e \in Days : e # d => [f EXCEPT ![d] = @ + 1][e] = f[e]
OBVIOUS

-----------------------------------------------------------------------------
(* Types. *)

\* The window after one more close is a sequence of outcomes within its limit.
LEMMA PushOutcomeType ==
    ASSUME NEW win \in BOOLEAN, recentOutcomes \in Seq(BOOLEAN)
    PROVE  /\ PushOutcome(win) \in Seq(BOOLEAN)
           /\ Len(PushOutcome(win)) <= RegimeWindow
<1> DEFINE all == Append(recentOutcomes, win)
<1>1. all \in Seq(BOOLEAN) /\ Len(all) \in Nat
  OBVIOUS
<1>2. CASE Len(all) > RegimeWindow
  <2>1. /\ Len(all) - RegimeWindow + 1 \in 1..(Len(all) + 1)
        /\ SubSeq(all, Len(all) - RegimeWindow + 1, Len(all)) \in Seq(BOOLEAN)
        /\ Len(SubSeq(all, Len(all) - RegimeWindow + 1, Len(all))) = RegimeWindow
    BY <1>1, <1>2, StrategyAssumption
  <2> QED BY <1>2, <2>1, StrategyAssumption DEF PushOutcome
<1>3. CASE ~(Len(all) > RegimeWindow)
  BY <1>1, <1>3, StrategyAssumption DEF PushOutcome
<1> QED BY <1>2, <1>3

\* Every call of the controller keeps every counter in its range.
LEMMA TypeStep == TypeOK /\ [Next]_vars => TypeOK'
<1> SUFFICES ASSUME TypeOK, [Next]_vars PROVE TypeOK'
  OBVIOUS
<1> USE StrategyAssumption, TimeDays DEF ctl, hist
<1>1. CASE ClockAdvances
  <2>1. now' \in Time
    BY <1>1 DEF ClockAdvances, TypeOK, Time
  <2> QED BY <1>1, <2>1 DEF ClockAdvances, TypeOK
<1>2. ASSUME NEW open \in 0..MaxOpen,
             InitiateBuyBlocked(open) \/ InitiateBuyNoWallet(open)
      PROVE  TypeOK'
  <2>1. RollDayIfNeeded
    BY <1>2 DEF InitiateBuyBlocked, InitiateBuyNoWallet
  <2> QED BY <2>1 DEF RollDayIfNeeded, Rolled, TypeOK
<1>3. ASSUME NEW open \in 0..MaxOpen, NEW t \in now..MaxTime, NEW filled \in 0..Wallets,
             InitiateBuyAllowed(open, t, filled)
      PROVE  TypeOK'
  <2>1. t \in Time
    BY <1>3 DEF TypeOK, Time
  <2>2. Rolled(t, dailyTrades) \in Nat /\ Rolled(t, dailyPnl) \in Int
    BY DEF Rolled, TypeOK
  <2>3. rows' \in Nat /\ dailyTrades' \in Nat /\ dailyPnl' \in Int
    BY <1>3, <2>2 DEF InitiateBuyAllowed, TypeOK
  <2>4. opens' \in [Days -> Nat]
    <3>1. CurrentDay(t) \in Days /\ opens \in [Days -> Nat]
      BY <2>1 DEF TypeOK
    <3>2. opens' = [opens EXCEPT ![CurrentDay(t)] = @ + 1]
      BY <1>3 DEF InitiateBuyAllowed
    <3> QED BY <3>1, <3>2, LedgerCount
  <2> QED BY <1>3, <2>1, <2>3, <2>4 DEF InitiateBuyAllowed, TypeOK
<1>4. ASSUME NEW pnl \in Pnl, NotePositionClosed(pnl) PROVE TypeOK'
  <2>1. pnl \in Int /\ (pnl > 0) \in BOOLEAN
    OBVIOUS
  <2>2. recentOutcomes' \in Seq(BOOLEAN) /\ Len(recentOutcomes') <= RegimeWindow
    BY <1>4, <2>1, PushOutcomeType DEF NotePositionClosed, TypeOK
  <2>3. pausedUntil' \in Nat
    BY <1>4 DEF NotePositionClosed, RegimePaused, StreakPause, TypeOK, Time
  <2>4. closes' \in Seq([at : Time, win : BOOLEAN])
    BY <1>4, <2>1 DEF NotePositionClosed, TypeOK
  <2>5. realised' \in [Days -> Int] /\ dailyPnl' \in Int /\ dailyTrades' \in Nat
    <3>1. Rolled(now, dailyTrades) \in Nat /\ Rolled(now, dailyPnl) \in Int
      BY DEF Rolled, TypeOK
    <3>2. realised' \in [Days -> Int]
      <4>1. CurrentDay(now) \in Days /\ realised \in [Days -> Int]
        BY DEF TypeOK
      <4>2. realised' = [realised EXCEPT ![CurrentDay(now)] = @ + pnl]
        BY <1>4 DEF NotePositionClosed
      <4> QED BY <2>1, <4>1, <4>2, LedgerEntry
    <3> QED BY <1>4, <2>1, <3>1, <3>2 DEF NotePositionClosed
  <2>6. rows' \in Nat /\ lossStreak' \in Nat /\ dayUnix' \in Days
    BY <1>4 DEF NotePositionClosed, TypeOK
  <2> QED BY <1>4, <2>2, <2>3, <2>4, <2>5, <2>6 DEF NotePositionClosed, TypeOK
<1>5. CASE RowAbandoned
  BY <1>5 DEF RowAbandoned, TypeOK
<1>6. CASE UNCHANGED vars
  BY <1>6 DEF vars, TypeOK
<1> QED BY <1>1, <1>2, <1>3, <1>4, <1>5, <1>6 DEF Next

\* The counters, the window and the histories of the risk gate keep their types.
THEOREM TypeCorrect == Spec => []TypeOK
<1>1. Init => TypeOK
  BY StrategyAssumption, TimeDays DEF Init, TypeOK, Time
<1> QED BY <1>1, TypeStep, PTL DEF Spec

-----------------------------------------------------------------------------
(* The day counters. *)

\* The day of the counters is never ahead of the clock's day.
LEMMA DayNotAhead ==
    ASSUME TypeOK, CountersMatchLedger
    PROVE  dayUnix <= CurrentDay(now)
<1> USE StrategyAssumption, TimeDays
<1>0. /\ now \in Nat /\ dayUnix \in Nat
      /\ CurrentDay(now) <= now /\ CurrentDay(now) \in Days /\ CurrentDay(now) \in Nat
  BY CurrentDayBound DEF TypeOK
<1>1. PICK s \in Time : dayUnix = CurrentDay(s)
  BY DEF TypeOK, Days
<1>2. CASE s <= now
  BY <1>0, <1>1, <1>2, CurrentDayMonotone
<1>3. CASE ~(s <= now)
  \* dayUnix is a midnight and not after now, so it is its own midnight.
  <2>1. CurrentDay(now) <= CurrentDay(s)
    BY <1>0, <1>3, CurrentDayMonotone
  <2>2. CASE CurrentDay(now) < dayUnix
    <3>1. CurrentDay(now) + DaySecs <= dayUnix
      <4> DEFINE a == s \div DaySecs
                 b == now \div DaySecs
      <4>1. /\ dayUnix = DaySecs * a /\ a \in Nat
            /\ CurrentDay(now) = DaySecs * b /\ b \in Nat
        BY <1>0, <1>1, CurrentDayMultiple
      <4>2. DaySecs * b + DaySecs <= DaySecs * a
        <5> HIDE DEF a, b
        <5> QED BY <2>2, <4>1, WholeDays
      <4> QED BY <4>1, <4>2
    <3> QED BY <1>0, <3>1, CurrentDayBound DEF CountersMatchLedger
  <2> QED BY <1>0, <1>1, <2>1, <2>2
<1> QED BY <1>0, <1>2, <1>3

\* Every call leaves counters that are the ledger of the day they stand for.
LEMMA LedgerStep ==
    ASSUME TypeOK, TypeOK', CountersMatchLedger, [Next]_vars
    PROVE  CountersMatchLedger'
<1> USE StrategyAssumption, TimeDays DEF ctl, hist
<1>0. /\ now \in Nat /\ dayUnix \in Nat
      /\ CurrentDay(now) <= now /\ CurrentDay(now) \in Days /\ CurrentDay(now) \in Nat
  BY CurrentDayBound DEF TypeOK
<1>a. dayUnix <= CurrentDay(now)
  BY DayNotAhead
<1>1. CASE ClockAdvances
  BY <1>0, <1>1 DEF ClockAdvances, CountersMatchLedger, TypeOK
<1>2. ASSUME NEW open \in 0..MaxOpen,
             InitiateBuyBlocked(open) \/ InitiateBuyNoWallet(open)
      PROVE  CountersMatchLedger'
  <2>1. RollDayIfNeeded
    BY <1>2 DEF InitiateBuyBlocked, InitiateBuyNoWallet
  <2> QED BY <1>0, <1>a, <2>1 DEF RollDayIfNeeded, Rolled, CountersMatchLedger, TypeOK
<1>3. ASSUME NEW open \in 0..MaxOpen, NEW t \in now..MaxTime, NEW filled \in 0..Wallets,
             InitiateBuyAllowed(open, t, filled)
      PROVE  CountersMatchLedger'
  <2>1. /\ t \in Nat /\ CurrentDay(t) \in Days /\ CurrentDay(t) <= t
        /\ dayUnix <= CurrentDay(t)
    <3>1. t \in Time /\ now <= t
      BY <1>0, <1>3 DEF Time, TypeOK
    <3>2. CurrentDay(now) <= CurrentDay(t)
      BY <1>0, <3>1, CurrentDayMonotone
    <3> QED BY <1>0, <1>a, <3>1, <3>2, CurrentDayBound
  <2> QED BY <1>3, <2>1 DEF InitiateBuyAllowed, Rolled, CountersMatchLedger, TypeOK
<1>4. ASSUME NEW pnl \in Pnl, NotePositionClosed(pnl) PROVE CountersMatchLedger'
  <2>1. /\ dayUnix' = CurrentDay(now)
        /\ dailyTrades' = Rolled(now, dailyTrades)
        /\ dailyPnl' = Rolled(now, dailyPnl) + pnl
        /\ realised' = [realised EXCEPT ![CurrentDay(now)] = @ + pnl]
        /\ UNCHANGED <<now, opens>>
    BY <1>4 DEF NotePositionClosed
  <2>2. Rolled(now, dailyTrades) = opens[CurrentDay(now)]
        /\ Rolled(now, dailyPnl) = realised[CurrentDay(now)]
    BY <1>0, <1>a DEF Rolled, CountersMatchLedger
  <2>3. dailyPnl' = realised'[dayUnix']
    BY <1>0, <2>1, <2>2 DEF TypeOK
  <2>4. \A d \in Days : d > CurrentDay(now) => opens[d] = 0 /\ realised'[d] = 0
    <3>1. \A d \in Days : d > CurrentDay(now) => realised'[d] = realised[d]
      BY <1>0, <2>1, LedgerEntry DEF TypeOK
    <3> QED BY <1>0, <1>a, <3>1 DEF CountersMatchLedger
  <2> QED BY <1>0, <2>1, <2>2, <2>3, <2>4 DEF CountersMatchLedger
<1>5. CASE RowAbandoned
  BY <1>5 DEF RowAbandoned, CountersMatchLedger
<1>6. CASE UNCHANGED vars
  BY <1>6 DEF vars, CountersMatchLedger
<1> QED BY <1>1, <1>2, <1>3, <1>4, <1>5, <1>6 DEF Next

\* The daily counters always equal what really happened on their UTC day, whatever
\* midnights pass between two calls or inside the handling of one signal.
THEOREM CountersMatchLedgerAlways == Spec => []CountersMatchLedger
<1>1. Init => CountersMatchLedger
  <2>1. CurrentDay(0) <= 0
    BY CurrentDayBound
  <2>2. CurrentDay(0) \in Days
    BY TimeDays, StrategyAssumption DEF Time
  <2> QED BY <2>1, <2>2 DEF Init, CountersMatchLedger
<1>2. TypeOK /\ TypeOK' /\ CountersMatchLedger /\ [Next]_vars => CountersMatchLedger'
  BY LedgerStep
<1> QED BY <1>1, <1>2, TypeCorrect, PTL DEF Spec

-----------------------------------------------------------------------------
(* The daily limits. *)

\* What can_open saw still holds of the day on which the signal is counted.
LEMMA GateSeesDay ==
    ASSUME TypeOK, CountersMatchLedger,
           NEW open, NEW t, NEW filled, InitiateBuyAllowed(open, t, filled)
    PROVE  /\ t \in Time /\ CurrentDay(t) \in Days
           /\ opens[CurrentDay(t)] < MaxTradesPerDay
           /\ realised[CurrentDay(t)] > MaxDailyLoss
           /\ realised[CurrentDay(t)] < ProfitLock
<1> USE StrategyAssumption, TimeDays
<1>1. /\ now \in Nat /\ t \in Time /\ t \in Nat /\ now <= t
      /\ CurrentDay(t) \in Days /\ CurrentDay(t) \in Nat
      /\ CurrentDay(now) \in Nat /\ dayUnix \in Nat
  <2>1. now \in Time /\ dayUnix \in Days
    BY DEF TypeOK
  <2>2. t \in Time /\ now <= t
    BY <2>1 DEF InitiateBuyAllowed, Time
  <2> QED BY <2>1, <2>2
<1>2. dayUnix <= CurrentDay(now) /\ CurrentDay(now) <= CurrentDay(t)
  BY <1>1, DayNotAhead, CurrentDayMonotone
<1>3. /\ Rolled(now, dailyTrades) < MaxTradesPerDay
      /\ Rolled(now, dailyPnl) > MaxDailyLoss
      /\ Rolled(now, dailyPnl) < ProfitLock
  BY DEF InitiateBuyAllowed, CanOpen
<1>4. CASE CurrentDay(t) = dayUnix
  <2>1. CurrentDay(now) = dayUnix
    BY <1>1, <1>2, <1>4
  <2> QED BY <1>1, <1>3, <1>4, <2>1 DEF Rolled, CountersMatchLedger
<1>5. CASE CurrentDay(t) # dayUnix
  <2>1. opens[CurrentDay(t)] = 0 /\ realised[CurrentDay(t)] = 0
    BY <1>1, <1>2, <1>5 DEF CountersMatchLedger
  <2>2. 0 < MaxTradesPerDay
    <3>1. Rolled(now, dailyTrades) \in Nat
      BY DEF Rolled, TypeOK
    <3> QED BY <1>3, <3>1
  <2> QED BY <1>1, <2>1, <2>2
<1> QED BY <1>4, <1>5

\* The only step that opens is an allowed signal.
LEMMA OpeningIsAllowed ==
    ASSUME [Next]_vars, Opening
    PROVE  \E open \in 0..MaxOpen, t \in now..MaxTime, filled \in 0..Wallets :
              InitiateBuyAllowed(open, t, filled)
BY DEF Next, vars, ctl, hist, Opening, ClockAdvances, InitiateBuyBlocked, InitiateBuyNoWallet,
       RollDayIfNeeded, NotePositionClosed, RowAbandoned

\* No UTC day ever sees more than max_trades_per_day admitted signals.
THEOREM DailyBudgetAlways == Spec => []DailyBudget
<1>1. Init => DailyBudget
  BY StrategyAssumption DEF Init, DailyBudget
<1>2. TypeOK /\ CountersMatchLedger /\ DailyBudget /\ [Next]_vars => DailyBudget'
  <2> SUFFICES ASSUME TypeOK, CountersMatchLedger, DailyBudget, [Next]_vars
               PROVE  DailyBudget'
    OBVIOUS
  <2>1. CASE opens' = opens
    BY <2>1 DEF DailyBudget
  <2>2. CASE opens' # opens
    <3>1. PICK open \in 0..MaxOpen, t \in Time, filled \in 0..Wallets :
             InitiateBuyAllowed(open, t, filled)
      BY <2>2, OpeningIsAllowed, GateSeesDay DEF Opening
    <3>2. opens' = [opens EXCEPT ![CurrentDay(t)] = @ + 1]
      BY <3>1 DEF InitiateBuyAllowed
    <3>3. opens[CurrentDay(t)] < MaxTradesPerDay /\ CurrentDay(t) \in Days
      BY <3>1, GateSeesDay
    <3>4. opens \in [Days -> Nat]
      BY DEF TypeOK
    <3>5. /\ opens'[CurrentDay(t)] <= MaxTradesPerDay
          /\ \A e \in Days : e # CurrentDay(t) => opens'[e] = opens[e]
      BY <3>2, <3>3, <3>4, LedgerCount, StrategyAssumption
    <3> QED BY <3>5 DEF DailyBudget
  <2> QED BY <2>1, <2>2
<1> QED BY <1>1, <1>2, TypeCorrect, CountersMatchLedgerAlways, PTL DEF Spec

\* A day at its loss cap or at its profit lock admits nothing more.
THEOREM DayLimitsHonouredAlways == Spec => DayLimitsHonoured
<1>1. TypeOK /\ CountersMatchLedger /\ [Next]_vars =>
        [Opening => /\ realised[CurrentDay(now')] > MaxDailyLoss
                    /\ realised[CurrentDay(now')] < ProfitLock]_vars
  <2> SUFFICES ASSUME TypeOK, CountersMatchLedger, [Next]_vars, Opening
               PROVE  /\ realised[CurrentDay(now')] > MaxDailyLoss
                      /\ realised[CurrentDay(now')] < ProfitLock
    OBVIOUS
  <2>1. PICK open \in 0..MaxOpen, t \in Time, filled \in 0..Wallets :
             InitiateBuyAllowed(open, t, filled)
    BY OpeningIsAllowed, GateSeesDay
  <2>2. now' = t
    BY <2>1 DEF InitiateBuyAllowed
  <2> QED BY <2>1, <2>2, GateSeesDay
<1> QED BY <1>1, TypeCorrect, CountersMatchLedgerAlways, PTL DEF Spec, DayLimitsHonoured

-----------------------------------------------------------------------------
(* The pauses. *)

\* How the streak counter and the end of the pause follow from the closes: the
\* last lossStreak closes are losses, the one before them is a win, and the pause
\* covers every close that completed a streak.
PauseInv ==
    /\ lossStreak <= Len(closes)
    /\ \A j \in DOMAIN closes : j > Len(closes) - lossStreak => ~closes[j].win
    /\ lossStreak < Len(closes) => closes[Len(closes) - lossStreak].win
    /\ \A i \in DOMAIN closes : closes[i].at <= now
    /\ \A i \in DOMAIN closes : StreakAt(i) => pausedUntil >= closes[i].at + LossPauseSecs
    /\ LossPauseSecs >= RegimePauseSecs => pausedUntil <= now + LossPauseSecs

\* What the type invariant says of one recorded close.
LEMMA CloseType ==
    ASSUME TypeOK
    PROVE  /\ now \in Nat /\ pausedUntil \in Nat /\ lossStreak \in Nat
           /\ Len(closes) \in Nat /\ DOMAIN closes = 1..Len(closes)
           /\ \A i \in DOMAIN closes : closes[i].at \in Nat /\ closes[i].win \in BOOLEAN
<1>1. now \in Time /\ pausedUntil \in Nat /\ lossStreak \in Nat
  BY DEF TypeOK
<1>2. closes \in Seq([at : Time, win : BOOLEAN])
  BY DEF TypeOK
<1>3. Len(closes) \in Nat /\ DOMAIN closes = 1..Len(closes)
  BY <1>2
<1>4. \A i \in DOMAIN closes : closes[i] \in [at : Time, win : BOOLEAN]
  <2> DEFINE R == [at : Time, win : BOOLEAN]
  <2>1. closes \in Seq(R)
    BY <1>2
  <2> HIDE DEF R
  <2>2. \A i \in DOMAIN closes : closes[i] \in R
    BY <2>1
  <2> QED BY <2>2 DEF R
<1> QED BY <1>1, <1>3, <1>4, TimeDays

\* A call that closes nothing and moves no pause keeps all of it.
LEMMA PauseKept ==
    ASSUME TypeOK, TypeOK', PauseInv, now <= now',
           UNCHANGED <<lossStreak, pausedUntil, closes>>
    PROVE  PauseInv'
<1>1. now \in Nat /\ now' \in Nat /\ pausedUntil \in Nat
  BY TimeDays DEF TypeOK
<1>2. \A i \in DOMAIN closes : StreakAt(i)' <=> StreakAt(i)
  BY DEF StreakAt
<1>3. \A i \in DOMAIN closes : closes[i].at <= now'
  BY <1>1, CloseType DEF PauseInv
<1>4. LossPauseSecs >= RegimePauseSecs => pausedUntil <= now' + LossPauseSecs
  <2>1. LossPauseSecs >= RegimePauseSecs => pausedUntil <= now + LossPauseSecs
    BY DEF PauseInv
  <2>2. LossPauseSecs \in Nat /\ RegimePauseSecs \in Nat /\ now <= now'
    BY StrategyAssumption
  <2>3. ASSUME NEW a \in Nat, NEW b \in Nat, NEW c \in Nat, NEW e \in Nat, a <= b, e <= a + c
        PROVE  e <= b + c
    BY <2>3
  <2> QED BY <1>1, <2>1, <2>2, <2>3
<1> QED BY <1>2, <1>3, <1>4 DEF PauseInv

\* A close keeps all of it.
LEMMA PauseClose ==
    ASSUME TypeOK, TypeOK', PauseInv, NEW pnl \in Pnl, NotePositionClosed(pnl)
    PROVE  PauseInv'
<1> DEFINE n == Len(closes)
           w == pnl > 0
           c == [at |-> now, win |-> w]
<1> USE StrategyAssumption
<1>1. /\ n \in Nat /\ now \in Nat /\ lossStreak \in Nat /\ pausedUntil \in Nat
      /\ closes \in Seq([at : Time, win : BOOLEAN]) /\ w \in BOOLEAN
  <2>1. closes \in Seq([at : Time, win : BOOLEAN])
    BY DEF TypeOK
  <2>2. w \in BOOLEAN
    OBVIOUS
  <2> HIDE DEF w
  <2> QED BY <2>1, <2>2, CloseType
<1>2. /\ closes' = Append(closes, c) /\ now' = now
      /\ lossStreak' = IF w THEN 0 ELSE lossStreak + 1
  BY DEF NotePositionClosed
<1>3. /\ Len(closes') = n + 1 /\ DOMAIN closes' = 1..(n + 1) /\ DOMAIN closes = 1..n
      /\ \A i \in 1..n : closes'[i] = closes[i]
      /\ closes'[n + 1].at = now /\ closes'[n + 1].win = w
  BY <1>1, <1>2
<1>4. /\ pausedUntil' \in Nat
      /\ w => pausedUntil' >= pausedUntil
      /\ ~w /\ lossStreak + 1 >= LossStreakLimit => pausedUntil' >= now + LossPauseSecs
      /\ ~w /\ lossStreak + 1 < LossStreakLimit => pausedUntil' >= pausedUntil
  <2> DEFINE outcomes == PushOutcome(w)
             until == IF w THEN pausedUntil ELSE StreakPause(lossStreak + 1)
  <2>1. pausedUntil' = RegimePaused(outcomes, until)
    BY DEF NotePositionClosed, StreakPause
  <2>2. /\ until \in Nat
        /\ w => until >= pausedUntil
        /\ ~w /\ lossStreak + 1 >= LossStreakLimit => until >= now + LossPauseSecs
        /\ ~w /\ lossStreak + 1 < LossStreakLimit => until >= pausedUntil
    BY <1>1 DEF StreakPause
  <2>3. pausedUntil' \in Nat /\ pausedUntil' >= until
    <3> HIDE DEF until, outcomes
    <3> QED BY <1>1, <2>1, <2>2 DEF RegimePaused
  <2> HIDE DEF until, outcomes
  <2> QED BY <1>1, <2>2, <2>3
<1> HIDE DEF n, w, c
<1>5. /\ lossStreak' <= Len(closes')
      /\ \A j \in DOMAIN closes' : j > Len(closes') - lossStreak' => ~closes'[j].win
      /\ lossStreak' < Len(closes') => closes'[Len(closes') - lossStreak'].win
  <2>0. n = Len(closes)
    BY DEF n
  <2>1. CASE w
    <3>1. lossStreak' = 0 /\ closes'[n + 1].win
      BY <1>2, <1>3, <2>1
    <3> QED BY <1>1, <1>3, <3>1
  <2>2. CASE ~w
    <3>1. /\ lossStreak' = lossStreak + 1 /\ lossStreak <= n
          /\ Len(closes') - lossStreak' = n - lossStreak
      BY <1>1, <1>2, <1>3, <2>0, <2>2 DEF PauseInv
    <3>2. ASSUME NEW j \in 1..(n + 1), j > n - lossStreak PROVE ~closes'[j].win
      <4>1. CASE j = n + 1
        BY <1>3, <2>2, <4>1
      <4>2. CASE j \in 1..n
        BY <1>1, <1>3, <2>0, <3>2, <4>2 DEF PauseInv
      <4> QED BY <1>1, <4>1, <4>2
    <3>3. lossStreak < n => closes'[n - lossStreak].win
      BY <1>1, <1>3, <2>0 DEF PauseInv
    <3> QED BY <1>1, <1>3, <3>1, <3>2, <3>3
  <2> QED BY <2>1, <2>2
<1>6. \A i \in DOMAIN closes' : closes'[i].at <= now'
  BY <1>1, <1>2, <1>3 DEF PauseInv
<1>7. ASSUME NEW i \in DOMAIN closes', StreakAt(i)'
      PROVE  pausedUntil' >= closes'[i].at + LossPauseSecs
  <2>0. n = Len(closes) /\ i \in 1..(n + 1)
    BY <1>3 DEF n
  <2>1. /\ i >= LossStreakLimit
        /\ \A j \in (i - LossStreakLimit + 1)..i : ~closes'[j].win
    BY <1>7 DEF StreakAt
  <2>2. CASE i \in 1..n
    <3>1. StreakAt(i)
      <4>1. \A j \in (i - LossStreakLimit + 1)..i : j \in 1..n
        BY <1>1, <2>1, <2>2
      <4> QED BY <1>3, <2>1, <4>1 DEF StreakAt
    <3>2. pausedUntil >= closes[i].at + LossPauseSecs /\ closes[i].at <= now
      BY <1>3, <2>2, <3>1 DEF PauseInv
    <3>3. closes[i].at \in Nat /\ closes'[i] = closes[i]
      BY <1>3, <2>2, CloseType
    <3> QED BY <1>1, <1>4, <3>2, <3>3
  <2>3. CASE i = n + 1
    <3>1. ~w
      BY <1>1, <1>3, <2>1, <2>3
    <3>2. lossStreak + 1 >= LossStreakLimit
      <4> SUFFICES ASSUME lossStreak + 1 < LossStreakLimit PROVE FALSE
        BY <1>1
      <4>1. n - lossStreak \in 1..n /\ n - lossStreak \in (i - LossStreakLimit + 1)..i
        BY <1>1, <2>1, <2>3
      <4>2. closes[n - lossStreak].win
        BY <1>1, <2>0, <4>1 DEF PauseInv
      <4> QED BY <1>3, <2>1, <4>1, <4>2
    <3> QED BY <1>3, <1>4, <2>3, <3>1, <3>2
  <2> QED BY <1>1, <2>0, <2>2, <2>3
<1>8. LossPauseSecs >= RegimePauseSecs => pausedUntil' <= now' + LossPauseSecs
  BY <1>1, <1>2 DEF NotePositionClosed, RegimePaused, StreakPause, PauseInv
<1> QED BY <1>5, <1>6, <1>7, <1>8 DEF PauseInv

\* Every step keeps the streak counter and the pause in line with the closes.
LEMMA PauseStep ==
    ASSUME TypeOK, TypeOK', PauseInv, [Next]_vars
    PROVE  PauseInv'
<1>1. ASSUME NEW pnl \in Pnl, NotePositionClosed(pnl) PROVE PauseInv'
  BY <1>1, PauseClose
<1>2. CASE now <= now' /\ UNCHANGED <<lossStreak, pausedUntil, closes>>
  BY <1>2, PauseKept
<1>3. \/ now <= now' /\ UNCHANGED <<lossStreak, pausedUntil, closes>>
      \/ \E pnl \in Pnl : NotePositionClosed(pnl)
  <2>1. now \in Nat
    BY CloseType
  <2>2. ASSUME NEW open, NEW t, NEW filled, InitiateBuyAllowed(open, t, filled)
        PROVE  now <= now' /\ UNCHANGED <<lossStreak, pausedUntil, closes>>
    BY <2>1, <2>2, StrategyAssumption DEF InitiateBuyAllowed
  <2>3. ClockAdvances => now <= now' /\ UNCHANGED <<lossStreak, pausedUntil, closes>>
    BY <2>1 DEF ClockAdvances, ctl, hist
  <2> QED BY <2>1, <2>2, <2>3
             DEF Next, vars, ctl, hist, InitiateBuyBlocked, InitiateBuyNoWallet,
                 RollDayIfNeeded, RowAbandoned
<1> QED BY <1>1, <1>2, <1>3

\* The streak counter and the pause follow from the closes in every state.
THEOREM PauseInvAlways == Spec => []PauseInv
<1>1. Init => PauseInv
  BY StrategyAssumption DEF Init, PauseInv, StreakAt
<1>2. TypeOK /\ TypeOK' /\ PauseInv /\ [Next]_vars => PauseInv'
  BY PauseStep
<1> QED BY <1>1, <1>2, TypeCorrect, PTL DEF Spec

\* After loss_streak_limit losses in a row nothing opens for the whole pause, for
\* every configuration and whatever regime pauses interfere.
THEOREM LossPauseHonouredAlways == Spec => LossPauseHonoured
<1>1. TypeOK /\ PauseInv /\ [Next]_vars =>
        [Opening => \A i \in DOMAIN closes :
                       StreakAt(i) => now >= closes[i].at + LossPauseSecs]_vars
  <2> SUFFICES ASSUME TypeOK, PauseInv, [Next]_vars, Opening,
                      NEW i \in DOMAIN closes, StreakAt(i)
               PROVE  now >= closes[i].at + LossPauseSecs
    OBVIOUS
  <2>1. now >= pausedUntil
    BY OpeningIsAllowed DEF InitiateBuyAllowed, CanOpen
  <2>2. pausedUntil >= closes[i].at + LossPauseSecs
    BY DEF PauseInv
  <2>3. closes[i].at \in Nat /\ now \in Nat /\ pausedUntil \in Nat
    BY CloseType
  <2> QED BY <2>1, <2>2, <2>3, StrategyAssumption
<1> QED BY <1>1, TypeCorrect, PauseInvAlways, PTL DEF Spec, LossPauseHonoured

\* With a streak pause at least as long as the regime pause, a pause only grows.
THEOREM PauseNeverShortenedAlways == Spec => PauseNeverShortened
<1>1. TypeOK /\ PauseInv /\ [Next]_vars =>
        [LossPauseSecs >= RegimePauseSecs => pausedUntil' >= pausedUntil]_vars
  <2> SUFFICES ASSUME TypeOK, PauseInv, [Next]_vars, LossPauseSecs >= RegimePauseSecs
               PROVE  pausedUntil' >= pausedUntil
    OBVIOUS
  <2>0. pausedUntil \in Nat /\ now \in Nat /\ pausedUntil <= now + LossPauseSecs
    BY TimeDays DEF TypeOK, PauseInv
  <2>1. ASSUME NEW pnl \in Pnl, NotePositionClosed(pnl) PROVE pausedUntil' >= pausedUntil
    BY <2>0, <2>1, StrategyAssumption DEF NotePositionClosed, RegimePaused, StreakPause
  <2>2. pausedUntil' = pausedUntil \/ \E pnl \in Pnl : NotePositionClosed(pnl)
    BY DEF Next, vars, ctl, hist, ClockAdvances, InitiateBuyBlocked, InitiateBuyNoWallet,
           RollDayIfNeeded, InitiateBuyAllowed, RowAbandoned
  <2> QED BY <2>0, <2>1, <2>2
<1> QED BY <1>1, TypeCorrect, PauseInvAlways, PTL DEF Spec, PauseNeverShortened
=============================================================================
