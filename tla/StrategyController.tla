-------------------------- MODULE StrategyController --------------------------
(***************************************************************************)
(* The risk gate inside the position manager actor                         *)
(* (src/src/scoring/strategy_controller.rs) and the two handlers that call *)
(* it: InitiateBuy (can_open, then note_position_opened) and the close of a*)
(* wallet's position (note_position_closed).                               *)
(*                                                                         *)
(* The clock is the wall clock in seconds and never goes back.  It may     *)
(* advance between any two calls, also between can_open and                *)
(* note_position_opened of one signal; the reads inside one call are one   *)
(* read.  SOL amounts are whole units, ratios are percentages.  The number *)
(* of open mints is an input of can_open: module PositionManager counts it.*)
(***************************************************************************)
EXTENDS Integers, Sequences, FiniteSets

CONSTANTS
    DaySecs,           \* 86_400
    MaxOpen,           \* StrategyConfig.max_open_positions
    MaxTradesPerDay,   \* max_trades_per_day
    MaxDailyLoss,      \* max_daily_loss_sol, negative
    ProfitLock,        \* daily_profit_lock_sol, positive
    LossStreakLimit,   \* loss_streak_limit
    LossPauseSecs,     \* loss_streak_pause_secs
    RegimePause,       \* market_regime_pause
    RegimeWindow,      \* market_regime_window
    RegimeLossPct,     \* market_regime_loss_ratio
    RegimePauseSecs,   \* market_regime_pause_secs
    Wallets,           \* rows one signal can open: enabled wallets
    Pnl,               \* realised results of a close, in SOL
    MaxTime,           \* bound: the clock stops here
    MaxRows,           \* bound: rows open at once
    MaxCloses          \* bound: closes recorded

ASSUME StrategyAssumption ==
    /\ DaySecs \in Nat \ {0}
    /\ MaxOpen \in Nat /\ MaxTradesPerDay \in Nat
    /\ MaxDailyLoss \in Int /\ MaxDailyLoss < 0
    /\ ProfitLock \in Int /\ ProfitLock > 0
    /\ LossStreakLimit \in Nat \ {0}
    /\ LossPauseSecs \in Nat /\ RegimePauseSecs \in Nat
    /\ RegimePause \in BOOLEAN
    /\ RegimeWindow \in Nat /\ RegimeLossPct \in Nat
    /\ Wallets \in Nat
    /\ Pnl \subseteq Int
    /\ MaxTime \in Nat /\ MaxRows \in Nat /\ MaxCloses \in Nat

VARIABLES
    now,             \* unix_now
    dayUnix,         \* day_unix
    dailyTrades,     \* daily_trades
    dailyPnl,        \* daily_pnl_sol
    lossStreak,      \* loss_streak
    pausedUntil,     \* paused_until_unix
    recentOutcomes,  \* recent_outcomes, TRUE = win
    rows,            \* positions of single wallets that are open
    opens,           \* per UTC day: signals admitted on it (history)
    realised,        \* per UTC day: SOL realised on it (history)
    closes           \* every close so far, with its time (history)

ctl  == <<dayUnix, dailyTrades, dailyPnl, lossStreak, pausedUntil, recentOutcomes>>
hist == <<opens, realised, closes>>
vars == <<now, ctl, rows, hist>>

Time == 0..MaxTime

\* current_day: the UTC midnight before t.
CurrentDay(t) == t - (t % DaySecs)

Days == {CurrentDay(t) : t \in Time}

Init ==
    /\ now = 0
    /\ dayUnix = CurrentDay(0)
    /\ dailyTrades = 0
    /\ dailyPnl = 0
    /\ lossStreak = 0
    /\ pausedUntil = 0
    /\ recentOutcomes = <<>>
    /\ rows = 0
    /\ opens = [d \in Days |-> 0]
    /\ realised = [d \in Days |-> 0]
    /\ closes = <<>>

-----------------------------------------------------------------------------
\* Variant: the day moves on but the counters are kept.
NotRolled(t, counter) == counter

\* roll_day_if_needed: what the daily counters are after it, at time t.
Rolled(t, counter) == IF CurrentDay(t) # dayUnix THEN 0 ELSE counter

\* Variants: one trade too many; open at the loss cap itself.
CanOpenOneMore(open, trades, pnl) ==
    /\ open < MaxOpen
    /\ trades <= MaxTradesPerDay
    /\ pnl > MaxDailyLoss
    /\ pnl < ProfitLock
    /\ now >= pausedUntil

CanOpenAtLossCap(open, trades, pnl) ==
    /\ open < MaxOpen
    /\ trades < MaxTradesPerDay
    /\ pnl >= MaxDailyLoss
    /\ pnl < ProfitLock
    /\ now >= pausedUntil

\* can_open after the roll: the first limit that is reached decides.
CanOpen(open, trades, pnl) ==
    /\ open < MaxOpen
    /\ trades < MaxTradesPerDay
    /\ pnl > MaxDailyLoss
    /\ pnl < ProfitLock
    /\ now >= pausedUntil

\* Time passes between two messages of the actor.
ClockAdvances ==
    /\ now < MaxTime
    /\ now' = now + 1
    /\ UNCHANGED <<ctl, rows, hist>>

\* roll_day_if_needed on its own.
RollDayIfNeeded ==
    /\ dayUnix' = CurrentDay(now)
    /\ dailyTrades' = Rolled(now, dailyTrades)
    /\ dailyPnl' = Rolled(now, dailyPnl)
    /\ UNCHANGED <<now, lossStreak, pausedUntil, recentOutcomes, rows, hist>>

\* InitiateBuy blocked by can_open: only the roll is left behind.
InitiateBuyBlocked(open) ==
    /\ ~CanOpen(open, Rolled(now, dailyTrades), Rolled(now, dailyPnl))
    /\ RollDayIfNeeded

\* InitiateBuy allowed by can_open, but no wallet is enabled: nothing is counted.
InitiateBuyNoWallet(open) ==
    /\ CanOpen(open, Rolled(now, dailyTrades), Rolled(now, dailyPnl))
    /\ RollDayIfNeeded

\* InitiateBuy allowed by can_open at `now`, counted by note_position_opened at
\* the later time t; `filled` wallets of the fan-out will get a position.
InitiateBuyAllowed(open, t, filled) ==
    /\ CanOpen(open, Rolled(now, dailyTrades), Rolled(now, dailyPnl))
    /\ t \in now..MaxTime
    /\ now' = t
    /\ dayUnix' = CurrentDay(t)
    /\ dailyTrades' = Rolled(t, dailyTrades) + 1
    /\ dailyPnl' = Rolled(t, dailyPnl)
    /\ rows + filled <= MaxRows
    /\ rows' = rows + filled
    /\ opens' = [opens EXCEPT ![CurrentDay(t)] = @ + 1]
    /\ UNCHANGED <<lossStreak, pausedUntil, recentOutcomes, realised, closes>>

\* Variant: the window keeps one outcome too many.
PushOutcomeLate(win) ==
    LET all == Append(recentOutcomes, win)
    IN  IF Len(all) > RegimeWindow + 1
        THEN SubSeq(all, Len(all) - RegimeWindow, Len(all))
        ELSE all

\* recent_outcomes after one more close: the last market_regime_window of them.
PushOutcome(win) ==
    LET all == Append(recentOutcomes, win)
    IN  IF Len(all) > RegimeWindow
        THEN SubSeq(all, Len(all) - RegimeWindow + 1, Len(all))
        ELSE all

\* The regime test on the window: enough closes, and too many of them losses.
BadRegime(outcomes) ==
    LET lost == Cardinality({i \in DOMAIN outcomes : ~outcomes[i]})
    IN  /\ RegimePause
        /\ Len(outcomes) >= RegimeWindow /\ Len(outcomes) >= 1
        /\ lost * 100 >= RegimeLossPct * Len(outcomes)

\* Variants: the streak is allowed one loss more; every close starts the pause anew.
StreakPauseLate(streak) ==
    IF streak > LossStreakLimit THEN now + LossPauseSecs ELSE pausedUntil

RegimeRestartsPause(outcomes, until) ==
    IF BadRegime(outcomes) THEN now + RegimePauseSecs ELSE now

\* The pause a close leaves behind.  A streak assigns its pause; a bad regime
\* only ever moves the end of the pause out.
StreakPause(streak) ==
    IF streak >= LossStreakLimit THEN now + LossPauseSecs ELSE pausedUntil

RegimePaused(outcomes, until) ==
    IF BadRegime(outcomes) /\ now + RegimePauseSecs > until
    THEN now + RegimePauseSecs ELSE until

\* note_position_closed, called for every wallet's position that was sold in full.
NotePositionClosed(pnl) ==
    LET win == pnl > 0
        streak == IF win THEN 0 ELSE lossStreak + 1
        outcomes == PushOutcome(win)
    IN  /\ rows > 0 /\ Len(closes) < MaxCloses
        /\ rows' = rows - 1
        /\ dayUnix' = CurrentDay(now)
        /\ dailyTrades' = Rolled(now, dailyTrades)
        /\ dailyPnl' = Rolled(now, dailyPnl) + pnl
        /\ lossStreak' = streak
        /\ recentOutcomes' = outcomes
        /\ pausedUntil' = RegimePaused(outcomes, IF win THEN pausedUntil
                                                       ELSE StreakPause(streak))
        /\ realised' = [realised EXCEPT ![CurrentDay(now)] = @ + pnl]
        /\ closes' = Append(closes, [at |-> now, win |-> win])
        /\ UNCHANGED <<now, opens>>

\* A position abandoned by the operator leaves without a result.
RowAbandoned ==
    /\ rows > 0
    /\ rows' = rows - 1
    /\ UNCHANGED <<now, ctl, hist>>

Next ==
    \/ ClockAdvances
    \/ \E open \in 0..MaxOpen :
          \/ InitiateBuyBlocked(open)
          \/ InitiateBuyNoWallet(open)
          \/ \E t \in now..MaxTime, filled \in 0..Wallets : InitiateBuyAllowed(open, t, filled)
    \/ \E pnl \in Pnl : NotePositionClosed(pnl)
    \/ RowAbandoned

Spec == Init /\ [][Next]_vars

-----------------------------------------------------------------------------
(***************************************************************************)
(* Properties.                                                             *)
(***************************************************************************)

\* Type invariant: counters are numbers, the day is a midnight, the window never
\* holds more than market_regime_window outcomes.
TypeOK ==
    /\ now \in Time
    /\ dayUnix \in Days
    /\ dailyTrades \in Nat
    /\ dailyPnl \in Int
    /\ lossStreak \in Nat
    /\ pausedUntil \in Nat
    /\ recentOutcomes \in Seq(BOOLEAN) /\ Len(recentOutcomes) <= RegimeWindow
    /\ rows \in Nat
    /\ opens \in [Days -> Nat]
    /\ realised \in [Days -> Int]
    /\ closes \in Seq([at : Time, win : BOOLEAN])

\* The day counters are the ledger of their day, whatever midnights passed between
\* calls: nothing of another day is counted, nothing of this day is lost.
CountersMatchLedger ==
    /\ dayUnix <= now
    /\ dailyTrades = opens[dayUnix]
    /\ dailyPnl = realised[dayUnix]
    /\ \A d \in Days : d > dayUnix => opens[d] = 0 /\ realised[d] = 0

\* max_trades_per_day holds for every UTC day, also for a signal that is allowed
\* before midnight and counted after it.
DailyBudget == \A d \in Days : opens[d] <= MaxTradesPerDay

\* A position was opened in this step.
Opening == opens' # opens

\* No signal is admitted on a day whose realised result has hit the loss cap or the
\* profit lock (roll_day_if_needed must have dropped the right counters first).
DayLimitsHonoured ==
    [][Opening => /\ realised[CurrentDay(now')] > MaxDailyLoss
                  /\ realised[CurrentDay(now')] < ProfitLock]_vars

\* The i-th close was the last of loss_streak_limit losses in a row.
StreakAt(i) ==
    /\ i >= LossStreakLimit
    /\ \A j \in (i - LossStreakLimit + 1)..i : ~closes[j].win

\* After such a close nothing is opened for loss_streak_pause_secs, whatever closes
\* and regime pauses come in between.
LossPauseHonoured ==
    [][Opening => \A i \in DOMAIN closes :
                     StreakAt(i) => now >= closes[i].at + LossPauseSecs]_vars

\* Where the streak pause is at least as long as the regime pause (as in
\* filter_config.yaml), no close ever brings the end of a pause forward.
PauseNeverShortened ==
    [][LossPauseSecs >= RegimePauseSecs => pausedUntil' >= pausedUntil]_vars
=============================================================================
