------------------------------ MODULE ExitLadder ------------------------------
(***************************************************************************)
(* One open position under exit management: process_positions of           *)
(* src/src/autobuy/manager.rs with the price filter and the stop rules of  *)
(* exit_engine.rs.  Every Tick observes a market cap, updates the          *)
(* position's memory and takes the first rung of the ladder that is due:   *)
(* momentum decay, time kill, crash, stop loss, mcap ceiling, trailing     *)
(* stop, then the take-profits in order.                                   *)
(*                                                                         *)
(* Market caps are percentages of the entry market cap, so that a PnL is   *)
(* the market cap minus 100.  The profile and phase in force (module state *)
(* of the live scorer) reach the ladder only through the take-profit       *)
(* parameters, which are an input of each tick, as are the verdict of the  *)
(* decay test (FALSE while there is no live tape), the width of the        *)
(* trailing stop and the time-kill window (one that never ends when the    *)
(* time kill is skipped).                                                  *)
(***************************************************************************)
EXTENDS Integers, Sequences, FiniteSets

CONSTANTS
    Mcap,          \* raw market caps the feed can report, percent of the entry
    McapMax,       \* EXIT_MCAP_ABS_MAX, percent of the entry
    Params,        \* take-profit parameters of the profiles and phases
    Drawdowns,     \* results of adaptive_trailing
    KillWindows,   \* results of time_kill_window_profile
    MedianTicks,   \* exit_mcap_median_ticks
    BandLow,       \* exit_mcap_band_low_ratio, percent
    BandHigh,      \* exit_mcap_band_high_ratio, percent
    Staircase,     \* steps of profit_lock_staircase_floor: <<peak, floor>>
    StartFloor,    \* exit_profit_floor of a new position
    DecayConfirm,  \* decay_confirm_ticks
    DecayExtra,    \* decay_early_extra_confirm_ticks
    EarlyHold,     \* decay_early_hold_secs
    EarlyProfit,   \* decay_early_mcap_profit_min_pct
    ExitGrace,     \* exit_grace_secs
    KillProfit,    \* time_kill_min_profit_pct
    SlGrace,       \* sl_grace_secs
    SlConfirm,     \* sl_confirm_ticks
    CrashPnl,      \* sl_crash_pnl_pct
    CrashDrop,     \* sl_crash_tick_drop_pct
    Ceiling,       \* mcap_ceiling_sol, percent of the entry
    U8Max,         \* bound of the saturating u8 streaks
    MaxHeld,       \* bound: seconds held that are told apart
    MaxFails       \* bound: sells that fail

TpLevels == 1..5

ParamsType == [tp : [TpLevels -> Int], activate : Int, trailFloor : Int,
               smartAt : Int, smartFloor : Int]

ASSUME LadderAssumption ==
    /\ Mcap \subseteq Nat /\ 100 \in Mcap /\ McapMax \in Nat
    /\ Params \subseteq ParamsType
    /\ \A p \in Params : /\ \A n \in 1..4 : p.tp[n] <= p.tp[n + 1]
                         /\ p.trailFloor >= StartFloor
    /\ Drawdowns \subseteq 0..100
    /\ KillWindows \subseteq Nat
    /\ MedianTicks \in Nat \ {0}
    /\ BandLow \in 0..100 /\ BandHigh \in Nat /\ BandHigh >= 100
    /\ Staircase \subseteq Int \X Int /\ IsFiniteSet(Staircase)
    /\ StartFloor \in Int /\ KillProfit \in Int /\ CrashPnl \in Int
    /\ CrashDrop \in Nat /\ Ceiling \in Nat \ {0}
    /\ DecayConfirm \in Nat \ {0} /\ SlConfirm \in Nat \ {0}
    /\ U8Max \in Nat /\ SlConfirm <= U8Max
    /\ DecayExtra \in Nat /\ DecayConfirm + DecayExtra <= U8Max
    /\ EarlyHold \in Nat /\ EarlyProfit \in Int
    /\ ExitGrace \in Nat /\ SlGrace \in Nat
    /\ MaxHeld \in Nat /\ MaxFails \in Nat

\* The configurations in which the price filter does its work: it has a window of three
\* samples, a stop loss takes two ticks, and nothing is due at the entry itself.
ASSUME CalmAssumption ==
    /\ MedianTicks >= 3 /\ SlConfirm >= 2
    /\ StartFloor < 0 /\ Ceiling > 100
    /\ \A p \in Params : p.activate > 0 /\ p.smartAt > 0
    /\ \A t \in Staircase : t[1] > 0

VARIABLES
    open,            \* the row is in the positions map
    samples,         \* exit_mcap_ticks
    prevRaw,         \* sl_prev_raw_mcap, 0 before the first tick
    peak,            \* peak_profit_pct; highest_mcap is Entry + peak
    floor,           \* exit_profit_floor
    trailing,        \* trailing_active
    tps,             \* take-profits whose tpN_triggered is set
    ceilingHit,      \* mcap_ceiling_triggered
    slStreak,        \* sl_below_floor_streak
    decayStreak,     \* decay_streak
    isClosing,       \* is_closing
    pendingPartial,  \* pending_partial_sell
    fullSells,       \* ExecuteSell messages of 100 percent on their way
    partialSells,    \* ExecuteSell messages below 100 percent on their way
    held,            \* seconds since entry_time
    fails,           \* sells that failed so far
    exit,            \* why the last full close was queued (history)
    lowRun,          \* ticks in a row at or below the floor (history)
    lockRun,         \* managed ticks in a row at or below the locked profit (history)
    tape             \* how often the price has left the entry level (history)

memory  == <<samples, prevRaw, peak>>
levels  == <<floor, trailing, tps, ceilingHit>>
streaks == <<slStreak, decayStreak>>
flags   == <<isClosing, pendingPartial>>
queues  == <<fullSells, partialSells>>
hist    == <<exit, lowRun, lockRun, tape>>
vars == <<open, memory, levels, streaks, flags, queues, held, fails, hist>>

Entry == 100

Larger(a, b) == IF a > b THEN a ELSE b
Smaller(a, b) == IF a < b THEN a ELSE b

\* handle_buy_completed opens the row with the entry in the window: twice, and as the
\* previous raw market cap, when the receipt carries the market cap of the fill.
Opened(filled) ==
    /\ samples = [i \in 1..IF filled /\ MedianTicks > 1 THEN 2 ELSE 1 |-> Entry]
    /\ prevRaw = IF filled THEN Entry ELSE 0

Init ==
    /\ open = TRUE
    /\ \E filled \in BOOLEAN : Opened(filled)
    /\ peak = 0
    /\ floor = StartFloor
    /\ trailing = FALSE
    /\ tps = {}
    /\ ceilingHit = FALSE
    /\ slStreak = 0
    /\ decayStreak = 0
    /\ isClosing = FALSE
    /\ pendingPartial = FALSE
    /\ fullSells = 0
    /\ partialSells = 0
    /\ held = 0
    /\ fails = 0
    /\ exit = "none"
    /\ lowRun = 0
    /\ lockRun = 0
    /\ tape = "calm"

-----------------------------------------------------------------------------
(***************************************************************************)
(* What a tick observes.                                                   *)
(***************************************************************************)

\* exit_mcap_valid: zero stands for a pool without a market cap, or with one that is not
\* a number.
Valid(raw) == 0 < raw /\ raw <= McapMax

\* Variant: invalid samples are pushed too.
PushAnyTick(raw) ==
    LET all == Append(samples, raw)
    IN  IF Len(all) > MedianTicks THEN Tail(all) ELSE all

\* push_exit_mcap_tick: valid samples only, the last MedianTicks of them.
PushExitMcapTick(raw) ==
    LET all == Append(samples, raw)
    IN  IF ~Valid(raw) THEN samples
        ELSE IF Len(all) > MedianTicks THEN Tail(all) ELSE all

\* exit_mcap_median: the upper median of the samples at the indices in I, one at least.
Median(s, I) ==
    CHOOSE x \in {s[i] : i \in I} :
        /\ 2 * Cardinality({i \in I : s[i] < x}) <= Cardinality(I)
        /\ 2 * Cardinality({i \in I : s[i] <= x}) > Cardinality(I)

\* Variant: no filter, the last sample.
LastSample(s) == IF s = <<>> THEN Entry ELSE s[Len(s)]

\* filtered_exit_mcap: the median of the samples in a band around their median,
\* and the entry while there is no sample.
FilteredExitMcap(s) ==
    LET mid    == Median(s, DOMAIN s)
        inBand == {i \in DOMAIN s : s[i] * 100 >= mid * BandLow /\ s[i] * 100 <= mid * BandHigh}
    IN  IF s = <<>> THEN Entry ELSE Median(s, inBand)

\* Variant: a peak locks a step only at twice its threshold.
LateLock(p, f) ==
    LET locks == {s[2] : s \in {t \in Staircase : p >= 2 * t[1]}}
    IN  IF locks = {} THEN f
        ELSE Larger(f, CHOOSE x \in locks : \A y \in locks : x >= y)

\* profit_lock_staircase_floor applied to a floor: it is raised, never lowered.
LockedFloor(p, f) ==
    LET locks == {s[2] : s \in {t \in Staircase : p >= t[1]}}
    IN  IF locks = {} THEN f
        ELSE Larger(f, CHOOSE x \in locks : \A y \in locks : x >= y)

\* Everything a tick derives from the raw market cap before the ladder.
Observe(raw) ==
    LET s == PushExitMcapTick(raw)
        filt == FilteredExitMcap(s)
        top == Larger(peak, filt - Entry)
    IN  [samples  |-> s,
         mcap     |-> filt,
         profit   |-> filt - Entry,
         rawPnl   |-> raw - Entry,
         slProfit |-> Smaller(filt, raw) - Entry,
         crashed  |-> /\ Valid(prevRaw) /\ Valid(raw)
                      /\ (prevRaw - raw) * 100 >= CrashDrop * prevRaw,
         peak     |-> top,
         floor    |-> LockedFloor(top, floor)]

InSlGrace == held < SlGrace

SatInc(streak) == Smaller(streak + 1, U8Max)

\* Variant: the streak is not reset by a tick above the floor.
SlStreakKept(o) ==
    IF InSlGrace THEN 0
    ELSE IF o.slProfit <= o.floor THEN SatInc(slStreak) ELSE slStreak

\* The stop-loss streak after a tick that reaches the stop loss.
SlStreakAfter(o) ==
    IF ~InSlGrace /\ o.slProfit <= o.floor THEN SatInc(slStreak) ELSE 0

InExitGrace == held < ExitGrace

\* The decay streak: only counted after the exit grace.
DecayStreakAfter(decaying) ==
    IF InExitGrace THEN decayStreak
    ELSE IF decaying THEN SatInc(decayStreak) ELSE 0

\* Enough ticks of decay, and some more while the position is young and green.
DecayDue(o, decaying) ==
    LET early == held < EarlyHold /\ o.rawPnl >= EarlyProfit
    IN  /\ ~InExitGrace
        /\ DecayStreakAfter(decaying) >= DecayConfirm + IF early THEN DecayExtra ELSE 0

-----------------------------------------------------------------------------
(***************************************************************************)
(* The ladder.                                                             *)
(***************************************************************************)

CrashDue(o) ==
    \/ o.slProfit <= CrashPnl
    \/ ~InSlGrace /\ o.crashed /\ o.rawPnl < 0

TrailingDue(o, drawdown) ==
    trailing /\ o.mcap * 100 <= (Entry + o.peak) * (100 - drawdown)

TpDue(o, par, n) == ~pendingPartial /\ o.profit >= par.tp[n] /\ n \notin tps

\* The rungs that end the tick, in the order of the code; the take-profits come
\* after them as rungs 6 + n.
FullExits == {1, 2, 3, 4, 6}
Reason == <<"decay", "time kill", "crash", "sl", "ceiling", "trailing">>

DueRungs(o, decaying, kill, drawdown) ==
    {r \in 1..6 : CASE r = 1 -> DecayDue(o, decaying)
                    [] r = 2 -> held >= kill /\ o.profit < KillProfit
                    [] r = 3 -> CrashDue(o)
                    [] r = 4 -> ~InSlGrace /\ SlStreakAfter(o) >= SlConfirm
                    [] r = 5 -> o.mcap >= Ceiling /\ ~ceilingHit /\ ~pendingPartial
                    [] r = 6 -> TrailingDue(o, drawdown)}

\* Variant: the highest take-profit that is due goes first.
HighestTp(o, par) ==
    LET due == {n \in TpLevels : TpDue(o, par, n)}
    IN  IF due = {} THEN {} ELSE {CHOOSE n \in due : \A m \in due : n >= m}

\* The one take-profit a tick queues: the lowest that is due.
NextTp(o, par) ==
    LET due == {n \in TpLevels : TpDue(o, par, n)}
    IN  IF due = {} THEN {} ELSE {CHOOSE n \in due : \A m \in due : n <= m}

\* The upgrades of floor and trailing for a tick that gets past the trailing stop.
UpgradedFloor(o, par) ==
    IF o.profit >= par.activate
    THEN IF trailing THEN o.floor ELSE par.trailFloor
    ELSE IF o.profit >= par.smartAt THEN Larger(o.floor, par.smartFloor) ELSE o.floor

\* A rung that queues a 100 percent sell.
TakeFullExit(o, r) ==
    /\ floor' = o.floor
    /\ slStreak' = IF r <= 3 THEN slStreak ELSE SlStreakAfter(o)
    /\ isClosing' = TRUE
    /\ fullSells' = fullSells + 1
    /\ exit' = Reason[r]
    /\ UNCHANGED <<trailing, tps, ceilingHit, pendingPartial, partialSells>>

\* The mcap ceiling: a partial sell, and the rest goes under the trailing stop.
TakeCeiling(o, par) ==
    /\ floor' = IF trailing THEN o.floor ELSE Larger(o.floor, par.trailFloor)
    /\ slStreak' = SlStreakAfter(o)
    /\ trailing' = TRUE
    /\ ceilingHit' = TRUE
    /\ pendingPartial' = TRUE
    /\ partialSells' = partialSells + 1
    /\ UNCHANGED <<tps, isClosing, fullSells, exit>>

\* No rung is due: upgrade the protection, and queue at most one take-profit.
TakeProfit(o, par) ==
    /\ floor' = UpgradedFloor(o, par)
    /\ slStreak' = SlStreakAfter(o)
    /\ trailing' = (trailing \/ o.profit >= par.activate)
    /\ tps' = tps \cup NextTp(o, par)
    /\ pendingPartial' = (pendingPartial \/ NextTp(o, par) # {})
    /\ partialSells' = partialSells + Cardinality(NextTp(o, par))
    /\ UNCHANGED <<ceilingHit, isClosing, fullSells, exit>>

-----------------------------------------------------------------------------
\* History of the tape: one glitch is a single tick off the entry level; it is late
\* when it finds two samples in the filter's window.
TapeAfter(raw) ==
    CASE raw = Entry -> tape
      [] raw # Entry /\ tape = "calm" -> IF Len(samples) >= 2 THEN "late" ELSE "early"
      [] OTHER -> "moved"

\* The profit a peak locks: every step of the staircase it has reached, and no less than
\* the stop loss of a new position.
LockOf(p) ==
    CHOOSE x \in {StartFloor} \cup {s[2] : s \in Staircase} :
        /\ x = StartFloor \/ \E s \in Staircase : p >= s[1] /\ x = s[2]
        /\ x >= StartFloor
        /\ \A s \in Staircase : p >= s[1] => x >= s[2]

CountRun(run, low) == IF low THEN Smaller(run + 1, SlConfirm) ELSE 0

\* The ladder on one observation: the first rung that is due, and nothing after it.
Ladder(o, par, decaying, kill, drawdown) ==
    LET due == DueRungs(o, decaying, kill, drawdown)
        first == {r \in due : \A q \in due : r <= q}
    IN  /\ decayStreak' = DecayStreakAfter(decaying)
        /\ \/ \E r \in first \cap FullExits : TakeFullExit(o, r)
           \/ first \ FullExits # {} /\ TakeCeiling(o, par)
           \/ due = {} /\ TakeProfit(o, par)

\* process_positions on a managed row.
Tick(raw) ==
    /\ open /\ ~isClosing
    /\ \E o \in {Observe(raw)} :
          /\ samples' = o.samples
          /\ peak' = o.peak
          /\ \E par \in Params, decaying \in BOOLEAN, kill \in KillWindows, dd \in Drawdowns :
                Ladder(o, par, decaying, kill, dd)
          /\ lowRun' = CountRun(lowRun, ~InSlGrace /\ o.slProfit <= o.floor)
          /\ lockRun' = CountRun(lockRun, ~InSlGrace /\ o.slProfit <= LockOf(o.peak))
    /\ prevRaw' = raw
    /\ tape' = TapeAfter(raw)
    /\ UNCHANGED <<open, held, fails>>

\* process_positions skips a row that is queued for a full close; the market does not.
SkippedTick(raw) ==
    /\ open /\ isClosing
    /\ lowRun' = CountRun(lowRun, ~InSlGrace /\ raw - Entry <= floor)
    /\ tape' = TapeAfter(raw)
    /\ UNCHANGED <<open, memory, levels, streaks, flags, queues, held, fails, exit, lockRun>>

SecondPasses ==
    /\ open /\ held < MaxHeld
    /\ held' = held + 1
    /\ UNCHANGED <<open, memory, levels, streaks, flags, queues, fails, hist>>

\* ExecuteSell of 100 percent: done or failed.
FullSellDone ==
    /\ open /\ fullSells > 0
    /\ open' = FALSE
    /\ fullSells' = fullSells - 1
    /\ UNCHANGED <<memory, levels, streaks, flags, partialSells, held, fails, hist>>

\* A sell that fails in a way that hands the row back to the ladder.
HandBack ==
    /\ fails < MaxFails
    /\ fails' = fails + 1
    /\ isClosing' = FALSE
    /\ pendingPartial' = FALSE
    /\ lockRun' = 0
    /\ UNCHANGED <<open, memory, levels, streaks, held, exit, lowRun, tape>>

FullSellFailed ==
    /\ open /\ fullSells > 0
    /\ HandBack
    /\ fullSells' = fullSells - 1
    /\ UNCHANGED partialSells

\* ExecuteSell below 100 percent, done or failed: the trigger stays set.
PartialSettled ==
    /\ open /\ partialSells > 0
    /\ pendingPartial' = FALSE
    /\ partialSells' = partialSells - 1
    /\ UNCHANGED <<open, memory, levels, streaks, isClosing, fullSells, held, fails, hist>>

\* A partial sell for which no route is left clears the flag of a full close as well.
PartialExhausted ==
    /\ open /\ partialSells > 0
    /\ HandBack
    /\ partialSells' = partialSells - 1
    /\ UNCHANGED fullSells

\* The position is gone.
Closed == ~open /\ UNCHANGED vars

Next ==
    \/ \E raw \in Mcap : Tick(raw) \/ SkippedTick(raw)
    \/ SecondPasses
    \/ FullSellDone \/ FullSellFailed \/ PartialSettled \/ PartialExhausted
    \/ Closed

Spec == Init /\ [][Next]_vars

-----------------------------------------------------------------------------
(***************************************************************************)
(* Properties.                                                             *)
(***************************************************************************)

\* Type invariant: the window never exceeds exit_mcap_median_ticks and holds valid
\* samples only, the streaks stay in their u8.
TypeOK ==
    /\ open \in BOOLEAN
    /\ samples \in Seq(Mcap \ {0}) /\ Len(samples) <= MedianTicks
    /\ prevRaw \in Nat
    /\ peak \in Nat
    /\ floor \in Int
    /\ trailing \in BOOLEAN /\ ceilingHit \in BOOLEAN
    /\ tps \in SUBSET TpLevels
    /\ slStreak \in 0..U8Max /\ decayStreak \in 0..U8Max
    /\ isClosing \in BOOLEAN /\ pendingPartial \in BOOLEAN
    /\ fullSells \in 0..(MaxFails + 1) /\ partialSells \in 0..(MaxFails + 1)
    /\ held \in 0..MaxHeld /\ fails \in 0..MaxFails
    /\ exit \in {"none"} \cup {Reason[r] : r \in FullExits}
    /\ lowRun \in 0..SlConfirm /\ lockRun \in 0..SlConfirm
    /\ tape \in {"calm", "early", "late", "moved"}

\* "check TP1 before TP2 so they fire in the correct order": whatever profiles and
\* phases were in force, whatever ticks were skipped and sells failed, the
\* take-profits that have fired are TP1 up to some TPn.
TpInOrder == \A n \in tps : \A m \in 1..n : m \in tps

\* The profit lock holds: a managed position is never left open after SlConfirm
\* ticks in a row (since the last failed sell) at or below the profit that its peak
\* has locked, although other rules assign the floor too.
LockEnforced == open /\ lockRun >= SlConfirm => isClosing

\* As long as no sell has failed, a stop loss that is not a crash was confirmed by
\* SlConfirm ticks in a row at or below the floor.
SlConfirmed ==
    [][fails = 0 /\ ~isClosing /\ isClosing' /\ exit' = "sl" => lowRun' >= SlConfirm]_vars

\* Once the window holds two samples (with the market cap of a fill: from the first
\* tick on), a single odd tick closes nothing but as a crash (or as a decay or time
\* kill, which do not look at that tick).
LateGlitchTolerated == tape = "late" => exit \notin {"sl", "trailing"}

\* Refuted: the stop loss fires only after sl_confirm_ticks ticks in a row (README).
\* A failed sell keeps the streak, so that one tick fires the stop loss again.
SlAlwaysConfirmed ==
    [][~isClosing /\ isClosing' /\ exit' = "sl" => lowRun' >= SlConfirm]_vars

\* Refuted: the filter guards stop loss and trailing against single bad ticks
\* (positions.rs).  The upper median of two samples is the larger one.
GlitchTolerated == tape \in {"early", "late"} => exit \notin {"sl", "trailing"}
=============================================================================
