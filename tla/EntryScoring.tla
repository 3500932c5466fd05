---------------------------- MODULE EntryScoring ----------------------------
(***************************************************************************)
(* The pure half of the entry decision: what the bot computes from the     *)
(* early tape of a launch (src/src/scoring: features.rs, score_engine.rs,  *)
(* anti_rug.rs, anti_bundle.rs, config.rs; src/src/learning/merge.rs).     *)
(* CreatePipeline runs these operators inside the task of one create.      *)
(*                                                                         *)
(* Units: market caps in SOL, volumes in tenths of a SOL, ratios and       *)
(* shares in percent, buy/sell ratios in tenths.  A tape point is          *)
(* [mcap, buyers, vol, sell, events] with cumulative vol, sell and events. *)
(***************************************************************************)
EXTENDS Integers, Sequences, FiniteSets, FiniteSetsExt

If(b, x) == IF b THEN x ELSE 0

Least(a, b) == IF a < b THEN a ELSE b

Greatest(a, b) == IF a > b THEN a ELSE b

\* The reason of the first gate whose condition holds, "none" when all pass.
FirstReason(gates) ==
    LET hit == {i \in DOMAIN gates : gates[i][1]}
    IN  IF hit = {} THEN "none" ELSE gates[Min(hit)][2]

Last(s) == s[Len(s)]

-----------------------------------------------------------------------------
\* Configuration: the defaults of config.rs.

Weights ==
    [dev_history_strong |-> 2, dev_history_weak |-> 2,
     dev_ranker_a_plus |-> 3, dev_ranker_a |-> 1, dev_ranker_bad |-> -3,
     smart_wallets_3plus |-> 4, smart_wallets_1plus |-> 1,
     buyers_10plus |-> 2, buyers_6plus |-> 1, buyers_below_3 |-> -2,
     buy_to_sell_ratio_high |-> 1, momentum_good |-> 2,
     momentum_overheated |-> -3, volume_ok |-> 1,
     bundle_similar |-> -4, bundle_identical |-> -5,
     buyer_velocity_persistent |-> 1, buyer_velocity_fading |-> -2,
     sell_pressure_high |-> -2, absorb_strong |-> 2,
     smart_early_exit_dump |-> -2, repeat_dump_penalty |-> -1]

FeatureThresholds ==
    [buyers_high |-> 10, buyers_mid |-> 6, buyers_low |-> 4, b2s_high |-> 17,
     good_low |-> 12, good_high |-> 30, overheated |-> 55, volume_ok |-> 120,
     similar_ratio |-> 70, identical_ratio |-> 50, tolerance |-> 10,
     smart_3plus |-> 4, smart_1plus |-> 1]

TierBGate ==
    [enabled |-> TRUE, min_smart |-> 0, min_buyers |-> 10, min_vol |-> 100,
     min_velocity |-> 5, watchlist |-> FALSE, hot |-> FALSE,
     hot_buyers |-> 25, hot_vol |-> 250, hot_velocity |-> 100]

WeakAGate ==
    [enabled |-> TRUE, max_score |-> 7, max_smart |-> 0, min_vol |-> 80,
     dumps |-> 1, second_look_max |-> 7,
     synthetic_b2s |-> 100, synthetic_sell |-> 20]

StrongABypass ==
    [enabled |-> TRUE, min_score |-> 8, min_buyers |-> 8, min_vol |-> 80,
     min_b2s |-> 17, min_persistence |-> 62]

SecondLook == [enabled |-> TRUE, recheck_slices |-> 3, min_score |-> 10]

AplusPeakGuard ==
    [enabled |-> TRUE, near_peak |-> 97, min_mcap |-> 90,
     strong_upticks |-> 2, strong_new_buyers |-> 2, recheck_min |-> 78]

Continuation ==
    [enabled |-> FALSE, confirm_slices |-> 2, min_upticks |-> 1, min_new_buyers |-> 1,
     min_rate |-> 0, window |-> 1500, max_b2s_drop |-> 60, max_absorption |-> 150]

AntiParabolic ==
    [enabled |-> FALSE, near_peak |-> 97, weak_score_max |-> 9, confirm_slices |-> 2,
     strong_upticks |-> 2, strong_new_buyers |-> 3]

AntiRug ==
    [enabled |-> TRUE, entry_gate |-> TRUE, min_sell |-> 20, min_fee_flow |-> 8,
     min_pressure |-> 5, min_vol |-> 80, absorb_min_sell |-> 15,
     b2s_max |-> 120, b2s_min_sell |-> 30, min_slices |-> 2,
     low_mcap |-> 90, low_mcap_vol |-> 250]

\* Sizes of a buy, in tenths of a SOL.
TierSize == [APlus |-> 4, A |-> 3, B |-> 2]

ScoringDefaults ==
    [slices |-> 3, a_plus |-> 9, a |-> 7, require_momentum_good |-> TRUE,
     smart_bypass |-> 2, aplus_smart_bypass |-> 1, minimum_tier |-> "A",
     spam_penalty |-> -3, spam_require_a_plus |-> TRUE, legacy |-> FALSE,
     weights |-> Weights, thresholds |-> FeatureThresholds, size |-> TierSize,
     anti_rug |-> AntiRug, continuation |-> Continuation,
     anti_parabolic |-> AntiParabolic, weak_a |-> WeakAGate,
     tier_b |-> TierBGate, aa_override |-> TRUE]

-----------------------------------------------------------------------------
\* Learning: thresholds adjusted at score time.  A patch holds -1 where unset.

NoPatch == [buyers_low |-> -1, smart_3plus |-> -1, smart_1plus |-> -1]

\* Variant: the clamps are missing.
MergeThresholdsRaw(base, patch) ==
    [base EXCEPT !.buyers_low  = IF patch.buyers_low >= 0 THEN patch.buyers_low ELSE @,
                 !.smart_3plus = IF patch.smart_3plus >= 0 THEN patch.smart_3plus ELSE @,
                 !.smart_1plus = IF patch.smart_1plus >= 0 THEN patch.smart_1plus ELSE @]

\* merge_thresholds: a patch moves a threshold only within its clamps.
MergeThresholds(base, patch) ==
    LET low  == Greatest(1, base.buyers_low - 2)
        high == Least(base.buyers_low + 2, Greatest(1, base.buyers_mid - 1))
        three == Least(8, Greatest(2, patch.smart_3plus))
        one   == IF patch.smart_1plus >= 0 THEN patch.smart_1plus ELSE base.smart_1plus
    IN  [base EXCEPT
            !.buyers_low  = IF patch.buyers_low >= 0
                            THEN Least(Greatest(patch.buyers_low, low), high) ELSE @,
            !.smart_3plus = IF patch.smart_3plus >= 0 THEN three ELSE @,
            !.smart_1plus = IF patch.smart_3plus >= 0
                            THEN Least(one, Greatest(1, three - 1))
                            ELSE IF patch.smart_1plus >= 0
                                 THEN Least(Greatest(1, patch.smart_1plus),
                                            Greatest(1, base.smart_3plus - 1))
                                 ELSE @]

\* apply_heuristics: one optimisation round over n closed trades, `wins` of them won.
ApplyHeuristics(base, patch, wins, n, smartHelps) ==
    LET low   == IF patch.buyers_low >= 0 THEN patch.buyers_low ELSE base.buyers_low
        three == IF patch.smart_3plus >= 0 THEN patch.smart_3plus ELSE base.smart_3plus
    IN  [patch EXCEPT
            !.buyers_low  = IF wins * 100 < 48 * n THEN low + 1
                            ELSE IF wins * 100 > 62 * n THEN Greatest(1, low - 1) ELSE @,
            !.smart_3plus = IF wins * 100 < 52 * n /\ smartHelps THEN Least(8, three + 1) ELSE @]

-----------------------------------------------------------------------------
\* The early tape.

MomentumPct(initial, peak) ==
    IF initial > 0 THEN (peak * 100) \div initial - 100 ELSE 0

PeakOf(points) == Max({0} \cup {points[i].mcap : i \in DOMAIN points})

\* Variant: the sample at the end of the window is added, not substituted.
ObservePointsAppend(samples, slices, low) == samples

\* observe_early_tape_points_live over the samples the launchpad answers in one
\* window: `slices` of them spaced through it and one at its end, which replaces
\* the last.  With a bound `low` (0 for none) the window ends at the first sample
\* whose peak reaches it.  No sample is missing: the launchpad has the bucket since
\* before the create task started, and never removes one (launchpad.rs, react).
ObservePoints(samples, slices, low) ==
    LET hits == {i \in 1..slices :
                    MomentumPct(samples[1].mcap, PeakOf(SubSeq(samples, 1, i))) >= low}
    IN  IF low > 0 /\ hits # {} THEN SubSeq(samples, 1, Min(hits))
        ELSE Append(SubSeq(samples, 1, slices - 1), samples[slices + 1])

\* finalize_tape_observe
Finalize(points) ==
    [points |-> points, initial |-> points[1].mcap, peak |-> PeakOf(points),
     current |-> Last(points).mcap]

\* Cadence of new buyers per slice, in percent.
BuyerPersistence(d) ==
    IF Len(d) = 0 THEN 50
    ELSE IF Len(d) = 1 THEN (IF d[1] > 0 THEN 62 ELSE 42)
    ELSE IF \A i \in 2..Len(d) : d[i] > d[i-1] THEN 100
    ELSE IF \A i \in 2..Len(d) : d[i] + 1 >= d[i-1] THEN 72
    ELSE IF \A i \in 2..Len(d) : d[i] < d[i-1] THEN 5 ELSE 38

\* ScoringTapeDerived::from_tape_points.  absorb is "quality at least 0.58",
\* that is an mcap change per SOL sold of at least 0.161.
TapeDerived(p) ==
    IF p = <<>>
    THEN [cadence |-> <<>>, persistence |-> 0, pressure |-> 0, absorb |-> FALSE,
          sell |-> 0, dumps |-> 0]
    ELSE LET steps == 2..Len(p)
             ds(i)   == p[i].sell - p[i-1].sell
             dm(i)   == p[i].mcap - p[i-1].mcap
             sold    == {i \in steps : ds(i) > 0}
             acc     == MapThenSumSet(LAMBDA i : (dm(i) * Least(ds(i), 20)) \div ds(i), sold)
             wsum    == MapThenSumSet(LAMBDA i : Least(ds(i), 20), sold)
             sell    == Last(p).sell - p[1].sell
             cadence == [i \in 1..(Len(p) - 1) |-> Greatest(0, p[i+1].buyers - p[i].buyers)]
         IN  [cadence     |-> cadence,
              persistence |-> BuyerPersistence(cadence),
              pressure    |-> Least(100, (sell * 10) \div (3 * Greatest(1, Last(p).mcap))),
              absorb      |-> wsum > 0 /\ acc * 10000 >= 1614 * wsum,
              sell        |-> sell,
              dumps       |-> Cardinality({i \in steps :
                                  /\ p[i].events - p[i-1].events >= 2
                                  /\ ds(i) * 100 > (p[i].mcap + p[i-1].mcap) * 4})]

\* A crowd: how many traders other than the creator there are of each kind
\* [spent, holds].
HeadCount(crowd, kinds) == MapThenSumSet(LAMBDA k : crowd[k], kinds)

\* compute_bundle_stats: how many of the wallets spent about, or exactly, the
\* same.  Fewer than three sizes say nothing.
BundleStats(crowd, tolerance) ==
    LET paid   == {k \in DOMAIN crowd : k.spent > 0}
        n      == HeadCount(crowd, paid)
        sizes  == {k.spent : k \in paid}
        of(S)  == HeadCount(crowd, {k \in paid : k.spent \in S})
        median == CHOOSE m \in sizes : /\ of({x \in sizes : x < m}) <= n \div 2
                                       /\ n \div 2 < of({x \in sizes : x <= m})
        alike(m) == of({x \in sizes : /\ x * 100 >= m * (100 - tolerance)
                                      /\ x * 100 <= m * (100 + tolerance)})
    IN  IF n < 3 THEN [similar |-> 0, identical |-> 0]
        ELSE [similar   |-> (alike(median) * 100) \div n,
              identical |-> (Max({of({x}) : x \in sizes}) * 100) \div n]

\* snapshot_early_buyers
SnapshotEarlyBuyers(crowd, tolerance) ==
    LET long == HeadCount(crowd, {k \in DOMAIN crowd : k.holds})
        sold == HeadCount(crowd, {k \in DOMAIN crowd : ~k.holds /\ k.spent > 0})
    IN  [buyers |-> HeadCount(crowd, DOMAIN crowd),
         vol    |-> MapThenSumSet(LAMBDA k : k.spent * crowd[k], DOMAIN crowd),
         b2s    |-> IF sold = 0 THEN long * 10 ELSE (long * 10) \div sold,
         bundle |-> BundleStats(crowd, tolerance)]

\* assemble: the feature vector.
Assemble(dev, cat, tape, crowd, derived, smart, exits) ==
    [spam |-> dev.spam, history |-> dev.history, cat |-> cat,
     initial |-> tape.initial, current |-> tape.current,
     peak |-> Greatest(tape.peak, tape.current),
     buyers |-> crowd.buyers, vol |-> crowd.vol, b2s |-> crowd.b2s,
     bundle |-> crowd.bundle, smart |-> smart, exits |-> exits,
     cadence |-> derived.cadence, persistence |-> derived.persistence,
     pressure |-> derived.pressure, absorb |-> derived.absorb,
     sell |-> derived.sell, dumps |-> derived.dumps]

Velocity(f) == MomentumPct(f.initial, Greatest(f.peak, f.current))

-----------------------------------------------------------------------------
\* The score.

\* rewards_buy_to_sell_ratio
RewardsB2s(c, t, f) ==
    /\ f.b2s >= t.b2s_high
    /\ \/ ~c.anti_rug.enabled
       \/ f.sell >= c.anti_rug.b2s_min_sell
       \/ f.b2s < c.anti_rug.b2s_max

\* The momentum items of the two scoring paths: legacy leaves a gap between the
\* good band and the overheated mark, V2 does not.
MomentumGood(c, t, f) == t.good_low <= Velocity(f) /\ Velocity(f) <= t.good_high

MomentumOverheated(c, t, f) ==
    IF c.legacy THEN Velocity(f) >= t.overheated
    ELSE Velocity(f) > t.good_high

\* The items of score_legacy and score_v2 with their points, zero where one does
\* not apply.
ItemPoints(c, t, f) ==
    LET w == c.weights
        identical == c.legacy /\ f.bundle.identical >= t.identical_ratio
    IN  << <<"spam_dev_penalty", If(f.spam, c.spam_penalty)>>,
           <<"dev_history_strong", If(f.history = "strong", w.dev_history_strong)>>,
           <<"dev_history_weak", If(f.history = "weak", w.dev_history_weak)>>,
           <<"dev_ranker_a_plus", If(f.cat = "APlus", w.dev_ranker_a_plus)>>,
           <<"dev_ranker_a", If(f.cat = "A", w.dev_ranker_a)>>,
           <<"dev_ranker_bad", If(f.cat = "Bad", w.dev_ranker_bad)>>,
           <<"smart_wallets", IF f.smart >= t.smart_3plus THEN w.smart_wallets_3plus
                              ELSE If(f.smart >= t.smart_1plus, w.smart_wallets_1plus)>>,
           <<"buyers", IF f.buyers >= t.buyers_high THEN w.buyers_10plus
                       ELSE IF f.buyers >= t.buyers_mid THEN w.buyers_6plus
                       ELSE If(f.buyers < t.buyers_low, w.buyers_below_3)>>,
           <<"buy_to_sell_ratio_high", If(RewardsB2s(c, t, f), w.buy_to_sell_ratio_high)>>,
           <<"momentum_good", If(MomentumGood(c, t, f), w.momentum_good)>>,
           <<"momentum_overheated", If(MomentumOverheated(c, t, f), w.momentum_overheated)>>,
           <<"volume_ok", If(f.vol >= t.volume_ok, w.volume_ok)>>,
           <<"bundle_identical", If(identical, w.bundle_identical)>>,
           <<"bundle_similar",
             If(f.bundle.similar >= t.similar_ratio /\ ~identical, w.bundle_similar)>> >>

\* apply_early_tape_scores
TapePoints(c, f) ==
    LET w == c.weights
        slices == IF c.anti_rug.enabled THEN Greatest(2, c.anti_rug.min_slices) ELSE 1
        minSell == IF c.anti_rug.enabled THEN c.anti_rug.absorb_min_sell ELSE 1
    IN  << <<"buyer_velocity_persistent",
             If(f.persistence >= 62 /\ Len(f.cadence) >= slices, w.buyer_velocity_persistent)>>,
           <<"buyer_velocity_fading",
             If(f.persistence <= 28 /\ Len(f.cadence) >= 2, w.buyer_velocity_fading)>>,
           <<"sell_pressure_high", If(f.pressure >= 58, w.sell_pressure_high)>>,
           <<"absorb_strong", If(f.absorb /\ f.sell >= minSell, w.absorb_strong)>>,
           <<"smart_early_exit_dump",
             IF f.exits >= 2 THEN w.smart_early_exit_dump
             ELSE If(f.exits = 1, Greatest(-2, -((-w.smart_early_exit_dump) \div 2)))>>,
           <<"repeat_dump_cluster",
             w.repeat_dump_penalty * (IF f.dumps >= 2 THEN 3 ELSE If(f.dumps = 1, 2))>> >>

Total(scored) ==
    LET sum[n \in 0..Len(scored)] == IF n = 0 THEN 0 ELSE sum[n-1] + scored[n][2]
    IN  sum[Len(scored)]

\* cap_tier_for_low_mcap
CapTier(c, f, tier) ==
    IF /\ c.anti_rug.enabled /\ tier = "APlus"
       /\ f.peak < c.anti_rug.low_mcap /\ f.vol < c.anti_rug.low_mcap_vol
    THEN "A" ELSE tier

TierBDevEligible(c, f) == c.tier_b.enabled /\ ~f.spam /\ f.cat = "Fresh"

TierBBaseGates(c, f) ==
    /\ c.tier_b.enabled
    /\ f.smart >= c.tier_b.min_smart
    /\ f.buyers >= c.tier_b.min_buyers
    /\ f.vol >= c.tier_b.min_vol

\* tier_b_entry_ok
TierBEntry(c, f, items) ==
    /\ TierBBaseGates(c, f)
    /\ "momentum_good" \in items
    /\ Velocity(f) >= c.tier_b.min_velocity

\* fresh_b_hot_override_ok: everything but momentum_good, on an exceptional tape.
HotOverride(c, f, items) ==
    /\ c.tier_b.hot
    /\ TierBDevEligible(c, f) /\ TierBBaseGates(c, f)
    /\ Velocity(f) >= c.tier_b.min_velocity
    /\ "momentum_good" \notin items
    /\ f.buyers >= c.tier_b.hot_buyers
    /\ f.vol >= c.tier_b.hot_vol
    /\ Velocity(f) >= c.tier_b.hot_velocity

\* Variant: the fresh-dev lane is not consulted, the score alone sets the tier.
TierOfNoLane(c, f, total, items) ==
    CapTier(c, f, IF total >= c.a_plus THEN "APlus" ELSE IF total >= c.a THEN "A" ELSE "Skip")

\* The tier of finish_breakdown: a fresh dev can only be B or Skip.
TierOf(c, f, total, items) ==
    IF TierBDevEligible(c, f)
    THEN IF TierBEntry(c, f, items) \/ HotOverride(c, f, items) THEN "B" ELSE "Skip"
    ELSE CapTier(c, f, IF total >= c.a_plus THEN "APlus" ELSE IF total >= c.a THEN "A" ELSE "Skip")

\* ScoreEngine::score: total, the items that count, tier and the overrides.
Score(c, t, f) ==
    LET scored == ItemPoints(c, t, f) \o TapePoints(c, f)
        items  == {scored[i][1] : i \in {j \in DOMAIN scored : scored[j][2] # 0}}
        tier   == TierOf(c, f, Total(scored), items)
    IN  [total |-> Total(scored), items |-> items, tier |-> tier,
         hot   |-> ~TierBEntry(c, f, items) /\ HotOverride(c, f, items),
         aa    |-> /\ c.aa_override /\ tier \in {"A", "APlus"}
                   /\ "momentum_overheated" \in items /\ "momentum_good" \notin items]

-----------------------------------------------------------------------------
\* The gates that only a live bot applies between the score and the buy.

\* strong_a_momentum_bypass_ok
StrongA(s, f) ==
    /\ StrongABypass.enabled /\ s.tier = "A" /\ s.total >= StrongABypass.min_score
    /\ s.items \cap {"buyer_velocity_fading", "momentum_overheated", "repeat_dump_cluster",
                     "sell_pressure_high", "bundle_identical", "bundle_similar"} = {}
    /\ f.buyers >= StrongABypass.min_buyers
    /\ f.vol >= StrongABypass.min_vol
    /\ f.b2s >= StrongABypass.min_b2s
    /\ f.absorb
    /\ f.persistence >= StrongABypass.min_persistence

MomentumSatisfied(c, s, f) ==
    \/ "momentum_good" \in s.items
    \/ c.smart_bypass > 0 /\ f.smart >= c.smart_bypass
    \/ c.aplus_smart_bypass > 0 /\ s.tier = "APlus" /\ f.smart >= c.aplus_smart_bypass
    \/ StrongA(s, f)
    \/ s.aa
    \/ s.tier = "B" /\ s.hot

\* anti_rug::entry_skip_reason
AntiRugSkips(c, f) ==
    /\ c.anti_rug.entry_gate /\ f.vol >= c.anti_rug.min_vol
    /\ \/ f.sell < c.anti_rug.min_sell
       \/ f.sell * 100 < f.vol * c.anti_rug.min_fee_flow
       \/ f.pressure < c.anti_rug.min_pressure
       \/ f.b2s >= c.anti_rug.b2s_max /\ f.sell < c.anti_rug.b2s_min_sell

\* weak_a_profile_match
WeakAProfile(c, s, f) ==
    /\ c.weak_a.enabled /\ s.tier = "A"
    /\ s.total <= c.weak_a.max_score /\ f.smart <= c.weak_a.max_smart
    /\ f.cat \in {"Neutral", "Stale"} \/ "dev_history_weak" \in s.items

WeakAHardSkip(c, s, f) ==
    WeakAProfile(c, s, f) /\ (f.dumps >= c.weak_a.dumps \/ f.vol < c.weak_a.min_vol)

SyntheticPump(c, s, f) ==
    /\ s.tier = "A" /\ f.smart = 0 /\ "dev_history_weak" \in s.items
    /\ f.b2s > c.weak_a.synthetic_b2s /\ f.sell < c.weak_a.synthetic_sell

\* aplus_rug_gate_skip_reason: an A+ needs a smart wallet.
AplusRugGate(s, f) == s.tier = "APlus" /\ f.smart < 1

\* tier_a_low_velocity_skip_reason, at TIER_A_MIN_VELOCITY_PCT.
LowVelocityA(s, f) == s.tier = "A" /\ MomentumPct(f.initial, f.peak) < 3

\* The live gates of run_scoring_and_buy between the score and the size, in order: on
\* momentum, flow, tier and spam ...
TierGates(c, s, f) == <<
    <<c.require_momentum_good /\ ~MomentumSatisfied(c, s, f), "live_gate_momentum">>,
    <<AntiRugSkips(c, f), "anti_rug">>,
    <<c.minimum_tier = "APlus" /\ s.tier = "A", "live_gate_tier">>,
    <<f.spam /\ c.spam_require_a_plus /\ s.tier # "APlus", "spam_dev_weak">> >>

\* ... and on the profile of a weak A, an A+ and a flat A.
ProfileGates(c, s, f) == <<
    <<WeakAHardSkip(c, s, f), "weak_a_gate">>,
    <<SyntheticPump(c, s, f), "weak_a_synthetic_pump">>,
    <<AplusRugGate(s, f), "aplus_rug_gate">>,
    <<LowVelocityA(s, f), "tier_a_low_velocity">> >>

LiveGates(c, s, f) == FirstReason(TierGates(c, s, f) \o ProfileGates(c, s, f))

-----------------------------------------------------------------------------
\* The confirmation poll after the gates.

\* continuation_strength
Upticks(p) == Cardinality({i \in 2..Len(p) : p[i].mcap > p[i-1].mcap})

NewBuyers(p, baseline) == IF Len(p) < 2 THEN 0 ELSE Greatest(0, Last(p).buyers - baseline)

\* evaluate_continuation, with min_buys_per_sec as min_rate in tenths.
EvaluateContinuation(c, b2s, baseline, p, aplus) ==
    IF Len(p) < 2 THEN "cont_no_data"
    ELSE LET buy  == Greatest(0, Last(p).vol - p[1].vol)
             sell == Last(p).sell - p[1].sell
             now  == IF sell > 0 THEN (buy * 10) \div sell ELSE If(buy > 0, b2s)
         IN  FirstReason(<<
                <<Upticks(p) < c.continuation.min_upticks /\ Last(p).mcap < p[1].mcap,
                  "cont_no_uptick">>,
                <<NewBuyers(p, baseline) < c.continuation.min_new_buyers, "cont_no_new_buyers">>,
                <<NewBuyers(p, baseline) * 10000 < c.continuation.min_rate * c.continuation.window,
                  "cont_low_buys_per_sec">>,
                <<buy > 0 /\ sell * 100 > buy * c.continuation.max_absorption,
                  "cont_sell_absorption">>,
                <<b2s > 0 /\ now * 100 < b2s * c.continuation.max_b2s_drop
                    /\ ~(aplus /\ Last(p).mcap > p[1].mcap), "cont_b2s_worsening">> >>)

\* continuation_second_look_eligible_for_buy
SecondLookEligible(c, e, reason) ==
    /\ SecondLook.enabled
    /\ \/ /\ e.tier = "APlus" \/ e.total >= SecondLook.min_score
          /\ \/ reason \in {"cont_b2s_worsening", "cont_sell_absorption"}
             \/ reason = "cont_no_uptick" /\ e.tier = "APlus"
       \/ e.weakA /\ e.total <= c.weak_a.second_look_max

\* Variant: only the buyers of the recheck itself are new.
EvaluateSecondLookOwn(ref, baseline, p) ==
    IF Len(p) < 2 THEN "cont_second_look_no_data"
    ELSE LET demand == Upticks(p) >= 1 \/ NewBuyers(p, p[1].buyers) >= 1
         IN  FirstReason(<<
                <<Last(p).mcap < ref /\ Last(p).mcap < p[1].mcap /\ ~demand,
                  "cont_second_look_mcap_fall">>,
                <<~(Last(p).mcap > ref \/ demand), "cont_second_look_no_recovery">> >>)

\* evaluate_continuation_second_look
EvaluateSecondLook(ref, baseline, p) ==
    IF Len(p) < 2 THEN "cont_second_look_no_data"
    ELSE LET demand == Upticks(p) >= 1 \/ NewBuyers(p, baseline) >= 1
         IN  FirstReason(<<
                <<Last(p).mcap < ref /\ Last(p).mcap < p[1].mcap /\ ~demand,
                  "cont_second_look_mcap_fall">>,
                <<~(Last(p).mcap > ref \/ demand), "cont_second_look_no_recovery">> >>)

\* aplus_peak_no_smart_guard
PeakGuard(e) ==
    /\ AplusPeakGuard.enabled /\ e.tier = "APlus" /\ e.smart = 0
    /\ e.peak >= AplusPeakGuard.min_mcap /\ e.current >= AplusPeakGuard.min_mcap
    /\ e.current * 100 >= e.peak * AplusPeakGuard.near_peak

\* continuation_confirm_strong
ConfirmStrong(e, p) ==
    /\ Len(p) >= 2 /\ Last(p).mcap >= p[1].mcap
    /\ Upticks(p) >= AplusPeakGuard.strong_upticks
    /\ NewBuyers(p, e.buyers) >= AplusPeakGuard.strong_new_buyers

\* aplus_peak_recheck_mcap_acceptable
RecheckMcapOk(e, mcap) ==
    mcap > 0 /\ mcap * 100 >= Greatest(e.peak, e.current) * AplusPeakGuard.recheck_min

\* The parabolic gate: weak A at the local peak without fresh demand.
ParabolicSkips(c, e, p) ==
    /\ c.anti_parabolic.enabled
    /\ e.tier # "APlus" /\ e.smart = 0 /\ e.total <= c.anti_parabolic.weak_score_max
    /\ e.peak > 0 /\ e.current * 100 >= e.peak * c.anti_parabolic.near_peak
    /\ ~ /\ Upticks(p) >= c.anti_parabolic.strong_upticks
         /\ NewBuyers(p, e.buyers) >= c.anti_parabolic.strong_new_buyers
=============================================================================
