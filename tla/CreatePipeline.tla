--------------------------- MODULE CreatePipeline ---------------------------
(***************************************************************************)
(* The task that decides one create (the Create arm of src/src/main.rs and *)
(* run_scoring_and_buy of src/src/pipeline/score_buy.rs): filters on the   *)
(* dev, scoring window, score, live gates, confirmation polls, InitiateBuy.*)
(* Beside it runs the task that saves the coin; the dev may launch again,  *)
(* and the creator-stats cache outlives a launch.  The blacklist, the      *)
(* learned thresholds and the operator cap are read once per task, from    *)
(* what their owners hold by then.  The scoring is in EntryScoring; the    *)
(* watchlist that may hold the task is FreshWatchlist, seen here from the  *)
(* outside.                                                                *)
(***************************************************************************)
EXTENDS EntryScoring

CONSTANTS
    Configs,      \* configurations [live, blacklist, score] under which the bot runs
    Devs,         \* devs [coins, white, fails, history, cat] that may launch
    Launches,     \* early tapes [samples, crowd, smart, exits] a launch may show
    PollSteps,    \* changes [mcap, buyers, buy, sell] between two samples of a poll
    Patches,      \* learning overrides in force
    SpamCap,      \* spam_skip_coins
    Caps,         \* operator caps in tenths of a SOL
    MaxLaunches   \* launches of the dev in a behaviour

\* A configuration as the code reads it; a poll takes at least one sample.
ConfigOK(c) ==
    /\ {c.live, c.score.tier_b.enabled} \subseteq BOOLEAN
    /\ \A tier \in {"APlus", "A", "B"} : c.score.size[tier] \in Nat
    /\ c.score.continuation.min_new_buyers \in Nat
    /\ c.score.anti_parabolic.strong_upticks \in Nat
    /\ {c.score.continuation.confirm_slices, c.score.anti_parabolic.confirm_slices}
         \subseteq Nat \ {0}

\* The ranker gives a dev every category but "Fresh", which the pipeline assigns.
ASSUME PipelineAssumption ==
    /\ SpamCap \in Nat /\ MaxLaunches \in Nat \ {0} /\ Caps \subseteq Nat
    /\ \A c \in Configs : ConfigOK(c)
    /\ \A d \in Devs : /\ d.coins \in Nat /\ d.fails \in {"none", "early", "structural"}
                       /\ d.white \in BOOLEAN /\ d.cat # "Fresh"
    /\ \A l \in Launches : /\ l.samples # <<>> /\ l.smart \in Nat
                           /\ IsFiniteSet(DOMAIN l.crowd)
                           /\ \A k \in DOMAIN l.crowd : l.crowd[k] \in Nat
    /\ \A s \in PollSteps : s.buyers \in Nat

VARIABLES
    cfg,      \* the configuration, fixed at start
    dev,      \* the dev of this create
    prior,    \* coins of the dev in the database when this one was created
    saved,    \* save_token has written the row of this coin
    cache,    \* creator-stats cache of the dev: "empty", "none", "some"
    launched, \* launches of the dev so far
    pc,       \* where the create task is
    ran,      \* what the task knows of the dev: [spam, stats, watched]
    entry,    \* what the task keeps of the score: [tier, total, smart, ...]
    poll,     \* what the task keeps of its first poll: [first, mcap, buyers, ...]
    outcome   \* the verdict, "open" until the task ends

world == <<prior, saved, cache, launched>>
vars == <<cfg, dev, world, pc, ran, entry, poll, outcome>>

NoDev   == [spam |-> FALSE, stats |-> "none", watched |-> FALSE]
NoEntry == [tier |-> "Skip", total |-> 0, smart |-> 0, b2s |-> 0, current |-> 0, peak |-> 0,
            buyers |-> 0, weakA |-> FALSE, amount |-> 0]
NoPoll  == [first |-> "none", mcap |-> 0, buyers |-> 0, parabolic |-> FALSE, deferred |-> FALSE]

Init ==
    /\ cfg \in Configs /\ dev \in Devs
    /\ prior = dev.coins /\ saved = FALSE /\ cache = "empty" /\ launched = 1
    /\ pc = "created" /\ outcome = "open"
    /\ ran = NoDev /\ entry = NoEntry /\ poll = NoPoll

Goto(l) == pc' = l

\* Variant: the task returns and leaves no verdict.
EndSilent(verdict) == pc' = "ended" /\ UNCHANGED outcome

\* The task returns, after a skip row in the learning log or after InitiateBuy.
End(verdict) == pc' = "ended" /\ outcome' = verdict

-----------------------------------------------------------------------------
\* Beside the task.

\* The second task of a create writes the coin row; an insert that fails leaves
\* none.  After the lookups it only matters to the next launch.
SaveToken ==
    /\ pc \in {"blacklist", "spam", "stats", "prior", "ended"}
    /\ outcome # "unsupported_quote_mint" /\ ~saved
    /\ saved' = TRUE
    /\ UNCHANGED <<cfg, dev, prior, cache, launched, pc, ran, entry, poll, outcome>>

\* The dev launches another coin, before or after the cached stats expire.
LaunchAgain ==
    /\ pc = "ended" /\ launched < MaxLaunches
    /\ launched' = launched + 1
    /\ prior' = prior + If(saved, 1) /\ saved' = FALSE
    /\ cache' \in {cache, "empty"}
    /\ pc' = "created" /\ outcome' = "open"
    /\ ran' = NoDev /\ entry' = NoEntry /\ poll' = NoPoll
    /\ UNCHANGED <<cfg, dev>>

-----------------------------------------------------------------------------
\* Stage 0 and 1: filters on the dev.

\* Create arm: the quote mint is checked before any task is spawned.
OnCreate ==
    /\ pc = "created"
    /\ \/ Goto("blacklist") /\ UNCHANGED outcome
       \/ End("unsupported_quote_mint")
    /\ UNCHANGED <<cfg, dev, world, ran, entry, poll>>

\* active_for_dev: a close of another coin of the dev may have blacklisted it.
\* An error is logged and the create goes on.
CheckBlacklist ==
    /\ pc = "blacklist"
    /\ \/ cfg.blacklist /\ prior > 0 /\ End("filter_dev_blacklist")
       \/ Goto("spam") /\ UNCHANGED outcome   \* off, no entry, or the query failed
    /\ UNCHANGED <<cfg, dev, world, ran, entry, poll>>

\* The coins of the dev that the database holds.
CoinsOfDev == prior + If(saved, 1)

\* count_creator_coins_capped: LIMIT SpamCap + 1; an error counts as no spam.
CheckSpam ==
    /\ pc = "spam"
    /\ \/ ran' = [ran EXCEPT !.spam = Least(CoinsOfDev, SpamCap + 1) > SpamCap /\ ~dev.white]
       \/ UNCHANGED ran
    /\ Goto("stats")
    /\ UNCHANGED <<cfg, dev, world, entry, poll, outcome>>

\* get_creator_stats_in_sol: the cached record, else one computed from the coins
\* of the dev, this one included once it is saved.
Lookup == IF cache # "empty" THEN cache ELSE IF CoinsOfDev = 0 THEN "none" ELSE "some"

\* Stage 1 for a dev that is not spam.  The stats of a dev whose only coin is
\* this one are immature.
FilterCreator ==
    /\ pc = "stats"
    /\ \/ ran.spam /\ Goto("score") /\ UNCHANGED <<ran, cache, outcome>>
       \/ ~ran.spam /\ cache = "empty" /\ End("filter_db") /\ UNCHANGED <<ran, cache>>
       \/ /\ ~ran.spam /\ Lookup = "none"
          /\ cache' = Lookup
          /\ IF cfg.score.tier_b.enabled THEN Goto("score") /\ UNCHANGED outcome
             ELSE End("filter_no_history")
          /\ UNCHANGED ran
       \/ /\ ~ran.spam /\ Lookup = "some"
          /\ cache' = Lookup
          /\ IF dev.fails = "none"
             THEN Goto("score") /\ ran' = [ran EXCEPT !.stats = "some"]
             ELSE Goto("prior") /\ UNCHANGED ran
          /\ UNCHANGED outcome
    /\ UNCHANGED <<cfg, dev, prior, saved, launched, entry, poll>>

\* The rejected dev: count_prior_coins, then the watchlist for a first coin whose
\* only failures are immature stats.  The error path logs nothing.
CountPrior ==
    /\ pc = "prior"
    /\ \/ End("prior_db")
       \/ /\ cfg.score.tier_b.watchlist /\ cfg.score.tier_b.enabled
          /\ prior = 0 /\ dev.fails = "early"
          /\ Goto("watch") /\ UNCHANGED outcome
       \/ End("filter_creator")   \* no watchlist, or its cap is full
    /\ UNCHANGED <<cfg, dev, world, ran, entry, poll>>

\* The watchlist task: its deadline passes, or the B gates pass and scoring
\* starts with no stats and no spam flag.
WatchEnds ==
    /\ pc = "watch"
    /\ \/ End("watchlist_rejected") /\ UNCHANGED ran
       \/ Goto("score") /\ ran' = [ran EXCEPT !.watched = TRUE] /\ UNCHANGED outcome
    /\ UNCHANGED <<cfg, dev, world, entry, poll>>

-----------------------------------------------------------------------------
\* Stage 2 and 3: scoring window, score, live gates, size.

Thresholds(patch) ==
    IF cfg.score.legacy THEN cfg.score.thresholds
    ELSE MergeThresholds(cfg.score.thresholds, patch)

\* The dev category: no stats and not spam is a fresh dev when the B lane is on.
Category ==
    IF ran.stats = "none" /\ cfg.score.tier_b.enabled /\ ~ran.spam THEN "Fresh" ELSE dev.cat

\* The features of a launch whose window showed the tape.
Features(launch, tape, t) ==
    Assemble([spam |-> ran.spam, history |-> IF ran.stats = "some" THEN dev.history ELSE "none"],
             Category, tape, SnapshotEarlyBuyers(launch.crowd, t.tolerance),
             TapeDerived(tape.points), launch.smart, launch.exits)

\* The buy size in tenths of a SOL: the size of the tier under the operator's cap.
BuySize(tier, cap) == Least(cfg.score.size[tier], cap)

\* run_scoring_and_buy from the window to the confirmation poll.
ScoreToken ==
    /\ pc = "score"
    /\ \E launch \in Launches :
       \E p \in {ObservePoints(launch.samples, cfg.score.slices, cfg.score.thresholds.good_low)} :
       \E t \in {Thresholds(patch) : patch \in Patches} : \E f \in {Features(launch, Finalize(p), t)} :
       \E s \in {Score(cfg.score, t, f)} :
       \E gate \in {IF cfg.live THEN LiveGates(cfg.score, s, f) ELSE "none"},
          cap \in Caps :
         IF s.tier = "Skip" THEN End("score_skip") /\ UNCHANGED entry
         ELSE IF gate # "none" THEN End(gate) /\ UNCHANGED entry
         ELSE IF BuySize(s.tier, cap) = 0 THEN End("size_zero") /\ UNCHANGED entry
         ELSE /\ entry' = [tier |-> s.tier, total |-> s.total, smart |-> f.smart, b2s |-> f.b2s,
                           current |-> f.current, peak |-> f.peak, buyers |-> f.buyers,
                           weakA |-> WeakAProfile(cfg.score, s, f),
                           amount |-> BuySize(s.tier, cap)]
              /\ Goto("confirm")
              /\ UNCHANGED outcome
    /\ UNCHANGED <<cfg, dev, world, ran, poll>>

-----------------------------------------------------------------------------
\* The confirmation poll and its recheck.

\* The samples of a poll of a tape that stood at `at`: the market moves before each of
\* them, the first included.  Buyers only add up (a swarm removes no trader); volumes
\* count from the start of the poll.
PollSamples(at, steps) ==
    LET p[i \in 1..Len(steps)] ==
            LET q == IF i = 1 THEN [mcap |-> at.mcap, buyers |-> at.buyers, vol |-> 0, sell |-> 0]
                     ELSE p[i-1]
            IN  [mcap |-> Greatest(1, q.mcap + steps[i].mcap), buyers |-> q.buyers + steps[i].buyers,
                 vol |-> q.vol + steps[i].buy, sell |-> q.sell + steps[i].sell]
    IN  p

Continues == cfg.live /\ cfg.score.continuation.enabled
GuardsPeak == cfg.live /\ cfg.score.anti_parabolic.enabled

\* Where a poll ends: with its skip reason, or past the parabolic gate.
Settle(reason, parabolic) ==
    IF reason # "none" THEN End(reason)
    ELSE IF parabolic THEN End("parabolic_peak_entry")
    ELSE Goto("dispatch") /\ UNCHANGED outcome

\* Continuation's sample count when it is on, else the anti-parabolic gate's.
PollSlices ==
    IF Continues THEN cfg.score.continuation.confirm_slices
    ELSE cfg.score.anti_parabolic.confirm_slices

ConfirmPoll ==
    /\ pc = "confirm" /\ (Continues \/ GuardsPeak)
    /\ \E steps \in [1..(PollSlices + 1) -> PollSteps] :
       \E seen \in {PollSamples([mcap |-> entry.current, buyers |-> entry.buyers], steps)} :
       \E p \in {ObservePoints(seen, PollSlices, 0)} :
       \E first \in {IF Continues
                     THEN EvaluateContinuation(cfg.score, entry.b2s, entry.buyers, p,
                                               entry.tier = "APlus")
                     ELSE "none"} :
         LET defer  == Continues /\ PeakGuard(entry) /\ (first # "none" \/ ~ConfirmStrong(entry, p))
             again  == first # "none" /\ SecondLookEligible(cfg.score, entry, first)
             parab  == GuardsPeak /\ ParabolicSkips(cfg.score, entry, p)
         IN  /\ poll' = [first |-> first, mcap |-> Last(p).mcap, buyers |-> Last(p).buyers,
                         parabolic |-> parab, deferred |-> defer]
             /\ IF defer \/ again THEN Goto("recheck") /\ UNCHANGED outcome
                ELSE Settle(first, parab)
    /\ UNCHANGED <<cfg, dev, world, ran, entry>>

\* Neither gate is on, or the bot is a demo.
SkipPoll ==
    /\ pc = "confirm" /\ ~Continues /\ ~GuardsPeak
    /\ Goto("dispatch")
    /\ UNCHANGED <<cfg, dev, world, ran, entry, poll, outcome>>

\* The verdict of a recheck: a plain second look against the first poll, or the
\* deferred A+ that must continue, recover, and hold its level.
RecheckReason(p) ==
    LET second == EvaluateContinuation(cfg.score, entry.b2s, entry.buyers, p, TRUE)
        look   == EvaluateSecondLook(Last(p).mcap, entry.buyers, p)
        held   == IF RecheckMcapOk(entry, Last(p).mcap) THEN "none"
                  ELSE "aplus_peak_recheck_mcap_drop"
    IN  IF ~poll.deferred THEN EvaluateSecondLook(poll.mcap, entry.buyers, p)
        ELSE IF second = "none" THEN held
        ELSE IF ~SecondLookEligible(cfg.score, entry, second) THEN second
        ELSE IF look # "none" THEN look ELSE held

\* After wait_ms the tape is polled again, from where it has got to by then.
Recheck ==
    /\ pc = "recheck"
    /\ \E steps \in [1..(SecondLook.recheck_slices + 1) -> PollSteps] :
       \E seen \in {PollSamples(poll, steps)} :
       \E p \in {ObservePoints(seen, SecondLook.recheck_slices, 0)} :
         Settle(RecheckReason(p), poll.parabolic)
    /\ UNCHANGED <<cfg, dev, world, ran, entry, poll>>

\* InitiateBuy to the position manager.
Dispatch ==
    /\ pc = "dispatch"
    /\ End("buy")
    /\ UNCHANGED <<cfg, dev, world, ran, entry, poll>>

TaskStep ==
    \/ OnCreate \/ CheckBlacklist \/ CheckSpam \/ FilterCreator \/ CountPrior \/ WatchEnds
    \/ ScoreToken \/ ConfirmPoll \/ SkipPoll \/ Recheck \/ Dispatch

Next == TaskStep \/ SaveToken \/ LaunchAgain

Spec == Init /\ [][Next]_vars

-----------------------------------------------------------------------------
\* Properties.

Bought == outcome = "buy"

\* Every variable keeps its shape (the state of the create task and of the
\* registries around it).
TypeOK ==
    /\ saved \in BOOLEAN /\ launched \in 1..MaxLaunches
    /\ prior \in dev.coins .. (dev.coins + launched - 1)
    /\ cache \in {"empty", "none", "some"}
    /\ pc \in {"created", "blacklist", "spam", "stats", "prior", "watch", "score",
               "confirm", "recheck", "dispatch", "ended"}
    /\ ran \in [spam : BOOLEAN, stats : {"none", "some"}, watched : BOOLEAN]
    /\ entry.tier \in {"APlus", "A", "B", "Skip"}
    /\ pc \in {"confirm", "recheck", "dispatch"} => entry.tier # "Skip" /\ entry.amount > 0
    /\ (pc = "ended") = (outcome # "open")

\* The lanes keep apart from the first lookup to the buy: a dev without stats
\* who is no spam dev (a watched one included) is bought as B or not at all,
\* everyone else never as B; and a live bot buys a spam dev only as A+ (unless
\* spam_require_a_plus is off), and an A+ only with a smart wallet among its buyers
\* (score_buy.rs, TierOf and the live gates).
LaneLaw ==
    Bought =>
        /\ (entry.tier = "B") = (ran.stats = "none" /\ ~ran.spam)
        /\ ran.watched => entry.tier = "B"
        /\ cfg.live /\ ran.spam /\ cfg.score.spam_require_a_plus => entry.tier = "APlus"
        /\ cfg.live /\ entry.tier = "APlus" => entry.smart >= 1

\* The first poll was cut for its selling or its pace, past the check on new buyers.
CutAfterBuyers ==
    /\ poll.first \in {"cont_low_buys_per_sec", "cont_sell_absorption", "cont_b2s_worsening"}
    /\ cfg.score.continuation.min_new_buyers >= 1

\* A second look is blind for a create whose first poll was cut for its selling: it never
\* refuses one, however far the market cap falls and though no one buys during the recheck.
\* The buyers of the first poll are still new to it, as the baseline of both polls is the
\* scoring window's ("Skip if mcap keeps falling with no demand", features.rs:607).
SecondLookBlind ==
    CutAfterBuyers => outcome \notin {"cont_second_look_mcap_fall", "cont_second_look_no_recovery"}

\* The reprieve of the anti-parabolic gate never happens under the default
\* sample counts: a weak entry at its peak is refused however strong the demand,
\* because n samples hold at most n-1 upticks and the reprieve asks for two
\* (config.rs: confirm_slices 2, strong_upticks 2).
NoPeakReprieve ==
    /\ Bought /\ GuardsPeak
    /\ PollSlices <= cfg.score.anti_parabolic.strong_upticks
    => ~ /\ entry.tier # "APlus" /\ entry.smart = 0
         /\ entry.total <= cfg.score.anti_parabolic.weak_score_max /\ entry.peak > 0
         /\ entry.current * 100 >= entry.peak * cfg.score.anti_parabolic.near_peak

\* Refuted: a B buy is a dev without a launch before this one ("devs with no creator
\* history / launch_count=0").  The creator-stats cache outlives a launch: a dev whose
\* first coin was looked up without history is still fresh when the second one comes.
FreshMeansFirst == Bought /\ entry.tier = "B" => prior = 0
=============================================================================
