-------------------------- MODULE MCCreatePipeline --------------------------
(* A small instance of CreatePipeline: three configurations, devs of every   *)
(* kind, and launches built from a few market-cap paths and crowds.          *)
EXTENDS CreatePipeline

\* filter_config.yaml as deployed.
Deployed ==
    [ScoringDefaults EXCEPT
        !.legacy = TRUE, !.a_plus = 10, !.a = 6,
        !.thresholds.good_low = 3, !.thresholds.tolerance = 5,
        !.tier_b.enabled = FALSE, !.anti_rug.entry_gate = FALSE,
        !.continuation.enabled = TRUE, !.continuation.confirm_slices = 4,
        !.anti_parabolic.confirm_slices = 4]

\* The code's defaults with every optional gate and lane switched on.
Full ==
    [ScoringDefaults EXCEPT
        !.tier_b.watchlist = TRUE, !.tier_b.hot = TRUE,
        !.continuation.enabled = TRUE, !.anti_parabolic.enabled = TRUE]

\* The anti-parabolic gate alone.
PeakOnly == [ScoringDefaults EXCEPT !.anti_rug.entry_gate = FALSE, !.anti_parabolic.enabled = TRUE]

MCConfigs ==
    {[live |-> TRUE, blacklist |-> TRUE, score |-> Deployed],
     [live |-> TRUE, blacklist |-> TRUE, score |-> Full],
     [live |-> TRUE, blacklist |-> FALSE, score |-> PeakOnly],
     [live |-> FALSE, blacklist |-> TRUE, score |-> ScoringDefaults]}

Dev(coins, white, fails, history, cat) ==
    [coins |-> coins, white |-> white, fails |-> fails, history |-> history, cat |-> cat]

MCDevs ==
    {Dev(0, FALSE, "early", "weak", "Neutral"),
     Dev(1, FALSE, "none", "weak", "Neutral"),
     Dev(1, FALSE, "structural", "weak", "Bad"),
     Dev(2, FALSE, "none", "strong", "APlus"),
     Dev(3, TRUE, "none", "strong", "A")}

\* Crowds of wallets that spent about, or exactly, the same, or not; `sold` of
\* them hold nothing any more.
Crowd(n, spent, spread, sold) ==
    [k \in [spent : {spent, spent + spread, spent + 2 * spread}, holds : BOOLEAN] |->
        IF k.holds THEN n ELSE If(k.spent = spent, sold)]

MCCrowds == {Crowd(2, 8, 3, 0), Crowd(4, 9, 5, 1), Crowd(6, 9, 5, 9), Crowd(4, 12, 0, 2)}

\* Three slices and the refresh at the end of the window.
MCPaths == {<<100, 101, 101, 102>>, <<100, 106, 109, 104>>, <<100, 104, 118, 120>>,
            <<60, 62, 70, 71>>, <<100, 160, 205, 210>>}

\* Cumulative sells in tenths of a SOL at each sample.
MCSells == {<<0, 0, 0, 0>>, <<0, 180, 190, 200>>}

MCSmart == {<<0, 0>>, <<1, 0>>, <<4, 2>>}

MCLaunches ==
    {[samples |-> [i \in 1..4 |->
                     [mcap |-> path[i], buyers |-> (HeadCount(crowd, DOMAIN crowd) * i) \div 4,
                      vol |-> 0, sell |-> sells[i], events |-> sells[i] \div 150]],
      crowd |-> crowd, smart |-> smart[1], exits |-> smart[2]] :
        path \in MCPaths, crowd \in MCCrowds, sells \in MCSells, smart \in MCSmart}

Step(mcap, buyers, buy, sell) == [mcap |-> mcap, buyers |-> buyers, buy |-> buy, sell |-> sell]

MCPatches == {NoPatch, [NoPatch EXCEPT !.buyers_low = 6, !.smart_3plus = 3]}

MCPollSteps == {Step(3, 2, 20, 0), Step(0, 0, 0, 0), Step(2, 0, 10, 5), Step(-3, 0, 5, 25)}
=============================================================================
