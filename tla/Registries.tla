----------------------------- MODULE Registries -----------------------------
(***************************************************************************)
(* What the bot remembers of its closed trades, across crashes: the dev    *)
(* ranker and the smart-money registry (actors that save a JSON file:      *)
(* src/src/scoring/dev_ranker.rs, smart_money.rs), the dev blacklist (rows *)
(* in Postgres: src/src/autobuy/dev_blacklist.rs,                          *)
(* src/src/persistence/postgres/dev_blacklist.rs), and the thresholds the  *)
(* learning engine derives (src/src/learning).  The position manager       *)
(* feeds each of them with a task of its own when a position is closed     *)
(* (src/src/autobuy/manager.rs).                                           *)
(*                                                                         *)
(* A registry is "dev" or "smart".  A close is a record                    *)
(*   [dev, buyers, pnl, reason, tick_drop, mcap_drop, snap, smart, at]     *)
(* with pnl and drops in percent, and a drop of -1 where the close reason  *)
(* has none; at is set when it happens.  The multiplier of the volume      *)
(* threshold is left out of the learned patch: it is clamped the same way  *)
(* and scored the same way.                                                *)
(***************************************************************************)
EXTENDS EntryScoring

CONSTANTS
    Devs, Wallets,
    Closes,         \* what a position can look like when it is closed
    OldPatches,     \* patches an earlier life of the bot may have saved
    Cooldown,       \* dev_blacklist.cooldown_secs
    AnalyzeEvery,   \* learning.analyze_every_trades
    MinTrades,      \* learning.min_trades_for_update
    MaxCloses, MaxFaults, MaxTime

CloseType ==
    [dev : Devs, buyers : SUBSET Wallets, pnl : Int, reason : STRING, tick_drop : Int,
     mcap_drop : Int, snap : BOOLEAN, smart : Nat, at : Nat]

\* A stored patch.  The engine never sets smart_1plus; an operator may, to 1 or more.
PatchType ==
    [buyers_low : Nat \cup {-1}, smart_3plus : Nat \cup {-1}, smart_1plus : (Nat \ {0}) \cup {-1}]

ASSUME RegistriesAssumption ==
    /\ Cooldown \in Nat \ {0} /\ AnalyzeEvery \in Nat \ {0} /\ MinTrades \in Nat
    /\ MaxCloses \in Nat /\ MaxFaults \in Nat /\ MaxTime \in Nat \ {0}
    /\ Closes \subseteq CloseType /\ OldPatches \subseteq PatchType

Registry == {"dev", "smart"}

VARIABLES
    now,        \* unix time
    closes,     \* the closed positions, in order
    tasks,      \* spawned tasks that have not run: [kind, id]
    mem,        \* the map an actor holds
    dirty,      \* the map has updates that are not on file
    saving,     \* registries whose actor is inside save_state, after the temporary file
    file,       \* the file of a registry: [ok, map], ok when it parses
    blacklist,  \* rows of dev_blacklist
    learned,    \* ids of the closes in learning_trades
    patch,      \* the patch in use
    patchFile,  \* learning_overrides.json: [ok, patch]
    round,      \* the optimisation inside save_patch: [patch, cnt], at most one
    lastOpt,    \* last_trade_count_at_optimize
    rounds,     \* cnt of every optimisation published, in any life of the bot
    faults,     \* crashes, failed saves, reads and statements so far
    unread,     \* registries whose file some start could not read
    lost        \* history: closes whose ban a failed insert or a crash took

regVars   == <<mem, dirty, saving, file>>
learnVars == <<patch, patchFile, round, lastOpt, rounds>>
vars == <<now, closes, tasks, regVars, blacklist, learned, learnVars, faults, unread, lost>>

-----------------------------------------------------------------------------
(***************************************************************************)
(* The records and what one close adds to them.                            *)
(***************************************************************************)
Empty(r) ==
    IF r = "dev" THEN [d \in Devs |-> [score |-> 0, tokens |-> 0]]
    ELSE [w \in Wallets |-> [pnl |-> 0, tokens |-> 0, wins |-> 0]]

\* TokenOutcome::classify and the score of the outcome.
Outcome(pnl) ==
    IF pnl >= 50 THEN 2 ELSE IF pnl >= 30 THEN 1 ELSE IF pnl <= -16 THEN -2 ELSE 0

Note(r, state, c) ==
    IF r = "dev"
    THEN [state EXCEPT ![c.dev].score = @ + Outcome(c.pnl), ![c.dev].tokens = @ + 1]
    ELSE [w \in Wallets |->
            IF w \in c.buyers
            THEN [pnl |-> state[w].pnl + c.pnl, tokens |-> state[w].tokens + 1,
                  wins |-> state[w].wins + If(c.pnl > 0, 1)]
            ELSE state[w]]

Never == 0      \* DEV_BLACKLIST_NEVER_EXPIRES

IsPermanentRugExit(c) == c.reason = "SL CRASH" \/ c.tick_drop >= 55 \/ c.mcap_drop >= 60

\* classify_dev_blacklist: the permanent tier goes before the timed one.
ClassifyDevBlacklist(c) ==
    IF IsPermanentRugExit(c) THEN "permanent"
    ELSE IF c.reason = "SL" /\ (c.pnl <= -30 \/ c.tick_drop >= 40) THEN "timed"
    ELSE "none"

\* active_for_dev: some row of the dev is in force.
ActiveForDev(d) ==
    \E row \in blacklist : row.dev = d /\ (row.expires = Never \/ row.expires > now)

-----------------------------------------------------------------------------
Init ==
    /\ now = 1 /\ closes = <<>> /\ tasks = {}
    /\ mem = [r \in Registry |-> Empty(r)] /\ file = [r \in Registry |-> [ok |-> TRUE, map |-> Empty(r)]]
    /\ dirty = [r \in Registry |-> FALSE] /\ saving = {}
    /\ blacklist = {} /\ learned = {}
    /\ patch \in OldPatches /\ patchFile = [ok |-> TRUE, patch |-> patch] /\ round = {}
    /\ lastOpt = 0 /\ rounds = <<>> /\ faults = 0 /\ unread = {} /\ lost = {}

Fault == faults < MaxFaults /\ faults' = faults + 1

-----------------------------------------------------------------------------
(***************************************************************************)
(* The position manager closes a position and spawns one task for each of  *)
(* the memories that the close concerns.                                   *)
(***************************************************************************)
Close(c) ==
    /\ Len(closes) < MaxCloses
    /\ closes' = Append(closes, [c EXCEPT !.at = now])
    /\ LET kinds == {"dev"} \cup (IF c.buyers # {} THEN {"smart"} ELSE {})
                    \cup (IF c.snap THEN {"learn"} ELSE {})
                    \cup (IF ClassifyDevBlacklist(c) # "none" THEN {"ban"} ELSE {})
       IN  tasks' = tasks \cup {[kind |-> k, id |-> Len(closes) + 1] : k \in kinds}
    /\ UNCHANGED <<now, regVars, blacklist, learned, learnVars, faults, unread, lost>>

\* note_outcome, note_trade_outcome: the actor takes the message unless it is saving.
NoteOutcome(t) ==
    /\ t \in tasks /\ t.kind \in Registry \ saving
    /\ tasks' = tasks \ {t}
    /\ mem' = [mem EXCEPT ![t.kind] = Note(t.kind, @, closes[t.id])]
    /\ dirty' = [dirty EXCEPT ![t.kind] = TRUE]
    /\ UNCHANGED <<now, closes, saving, file, blacklist, learned, learnVars, faults, unread, lost>>

Row(c) ==
    [dev |-> c.dev, created |-> c.at,
     expires |-> IF ClassifyDevBlacklist(c) = "permanent" THEN Never ELSE c.at + Cooldown]

\* Variant: a dev has one row, and the first one stays.
InsertBanOnce(t) ==
    /\ t \in tasks /\ t.kind = "ban"
    /\ tasks' = tasks \ {t}
    /\ blacklist' = IF \E row \in blacklist : row.dev = closes[t.id].dev THEN blacklist
                    ELSE blacklist \cup {Row(closes[t.id])}
    /\ UNCHANGED <<now, closes, regVars, learned, learnVars, faults, unread, lost>>

\* DevBlacklistRepository::insert: every ban has a row of its own.
InsertBan(t) ==
    /\ t \in tasks /\ t.kind = "ban"
    /\ tasks' = tasks \ {t}
    /\ blacklist' = blacklist \cup {Row(closes[t.id])}
    /\ UNCHANGED <<now, closes, regVars, learned, learnVars, faults, unread, lost>>

\* log_closed_trade
LogClosedTrade(t) ==
    /\ t \in tasks /\ t.kind = "learn"
    /\ tasks' = tasks \ {t}
    /\ learned' = learned \cup {t.id}
    /\ UNCHANGED <<now, closes, regVars, blacklist, learnVars, faults, unread, lost>>

BansOf(ts) == {t.id : t \in {u \in ts : u.kind = "ban"}}

\* A statement of one of the two fails: the task logs the error and is over.
StatementFails(t) ==
    /\ Fault /\ t \in tasks /\ t.kind \in {"ban", "learn"}
    /\ tasks' = tasks \ {t} /\ lost' = lost \cup BansOf({t})
    /\ UNCHANGED <<now, closes, regVars, blacklist, learned, learnVars, unread>>

TaskStep == \E t \in tasks : NoteOutcome(t) \/ InsertBan(t) \/ LogClosedTrade(t)

-----------------------------------------------------------------------------
(***************************************************************************)
(* The flush tick of a registry: save_state writes a temporary file and    *)
(* renames it.  The actor handles nothing else meanwhile, so what is       *)
(* renamed is the map it holds.                                            *)
(***************************************************************************)
\* Variant: the file is written in place.
FlushInPlace(r) ==
    /\ dirty[r] /\ r \notin saving
    /\ saving' = saving \cup {r}
    /\ file' = [file EXCEPT ![r].ok = FALSE]
    /\ UNCHANGED <<now, closes, tasks, mem, dirty, blacklist, learned, learnVars, faults, unread, lost>>

Flush(r) ==
    /\ dirty[r] /\ r \notin saving
    /\ saving' = saving \cup {r}
    /\ UNCHANGED <<now, closes, tasks, mem, dirty, file, blacklist, learned, learnVars, faults, unread, lost>>

Rename(r) ==
    /\ r \in saving
    /\ saving' = saving \ {r}
    /\ file' = [file EXCEPT ![r] = [ok |-> TRUE, map |-> mem[r]]]
    /\ dirty' = [dirty EXCEPT ![r] = FALSE]
    /\ UNCHANGED <<now, closes, tasks, mem, blacklist, learned, learnVars, faults, unread, lost>>

\* Variant: a failed save is not tried again.
SaveFailsForgets(r) ==
    /\ Fault /\ r \in saving
    /\ saving' = saving \ {r}
    /\ dirty' = [dirty EXCEPT ![r] = FALSE]
    /\ UNCHANGED <<now, closes, tasks, mem, file, blacklist, learned, learnVars, unread, lost>>

\* The save fails, at the temporary file or at the rename: the map stays dirty.
SaveFails(r) ==
    /\ Fault /\ r \in saving
    /\ saving' = saving \ {r}
    /\ UNCHANGED <<now, closes, tasks, mem, dirty, file, blacklist, learned, learnVars, unread, lost>>

-----------------------------------------------------------------------------
(***************************************************************************)
(* The learning engine: a tick that finds enough new trades adjusts the    *)
(* patch by the statistics of all of them, saves it in place and then      *)
(* publishes it.                                                           *)
(***************************************************************************)
Wins == {i \in learned : closes[i].pnl > 0}

\* win_smart > loss_smart + 0.75, where the average of no trades is 0.
SmartHelps ==
    LET sum(ids) == MapThenSumSet(LAMBDA i : closes[i].smart, ids)
        n(ids)   == Greatest(1, Cardinality(ids))
        losses   == learned \ Wins
    IN  4 * sum(Wins) * n(losses) > 4 * sum(losses) * n(Wins) + 3 * n(Wins) * n(losses)

Optimized ==
    IF Cardinality(learned) < 2 THEN patch
    ELSE ApplyHeuristics(FeatureThresholds, patch, Cardinality(Wins), Cardinality(learned),
                         SmartHelps)

EnoughNew == round = {} /\ Cardinality(learned) - lastOpt >= AnalyzeEvery

\* Too few trades in all: the count is remembered, the patch is left alone.
TooFewTrades ==
    /\ EnoughNew /\ Cardinality(learned) < MinTrades
    /\ lastOpt' = Cardinality(learned)
    /\ UNCHANGED <<now, closes, tasks, regVars, blacklist, learned,
                   patch, patchFile, round, rounds, faults, unread, lost>>

\* save_patch opens the file, which empties it.
Optimize ==
    /\ EnoughNew /\ Cardinality(learned) >= MinTrades
    /\ round' = {[patch |-> Optimized, cnt |-> Cardinality(learned)]}
    /\ patchFile' = [patchFile EXCEPT !.ok = FALSE]
    /\ UNCHANGED <<now, closes, tasks, regVars, blacklist, learned,
                   patch, lastOpt, rounds, faults, unread, lost>>

\* The file is written; only then is the patch published and the count remembered.
Publish ==
    \E p \in round :
        /\ patchFile' = [ok |-> TRUE, patch |-> p.patch]
        /\ patch' = p.patch /\ lastOpt' = p.cnt
        /\ rounds' = Append(rounds, p.cnt) /\ round' = {}
        /\ UNCHANGED <<now, closes, tasks, regVars, blacklist, learned, faults, unread, lost>>

\* The write fails: nothing is published, and the next tick tries again.
PatchSaveFails ==
    /\ Fault /\ round # {} /\ round' = {}
    /\ UNCHANGED <<now, closes, tasks, regVars, blacklist, learned,
                   patch, patchFile, lastOpt, rounds, unread, lost>>

-----------------------------------------------------------------------------
\* load_state: a file that is missing or does not parse is an empty map.
Loaded(r) == IF file[r].ok THEN file[r].map ELSE Empty(r)

\* The process dies anywhere and is started again.  Tasks and maps are gone, the database
\* and the files stay; the files in bad cannot be read this time.
CrashRestart(bad) ==
    /\ faults + 1 + Cardinality(bad) <= MaxFaults
    /\ faults' = faults + 1 + Cardinality(bad)
    /\ tasks' = {} /\ saving' = {} /\ round' = {} /\ lastOpt' = 0
    /\ mem' = [r \in Registry |-> IF r \in bad THEN Empty(r) ELSE Loaded(r)]
    /\ dirty' = [r \in Registry |-> FALSE]
    /\ patch' = IF "patch" \notin bad /\ patchFile.ok THEN patchFile.patch ELSE NoPatch
    /\ unread' = unread \cup (bad \cap Registry) /\ lost' = lost \cup BansOf(tasks)
    /\ UNCHANGED <<now, closes, file, blacklist, learned, patchFile, rounds>>

TimePasses ==
    /\ now < MaxTime /\ now' = now + 1
    /\ UNCHANGED <<closes, tasks, regVars, blacklist, learned, learnVars, faults, unread, lost>>

RegistryStep == \E r \in Registry : Flush(r) \/ Rename(r)

Next ==
    \/ \E c \in Closes : Close(c)
    \/ TaskStep
    \/ \E t \in tasks : StatementFails(t)
    \/ RegistryStep
    \/ \E r \in Registry : SaveFails(r)
    \/ TooFewTrades \/ Optimize \/ Publish \/ PatchSaveFails
    \/ \E bad \in SUBSET (Registry \cup {"patch"}) : CrashRestart(bad)
    \/ TimePasses

Spec == Init /\ [][Next]_vars

\* The runtime runs the spawned tasks and the actors, whose flush ticker always fires again.
FairSpec == Spec /\ WF_vars(TaskStep) /\ WF_vars(RegistryStep)

-----------------------------------------------------------------------------
(***************************************************************************)
(* Properties.                                                             *)
(***************************************************************************)
Keys(r) == IF r = "dev" THEN Devs ELSE Wallets

\* What a start would find never shrinks: no crash inside a save and no failed save costs a
\* registry an outcome that was on file.  Only a start that could not read the file does: it
\* begins with an empty map, which the next flush puts in place of the history.
HistoryKept ==
    [][\A r \in Registry \ unread : \A k \in Keys(r) :
            Loaded(r)'[k].tokens >= Loaded(r)[k].tokens]_vars

\* A map with unsaved outcomes is on file in the end, whatever saves fail before, or the
\* bot has been started again from the file.
SavedEventually ==
    \A r \in Registry : dirty[r] ~> (r \in unread \/ mem[r] = Loaded(r))

\* The term of the ban that a close calls for has not ended.
BanDue(c) ==
    \/ ClassifyDevBlacklist(c) = "permanent"
    \/ ClassifyDevBlacklist(c) = "timed" /\ now < c.at + Cooldown

\* No ban goes missing between the close that decides it and the create it is meant to
\* stop: through its whole term active_for_dev finds the dev, whatever other closes of the
\* dev wrote before or after, but for three cases: its own insert is still to run, that
\* insert failed, or the process died before it.
BansAccounted ==
    \A i \in DOMAIN closes : BanDue(closes[i]) =>
        \/ ActiveForDev(closes[i].dev)
        \/ [kind |-> "ban", id |-> i] \in tasks
        \/ i \in lost

\* However many rounds the engine makes, and whatever the patch it stores grows to, the
\* thresholds that score a launch keep their order and stay near the configured ones.
LearnedThresholdsSane ==
    LET base == FeatureThresholds
        t    == MergeThresholds(base, patch)
    IN  /\ t.buyers_low \in (base.buyers_low - 2)..(base.buyers_low + 2)
        /\ 1 <= t.buyers_low /\ t.buyers_low < t.buyers_mid
        /\ 1 <= t.smart_1plus /\ t.smart_1plus < t.smart_3plus /\ t.smart_3plus <= 8

\* Refuted: "Run optimizer after this many **new** closed trades since the last run"
\* (src/src/autobuy/filters/config.rs).  The engine counts from 0 after a restart, so it
\* adjusts the thresholds again on the trades that have already moved them.
OptimizesOnNewTrades ==
    \A i \in 2..Len(rounds) : rounds[i] - rounds[i-1] >= AnalyzeEvery

\* What a registry keeps of a dev, and of a wallet.
RecordType(r) ==
    IF r = "dev" THEN [score : Int, tokens : Nat] ELSE [pnl : Int, tokens : Nat, wins : Nat]

\* Type invariant: every map, in memory or on file, is whole; a map that is being saved has
\* updates; tasks and learned trades belong to closes that happened; one round at a time.
TypeOK ==
    /\ now \in 1..MaxTime /\ faults \in 0..MaxFaults /\ unread \subseteq Registry
    /\ lost \subseteq DOMAIN closes /\ closes \in Seq(CloseType)
    /\ tasks \subseteq [kind : {"dev", "smart", "ban", "learn"}, id : DOMAIN closes]
    /\ DOMAIN mem = Registry /\ DOMAIN file = Registry
    /\ \A r \in Registry : /\ mem[r] \in [Keys(r) -> RecordType(r)]
                          /\ file[r] \in [ok : BOOLEAN, map : [Keys(r) -> RecordType(r)]]
    /\ dirty \in [Registry -> BOOLEAN] /\ saving \subseteq {r \in Registry : dirty[r]}
    /\ blacklist \subseteq [dev : Devs, created : Nat, expires : Nat]
    /\ learned \subseteq DOMAIN closes
    /\ patch \in PatchType /\ patchFile \in [ok : BOOLEAN, patch : PatchType]
    /\ round \subseteq [patch : PatchType, cnt : Nat] /\ Cardinality(round) <= 1
    /\ lastOpt \in Nat /\ rounds \in Seq(Nat)
=============================================================================
