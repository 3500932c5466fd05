--------------------------- MODULE PositionManager ---------------------------
(***************************************************************************)
(* The position manager actor (src/src/autobuy/manager.rs): one task that  *)
(* receives PositionMessage values from a channel and owns every position  *)
(* of every wallet.  Each message handler is one action.  Around the actor *)
(* run the tasks it spawns: the fan-out of one buy signal over the enabled *)
(* wallets, the broker.buy calls, and the sells waiting out their delay.   *)
(* A spawned task only sends one message (or, for a fan-out, a fixed       *)
(* sequence of messages) back to the actor, so it is modelled by what it   *)
(* still has to send.  Messages of different tasks arrive in any order.    *)
(*                                                                         *)
(* Market data is abstracted: what a Tick decides for a position depends   *)
(* on prices and is a choice among the decisions the handler can take.     *)
(* The outcome of a broker call is a choice among the results it returns.  *)
(***************************************************************************)
EXTENDS Naturals, FiniteSets

CONSTANTS Mint,        \* token addresses
          Wallet,      \* wallet ids of the registry
          Trigger,     \* partial-sell triggers: TP1..TP5 and the mcap ceiling
          MaxOpen,     \* StrategyConfig.max_open_positions
          MaxSignals   \* bound: InitiateBuy messages the pipeline sends per mint

\* Mints are 32-byte addresses: there are finitely many.
ASSUME ConstantsAssumption ==
    /\ IsFiniteSet(Mint)
    /\ MaxOpen \in Nat
    /\ MaxSignals \in Nat

VARIABLES
    paused,             \* PositionManagerActor.paused
    enabled,            \* wallets whose `enabled` flag is set in the registry
    positions,          \* keys of the `positions` map
    isClosing,          \* open keys whose Position.is_closing is set
    pendingPartial,     \* open keys whose Position.pending_partial_sell is set
    triggered,          \* the tpN_triggered / mcap_ceiling_triggered flags set
    pendingMints,       \* pending_mints
    pendingWalletBuys,  \* pending_wallet_buys
    closedMints,        \* closed_mints
    poolCache,          \* mints with an entry in pool_cache
    quarantine,         \* mints with an unexpired curve_quarantine entry
    fanout,             \* per mint: wallets whose ExecuteBuy is still to come
    buysInFlight,       \* per key: broker.buy tasks whose BuyCompleted is to come
    fullSells,          \* per key: scheduled ExecuteSell messages of 100 percent
    partialSells,       \* per key: scheduled ExecuteSell messages below 100 percent
    signals,            \* per mint: InitiateBuy messages delivered so far
    outlived,           \* mints whose last fan-out ended before its buys did (history)
    lots,               \* per key: fills the bot still has to sell (history)
    traded              \* mints on which a fill has been sold in full (history)

posVars  == <<positions, isClosing, pendingPartial, triggered, lots>>
buyVars  == <<pendingMints, pendingWalletBuys, fanout, buysInFlight, signals, outlived>>
sellVars == <<fullSells, partialSells>>
mintVars == <<closedMints, poolCache, quarantine, traded>>
ctlVars  == <<paused, enabled>>
vars == <<posVars, buyVars, sellVars, mintVars, ctlVars>>

(***************************************************************************)
(* PositionKey: one row per mint and wallet.                               *)
(***************************************************************************)
Key == Mint \X Wallet

HasPosition(m, open) == \E k \in open : k[1] = m

\* unique_open_mints: mints with a position or in the fan-out window.
UniqueOpenMints == {k[1] : k \in positions} \cup pendingMints

\* Variant: the pool is dropped but the mint is not recorded as closed.
FinalizeForgetsClosed(m, open) ==
    /\ poolCache' = IF HasPosition(m, open) THEN poolCache ELSE poolCache \ {m}
    /\ UNCHANGED closedMints

\* maybe_finalize_closed_mint, given the positions left in the map.
MaybeFinalizeClosedMint(m, open) ==
    IF HasPosition(m, open)
    THEN UNCHANGED <<closedMints, poolCache>>
    ELSE /\ closedMints' = closedMints \cup {m}
         /\ poolCache' = poolCache \ {m}

\* Variant: is_closing kept outside the row, and not cleared with it.
RemoveKeepsClosing(ks) ==
    /\ positions' = positions \ ks
    /\ pendingPartial' = pendingPartial \ ks
    /\ triggered' = [k \in Key |-> IF k \in ks THEN {} ELSE triggered[k]]
    /\ lots' = [k \in Key |-> IF k \in ks THEN lots[k] - 1 ELSE lots[k]]
    /\ UNCHANGED isClosing

\* `positions.remove` of a set of keys: the row goes with all its flags.
RemovePositions(ks) ==
    /\ positions' = positions \ ks
    /\ isClosing' = isClosing \ ks
    /\ pendingPartial' = pendingPartial \ ks
    /\ triggered' = [k \in Key |-> IF k \in ks THEN {} ELSE triggered[k]]
    /\ lots' = [k \in Key |-> IF k \in ks THEN lots[k] - 1 ELSE lots[k]]

Init ==
    /\ paused = FALSE
    /\ enabled \in SUBSET Wallet
    /\ positions = {}
    /\ isClosing = {}
    /\ pendingPartial = {}
    /\ triggered = [k \in Key |-> {}]
    /\ pendingMints = {}
    /\ pendingWalletBuys = {}
    /\ closedMints = {}
    /\ poolCache = {}
    /\ quarantine = {}
    /\ fanout = [m \in Mint |-> {}]
    /\ buysInFlight = [k \in Key |-> 0]
    /\ fullSells = [k \in Key |-> 0]
    /\ partialSells = [k \in Key |-> 0]
    /\ signals = [m \in Mint |-> 0]
    /\ outlived = {}
    /\ lots = [k \in Key |-> 0]
    /\ traded = {}

-----------------------------------------------------------------------------
(***************************************************************************)
(* Messages from outside: market data, the operator, the scoring pipeline. *)
(***************************************************************************)

\* UpdatePool and UpdateTokenBucket: every trade of a mint re-inserts its pool,
\* whether or not the mint has been closed.
UpdatePool(m) ==
    /\ poolCache' = poolCache \cup {m}
    /\ UNCHANGED <<posVars, buyVars, sellVars, ctlVars, closedMints, quarantine, traded>>

SetPaused(p) ==
    /\ paused' = p
    /\ UNCHANGED <<posVars, buyVars, sellVars, mintVars, enabled>>

\* PUT /wallets -> WalletRegistry::apply_config_patch flips `enabled` flags.
ApplyConfigPatch(ws) ==
    /\ enabled' = ws
    /\ UNCHANGED <<posVars, buyVars, sellVars, mintVars, paused>>

\* The early returns of InitiateBuy that look at the actor's own state.
SignalRejected(m) ==
    \/ paused
    \/ HasPosition(m, positions)
    \/ m \in pendingMints
    \/ m \in closedMints
    \/ m \in quarantine
    \/ Cardinality(UniqueOpenMints) >= MaxOpen

\* InitiateBuy dropped: a guard above, or another block of strategy.can_open
\* (daily caps and pauses, module StrategyController).
InitiateBuyRejected(m) ==
    /\ signals[m] < MaxSignals
    /\ signals' = [signals EXCEPT ![m] = @ + 1]
    /\ UNCHANGED <<posVars, sellVars, mintVars, ctlVars,
                   pendingMints, pendingWalletBuys, fanout, buysInFlight, outlived>>

\* InitiateBuy admitted: the pool is cached, and the fan-out task starts unless
\* no wallet is enabled.
InitiateBuyAdmitted(m) ==
    /\ signals[m] < MaxSignals
    /\ ~SignalRejected(m)
    /\ signals' = [signals EXCEPT ![m] = @ + 1]
    /\ poolCache' = poolCache \cup {m}
    /\ pendingMints' = IF enabled = {} THEN pendingMints ELSE pendingMints \cup {m}
    /\ fanout' = [fanout EXCEPT ![m] = enabled]
    /\ outlived' = IF enabled = {} THEN outlived ELSE outlived \ {m}
    /\ UNCHANGED <<posVars, sellVars, ctlVars, closedMints, quarantine, traded,
                   pendingWalletBuys, buysInFlight>>

\* CurveQuarantineCache entries lapse with the clock (is_active, prune).
QuarantineExpires(m) ==
    /\ m \in quarantine
    /\ quarantine' = quarantine \ {m}
    /\ UNCHANGED <<posVars, buyVars, sellVars, ctlVars, closedMints, poolCache, traded>>

\* POST /positions/abandon: drop the rows of a mint, of one wallet or of all,
\* without selling; the tokens are the operator's from here on.
AbandonPosition(m, ws) ==
    LET gone == positions \cap ({m} \X ws)
    IN  /\ RemovePositions(gone)
        /\ MaybeFinalizeClosedMint(m, positions \ gone)
        /\ UNCHANGED <<buyVars, sellVars, ctlVars, quarantine, traded>>

-----------------------------------------------------------------------------
(***************************************************************************)
(* Opening a position: the fan-out's messages and the broker's answer.     *)
(***************************************************************************)

\* Variant: `paused` is only looked at by InitiateBuy.
ExecuteBuyIgnoresPause(m, w) ==
    LET k == <<m, w>>
        starts == k \notin positions /\ m \in poolCache
    IN  /\ w \in fanout[m]
        /\ fanout' = [fanout EXCEPT ![m] = @ \ {w}]
        /\ pendingWalletBuys' = IF starts THEN pendingWalletBuys \cup {k}
                                          ELSE pendingWalletBuys \ {k}
        /\ buysInFlight' = IF starts THEN [buysInFlight EXCEPT ![k] = @ + 1]
                                     ELSE buysInFlight
        /\ UNCHANGED <<posVars, sellVars, mintVars, ctlVars, pendingMints, signals, outlived>>

\* Variant: the fan-out sends the ExecuteBuy of a wallet again.
ExecuteBuyResent(m, w) ==
    LET k == <<m, w>>
    IN  /\ w \in fanout[m]
        /\ ~paused /\ k \notin positions /\ m \in poolCache
        /\ pendingWalletBuys' = pendingWalletBuys \cup {k}
        /\ buysInFlight' = [buysInFlight EXCEPT ![k] = @ + 1]
        /\ UNCHANGED <<posVars, sellVars, mintVars, ctlVars, pendingMints, fanout, signals,
                       outlived>>

\* ExecuteBuy for the next wallet of the fan-out.  It is dropped when paused,
\* when the wallet already holds the mint or when the pool is gone; otherwise
\* broker.buy runs in a task of its own.
ExecuteBuy(m, w) ==
    LET k == <<m, w>>
        starts == ~paused /\ k \notin positions /\ m \in poolCache
    IN  /\ w \in fanout[m]
        /\ fanout' = [fanout EXCEPT ![m] = @ \ {w}]
        /\ pendingWalletBuys' = IF starts THEN pendingWalletBuys \cup {k}
                                          ELSE pendingWalletBuys \ {k}
        /\ buysInFlight' = IF starts THEN [buysInFlight EXCEPT ![k] = @ + 1]
                                     ELSE buysInFlight
        /\ UNCHANGED <<posVars, sellVars, mintVars, ctlVars, pendingMints, signals, outlived>>

\* The buys of a mint that still run when its slot is given back.
OutlivedBy(m) == IF \E w \in Wallet : buysInFlight[<<m, w>>] > 0 THEN {m} ELSE {}

\* Variant: ClearPendingMint overtakes the ExecuteBuy messages.
ClearPendingEarly(m) ==
    /\ m \in pendingMints
    /\ pendingMints' = pendingMints \ {m}
    /\ outlived' = outlived \cup OutlivedBy(m)
    /\ UNCHANGED <<posVars, sellVars, mintVars, ctlVars,
                   pendingWalletBuys, fanout, buysInFlight, signals>>

\* Variant: the mint stays pending until some wallet holds it.
ClearPendingOnFill(m) ==
    /\ m \in pendingMints
    /\ fanout[m] = {}
    /\ HasPosition(m, positions)
    /\ pendingMints' = pendingMints \ {m}
    /\ outlived' = outlived \cup OutlivedBy(m)
    /\ UNCHANGED <<posVars, sellVars, mintVars, ctlVars,
                   pendingWalletBuys, fanout, buysInFlight, signals>>

\* The last message of a fan-out: the mint leaves pending_mints, whether or not
\* the buys it started have returned.
ClearPendingMint(m) ==
    /\ m \in pendingMints
    /\ fanout[m] = {}
    /\ pendingMints' = pendingMints \ {m}
    /\ outlived' = outlived \cup OutlivedBy(m)
    /\ UNCHANGED <<posVars, sellVars, mintVars, ctlVars,
                   pendingWalletBuys, fanout, buysInFlight, signals>>

\* Variant: one return path forgets pending_wallet_buys.
BuyReturnsLeaks(k) ==
    /\ buysInFlight[k] > 0
    /\ buysInFlight' = [buysInFlight EXCEPT ![k] = @ - 1]
    /\ UNCHANGED <<sellVars, ctlVars, pendingMints, pendingWalletBuys, fanout, signals,
                   outlived>>

\* What every BuyCompleted does first.
BuyReturns(k) ==
    /\ buysInFlight[k] > 0
    /\ buysInFlight' = [buysInFlight EXCEPT ![k] = @ - 1]
    /\ pendingWalletBuys' = pendingWalletBuys \ {k}
    /\ UNCHANGED <<sellVars, ctlVars, pendingMints, fanout, signals, outlived>>

\* Mint not on the RPC node yet, or graduated without a route: the mint is
\* given up unless some wallet got in.
BuyUnavailable(k) ==
    /\ BuyReturns(k)
    /\ closedMints' = IF HasPosition(k[1], positions) THEN closedMints
                                                      ELSE closedMints \cup {k[1]}
    /\ UNCHANGED <<posVars, poolCache, quarantine, traded>>

\* Any other broker error.
BuyFailed(k) ==
    /\ BuyReturns(k)
    /\ UNCHANGED <<posVars, mintVars>>

\* Variant: no position is opened although the emergency sell failed.
BuyAbortedUnsold(k) ==
    /\ BuyReturns(k)
    /\ lots' = [lots EXCEPT ![k] = @ + 1]
    /\ UNCHANGED <<positions, isClosing, pendingPartial, triggered, mintVars>>

\* Filled, but the fill price is outside the accepted band and the emergency
\* sell of the whole fill succeeded: no position is opened.
BuyAborted(k) ==
    /\ BuyReturns(k)
    /\ traded' = traded \cup {k[1]}
    /\ UNCHANGED <<posVars, closedMints, poolCache, quarantine>>

\* Filled: a fresh Position is inserted under the key.
BuyOpened(k) ==
    /\ BuyReturns(k)
    /\ positions' = positions \cup {k}
    /\ isClosing' = isClosing \ {k}
    /\ pendingPartial' = pendingPartial \ {k}
    /\ triggered' = [triggered EXCEPT ![k] = {}]
    /\ lots' = [lots EXCEPT ![k] = @ + 1]
    /\ UNCHANGED mintVars

BuyCompleted(k) == BuyUnavailable(k) \/ BuyFailed(k) \/ BuyAborted(k) \/ BuyOpened(k)

-----------------------------------------------------------------------------
(***************************************************************************)
(* Managing open positions.                                                *)
(***************************************************************************)

\* process_positions skips the rows already queued for a full close.
Managed == positions \ isClosing

\* The partial sells a managed position may queue this tick: none while one is
\* pending, and each trigger once.
Untriggered(k) == IF k \in pendingPartial THEN {} ELSE Trigger \ triggered[k]

\* Tick: every managed position is held, queued for a full close (`close`), or
\* queued for one partial sell (`part`, with the trigger that fired).
Tick(close, part, fired) ==
    /\ close \subseteq Managed
    /\ part \subseteq Managed \ close
    /\ \A k \in part : fired[k] \in Untriggered(k)
    /\ isClosing' = isClosing \cup close
    /\ pendingPartial' = pendingPartial \cup part
    /\ triggered' = [k \in Key |-> IF k \in part THEN triggered[k] \cup {fired[k]}
                                                 ELSE triggered[k]]
    /\ fullSells' = [k \in Key |-> IF k \in close THEN fullSells[k] + 1 ELSE fullSells[k]]
    /\ partialSells' = [k \in Key |-> IF k \in part THEN partialSells[k] + 1
                                                    ELSE partialSells[k]]
    /\ UNCHANGED <<buyVars, mintVars, ctlVars, positions, lots>>

\* ExecuteSell taken from the channel.
TakeFullSell(k) ==
    /\ fullSells[k] > 0
    /\ fullSells' = [fullSells EXCEPT ![k] = @ - 1]
    /\ UNCHANGED <<buyVars, ctlVars, partialSells>>

TakePartialSell(k) ==
    /\ partialSells[k] > 0
    /\ partialSells' = [partialSells EXCEPT ![k] = @ - 1]
    /\ UNCHANGED <<buyVars, ctlVars, mintVars, fullSells, positions, triggered, lots>>

\* The position was sold or abandoned while the sell waited: nothing happens.
FullSellIgnored(k) ==
    /\ TakeFullSell(k)
    /\ k \notin positions
    /\ UNCHANGED <<posVars, mintVars>>

\* Variant: the failed sell puts the row back with is_closing still set.
FullSellFailedKeepsClosing(k) ==
    /\ TakeFullSell(k)
    /\ k \in positions
    /\ pendingPartial' = pendingPartial \ {k}
    /\ UNCHANGED <<mintVars, positions, isClosing, triggered, lots>>

\* A 100 percent sell failed: the row goes back without its two flags.
FullSellFailed(k) ==
    /\ TakeFullSell(k)
    /\ k \in positions
    /\ isClosing' = isClosing \ {k}
    /\ pendingPartial' = pendingPartial \ {k}
    /\ UNCHANGED <<mintVars, positions, triggered, lots>>

\* A 100 percent sell went through: the row is gone, the mint is closed when it
\* was the last one, and a suspicious exit quarantines the mint.
FullSellDone(k) ==
    /\ TakeFullSell(k)
    /\ k \in positions
    /\ RemovePositions({k})
    /\ MaybeFinalizeClosedMint(k[1], positions \ {k})
    /\ traded' = traded \cup {k[1]}
    /\ \E q \in {{}, {k[1]}} : quarantine' = quarantine \cup q

ExecuteFullSell(k) == FullSellIgnored(k) \/ FullSellFailed(k) \/ FullSellDone(k)

\* A partial sell executed, failed or ignored: the partial flag is cleared.  Only
\* the error that asks for a manual sell clears is_closing as well.
PartialSellSettled(k) ==
    /\ TakePartialSell(k)
    /\ pendingPartial' = pendingPartial \ {k}
    /\ UNCHANGED isClosing

PartialSellExhausted(k) ==
    /\ TakePartialSell(k)
    /\ k \in positions
    /\ pendingPartial' = pendingPartial \ {k}
    /\ isClosing' = isClosing \ {k}

ExecutePartialSell(k) == PartialSellSettled(k) \/ PartialSellExhausted(k)

-----------------------------------------------------------------------------
TickStep == \E close \in SUBSET Managed :
              \E part \in SUBSET (Managed \ close) :
                \E fired \in [part -> Trigger] : Tick(close, part, fired)

Next ==
    \/ \E m \in Mint : \/ UpdatePool(m)
                       \/ InitiateBuyRejected(m)
                       \/ InitiateBuyAdmitted(m)
                       \/ QuarantineExpires(m)
                       \/ ClearPendingMint(m)
                       \/ AbandonPosition(m, Wallet)
    \/ \E m \in Mint, w \in Wallet : AbandonPosition(m, {w}) \/ ExecuteBuy(m, w)
    \/ \E p \in BOOLEAN : SetPaused(p)
    \/ \E ws \in SUBSET Wallet : ApplyConfigPatch(ws)
    \/ \E k \in Key : BuyCompleted(k) \/ ExecuteFullSell(k) \/ ExecutePartialSell(k)
    \/ TickStep

\* Every spawned task finishes: delays elapse and broker calls return (they are
\* bounded by timeouts), and the actor takes every message of its channel.
Fairness ==
    /\ \A m \in Mint : WF_vars(ClearPendingMint(m))
    /\ \A m \in Mint, w \in Wallet : WF_vars(ExecuteBuy(m, w))
    /\ \A k \in Key : /\ WF_vars(BuyCompleted(k))
                      /\ WF_vars(ExecuteFullSell(k))
                      /\ WF_vars(ExecutePartialSell(k))

Spec == Init /\ [][Next]_vars
FairSpec == Spec /\ Fairness

-----------------------------------------------------------------------------
(***************************************************************************)
(* Properties.                                                             *)
(***************************************************************************)

\* Type invariant: every map has its keys, a row's flags exist only while the row
\* does, and a row always stands for at least one unsold fill.
TypeOK ==
    /\ paused \in BOOLEAN
    /\ enabled \in SUBSET Wallet
    /\ positions \in SUBSET Key
    /\ isClosing \in SUBSET positions
    /\ pendingPartial \in SUBSET positions
    /\ triggered \in [Key -> SUBSET Trigger]
    /\ pendingMints \in SUBSET Mint
    /\ pendingWalletBuys \in SUBSET Key
    /\ closedMints \in SUBSET Mint
    /\ poolCache \in SUBSET Mint
    /\ quarantine \in SUBSET Mint
    /\ fanout \in [Mint -> SUBSET Wallet]
    /\ buysInFlight \in [Key -> Nat]
    /\ fullSells \in [Key -> Nat]
    /\ partialSells \in [Key -> Nat]
    /\ signals \in [Mint -> Nat]
    /\ outlived \in SUBSET Mint
    /\ lots \in [Key -> Nat]
    /\ \A k \in positions : lots[k] > 0
    /\ traded \in SUBSET Mint

\* A flag that takes a position out of exit management is always backed by a sell
\* on its way to the actor: is_closing by a 100 percent sell, pending_partial_sell
\* by a partial one.  Otherwise process_positions would skip the row forever and
\* the tokens would never be sold.
FlagsBacked ==
    /\ \A k \in isClosing : fullSells[k] > 0
    /\ \A k \in pendingPartial : partialSells[k] > 0

\* The cap on open mints is exact but for the buys that outlive their fan-out:
\* a mint gives its slot back with ClearPendingMint and takes it again, without
\* asking, when a broker.buy still running by then fills.  Every other mint that
\* is open or pending was admitted below max_open_positions and keeps its slot,
\* whatever signals, abandons, exits and late fills of other mints interleave.
CapExact == Cardinality(UniqueOpenMints \ outlived) <= MaxOpen

\* pending_mints covers the whole fan-out window (a step of the proofs).
PendingCoversFanout == \A m \in Mint : fanout[m] # {} => m \in pendingMints

\* Who answers for a running buy: its mint is pending, or was when the fan-out
\* ended (a step of the proofs).
BuysCovered == \A k \in Key : buysInFlight[k] > 0 => k[1] \in pendingMints \cup outlived

\* pending_wallet_buys never leaks: an entry means that a broker.buy is running.
WalletBuysRunning == \A k \in pendingWalletBuys : buysInFlight[k] > 0

\* The quarantine of InitiateBuy never decides anything: a quarantined mint is
\* already refused because it is closed or another wallet still holds it.
QuarantineSubsumed ==
    \A m \in quarantine : m \in closedMints \/ HasPosition(m, positions)

\* With one signal per mint (what the pipeline sends for one Create event), every
\* unsold fill is the one its position row manages: no fill is forgotten, none is
\* sold twice.
FillsTracked ==
    MaxSignals = 1 => \A k \in Key : lots[k] = IF k \in positions THEN 1 ELSE 0

\* A mint that was given up and has nothing left in flight.
Drained(m) ==
    /\ m \in closedMints \ pendingMints
    /\ ~HasPosition(m, positions)
    /\ \A w \in Wallet : buysInFlight[<<m, w>>] = 0

\* closed_mints, "never re-enter": once a closed mint has no buy in flight it
\* stays without positions and without buys for good.
DrainedStaysDrained == [][\A m \in Mint : Drained(m) => Drained(m)']_vars

\* The mint whose last position leaves the map is closed in the same step.
LastExitClosesMint ==
    [][\A m \in Mint : HasPosition(m, positions) /\ ~HasPosition(m, positions')
                       => m \in closedMints']_vars

\* While the operator has paused new positions no broker.buy is started, not even
\* for a signal admitted before the pause.
PauseStartsNoBuy ==
    [][paused => \A k \in Key : buysInFlight'[k] <= buysInFlight[k]]_vars

\* A closing position is sold, abandoned or handed back to exit management; a
\* queued partial sell is settled.
FlagsResolve ==
    \A k \in Key : /\ k \in isClosing ~> k \notin isClosing
                   /\ k \in pendingPartial ~> k \notin pendingPartial

\* Every admitted signal leaves pending_mints again, so it cannot hold a slot of
\* max_open_positions forever.
PendingClears == \A m \in Mint : m \in pendingMints ~> m \notin pendingMints

-----------------------------------------------------------------------------
(***************************************************************************)
(* What comments and docs of the repository say and the code does not do   *)
(* in every interleaving.                                                  *)
(***************************************************************************)

\* strategy_controller.rs: max_open_positions is a hard cap on open mints.
MaxOpenHardCap == Cardinality({k[1] : k \in positions}) <= MaxOpen

\* manager.rs, InitiateBuy: duplicate signals on a mint are rejected, so a wallet
\* never has two buys of one mint running.
NoDuplicateBuy == \A k \in Key : buysInFlight[k] <= 1

\* manager.rs, closed_mints: a mint that was sold out and closed is never re-entered.
ClosedNeverReentered ==
    [][\A k \in positions' \ positions : k[1] \notin closedMints \cap traded]_vars

\* positions.rs, pending_partial_sell: a second partial sell is not queued before
\* the first one executes.
OnePartialSellQueued == \A k \in Key : partialSells[k] <= 1

\* positions.rs, is_closing: no duplicate full close while one is in flight.
OneFullSellQueued == \A k \in Key : fullSells[k] <= 1
=============================================================================
