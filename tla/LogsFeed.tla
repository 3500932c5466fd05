------------------------------- MODULE LogsFeed -------------------------------
(***************************************************************************)
(* The log subscription of the pump feed (src/src/feed/logs_feed.rs and    *)
(* SelfDedup of src/src/feed/metrics.rs): a websocket that may fail to     *)
(* connect, end, or stay connected without useful messages, a watchdog on  *)
(* useful events, and a bounded memory of signatures that outlives the     *)
(* subscriptions.                                                          *)
(*                                                                         *)
(* The chain is a sequence of transactions, one event each; a transaction  *)
(* is named by its position, which stands for its signature.  One unit of  *)
(* idle time is a part of STREAM_USEFUL_IDLE_TIMEOUT_SECS.  The sleep      *)
(* before a reconnect is not timed, so its backoff is left out, and with   *)
(* it an attempt that fails: it only makes the sleep longer.               *)
(***************************************************************************)
EXTENDS Integers, Sequences, FiniteSets, SequencesExt

CONSTANTS
    Mints, Traders,
    JunkSigs,       \* signatures of transactions without program data
    MaxTx,          \* transactions of a behaviour
    MaxRedeliver,   \* redeliveries of a behaviour
    DedupCap,       \* SELF_DEDUP_CAPACITY
    IdleLimit       \* STREAM_USEFUL_IDLE_TIMEOUT_SECS

ASSUME FeedAssumption ==
    /\ MaxTx \in Nat /\ MaxRedeliver \in Nat
    /\ DedupCap \in Nat \ {0} /\ IdleLimit \in Nat \ {0}
    /\ JunkSigs \cap (1..MaxTx) = {}

VARIABLES
    chain,      \* transactions so far: [kind, mint, trader]
    link,       \* "connecting", "up", or "silent": connected, but nothing useful arrives
    stream,     \* signatures on their way through the subscription
    seen,       \* SelfDedup: remembered signatures, oldest first
    idle,       \* time since the last useful event
    pumprx,     \* events sent to the consumer
    lost,       \* transactions the subscription missed
    evicted,    \* signatures SelfDedup has forgotten
    redelivered \* redeliveries so far

feedVars == <<chain, link, stream, seen, idle, pumprx, lost, evicted, redelivered>>

FeedInit ==
    /\ chain = <<>> /\ link = "connecting" /\ stream = <<>> /\ seen = <<>>
    /\ idle = 0 /\ pumprx = <<>>
    /\ lost = {} /\ evicted = {} /\ redelivered = 0

-----------------------------------------------------------------------------
(***************************************************************************)
(* The chain and the RPC provider (external).                              *)
(***************************************************************************)
Count(c, i, kind, m, t) == IF c[i] = [kind |-> kind, mint |-> m, trader |-> t] THEN 1 ELSE 0

\* Tokens of t on mint m after the first n transactions of c: every trade moves one.
ChainHolds(c, m, t, n) ==
    LET h[i \in 0..n] ==
            IF i = 0 THEN 0 ELSE h[i-1] + Count(c, i, "buy", m, t) - Count(c, i, "sell", m, t)
    IN  h[n]

Created(m) == \E i \in DOMAIN chain : chain[i].kind = "create" /\ chain[i].mint = m

Possible(tx) ==
    CASE tx.kind = "create" -> ~Created(tx.mint)
      [] tx.kind = "buy"    -> Created(tx.mint)
      [] tx.kind = "sell"   -> ChainHolds(chain, tx.mint, tx.trader, Len(chain)) > 0

\* A transaction succeeds on chain; a live subscription carries it.
Transact ==
    /\ Len(chain) < MaxTx
    /\ \E kind \in {"create", "buy", "sell"}, m \in Mints, t \in Traders :
       \E tx \in {[kind |-> kind, mint |-> m, trader |-> t]} :
          Possible(tx) /\ chain' = Append(chain, tx)
    /\ IF link = "up" THEN stream' = Append(stream, Len(chain')) /\ UNCHANGED lost
       ELSE lost' = lost \cup {Len(chain')} /\ UNCHANGED stream
    /\ UNCHANGED <<link, seen, idle, pumprx, evicted, redelivered>>

\* The provider delivers a transaction again.
Redeliver ==
    /\ link = "up" /\ redelivered < MaxRedeliver
    /\ \E i \in DOMAIN chain : stream' = Append(stream, i)
    /\ redelivered' = redelivered + 1
    /\ UNCHANGED <<chain, link, seen, idle, pumprx, lost, evicted>>

\* The subscription stays open and carries only junk from now on.
GoSilent ==
    /\ link = "up" /\ stream = <<>>
    /\ link' = "silent"
    /\ UNCHANGED <<chain, stream, seen, idle, pumprx, lost, evicted, redelivered>>

-----------------------------------------------------------------------------
(***************************************************************************)
(* Feed::subscribe.                                                        *)
(***************************************************************************)
\* check_and_remember of a new signature: the oldest is forgotten at the capacity.
Remember(sig) ==
    /\ seen' = Append(IF Len(seen) >= DedupCap THEN Tail(seen) ELSE seen, sig)
    /\ evicted' = IF Len(seen) >= DedupCap THEN evicted \cup ({Head(seen)} \ JunkSigs) ELSE evicted

Seen(sig) == Contains(seen, sig)

\* Variant: the memory belongs to one subscription.
SubscribeForgets ==
    /\ link = "connecting"
    /\ link' = "up" /\ idle' = 0 /\ seen' = <<>>
    /\ UNCHANGED <<chain, stream, pumprx, lost, evicted, redelivered>>

\* A working subscription: the watchdog starts over, the memory stays.
Subscribe ==
    /\ link = "connecting"
    /\ link' = "up" /\ idle' = 0
    /\ UNCHANGED <<chain, stream, seen, pumprx, lost, evicted, redelivered>>

\* A subscription that worked is over: what it still carried is lost.
Reconnect ==
    /\ link' = "connecting"
    /\ stream' = <<>> /\ lost' = lost \cup Range(stream)
    /\ UNCHANGED <<chain, seen, idle, pumprx, evicted, redelivered>>

\* The stream ends or fails.
StreamEnds == link # "connecting" /\ Reconnect

\* No useful event for the whole limit.
Watchdog == link # "connecting" /\ idle = IdleLimit /\ Reconnect

\* Time passes, also while the feed waits for a full pump_rx.
IdleTime ==
    /\ link # "connecting" /\ idle < IdleLimit
    /\ idle' = idle + 1
    /\ UNCHANGED <<chain, link, stream, seen, pumprx, lost, evicted, redelivered>>

\* Variant: any message counts as a sign of life.
OnJunkAlive ==
    /\ link # "connecting"
    /\ idle' = 0
    /\ \E j \in JunkSigs : IF Seen(j) THEN UNCHANGED <<seen, evicted>> ELSE Remember(j)
    /\ UNCHANGED <<chain, link, stream, pumprx, lost, redelivered>>

\* A failed transaction is dropped; a successful one without program data is dropped
\* after its signature has taken a place in the memory.
OnJunk ==
    /\ link # "connecting"
    /\ \/ UNCHANGED <<seen, evicted>>
       \/ \E j \in JunkSigs : ~Seen(j) /\ Remember(j)
    /\ UNCHANGED <<chain, link, stream, idle, pumprx, lost, redelivered>>

\* A message with an event: dropped when its signature is remembered, else forwarded.
OnMessage ==
    /\ link # "connecting" /\ stream # <<>>
    /\ stream' = Tail(stream)
    /\ IF Seen(Head(stream)) THEN UNCHANGED <<seen, evicted, idle, pumprx>>
       ELSE /\ Remember(Head(stream))
            /\ idle' = 0
            /\ pumprx' = Append(pumprx, Head(stream))
    /\ UNCHANGED <<chain, link, lost, redelivered>>

Provider == Transact \/ Redeliver \/ GoSilent \/ StreamEnds \/ OnJunk

FeedStep == Subscribe \/ Watchdog \/ IdleTime \/ OnMessage

\* Time passes, the loop runs, and an attempt to subscribe succeeds in the end.
FeedFairness == WF_feedVars(FeedStep)

-----------------------------------------------------------------------------
\* A feed whose subscription has gone silent subscribes again, however much junk keeps
\* arriving ("this guards the silent-stall failure mode").
FeedRecovers == link = "silent" ~> link = "up"
=============================================================================
