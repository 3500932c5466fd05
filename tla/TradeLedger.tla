----------------------------- MODULE TradeLedger -----------------------------
(***************************************************************************)
(* From an event of the feed to the rows of a trade: the consumer of       *)
(* src/src/pipelines/pump.rs and the launchpad actor behind it, the event  *)
(* loop of src/src/main.rs with the tasks it spawns, the waiter that holds *)
(* a trade back until its coin is saved (src/src/setup/waiter.rs), and the *)
(* write queue (src/src/persistence/write_queue.rs).  It composes with     *)
(* LogsFeed, whose pumprx is the consumer's input.                         *)
(*                                                                         *)
(* The consumer waits for the launchpad on every event, and the event loop *)
(* only spawns tasks, which may start late: an event is one step here.     *)
(* Prices and roles of traders are left out.  A token bucket is a swarm;   *)
(* what a replaced bucket held stays with the tasks that have a clone.     *)
(***************************************************************************)
EXTENDS LogsFeed

CONSTANTS
    Unsupported,  \* mints with an unsupported quote mint
    Filtered,     \* mints of the other mayhem mode
    ChannelCap,   \* CHANNEL_CAP of the write queue
    FlushMaxOps   \* FLUSH_MAX_OPS

ASSUME LedgerAssumption ==
    /\ Unsupported \subseteq Mints /\ Filtered \subseteq Mints
    /\ ChannelCap \in Nat \ {0} /\ FlushMaxOps \in Nat \ {0}

VARIABLES
    holds,     \* per mint: the holdings its swarm tracks per trader, NoBucket before a create
    applied,   \* per transaction: how often the launchpad has applied it
    saving,    \* mints whose save task runs
    coins,     \* rows of table coins
    created,   \* mints the waiter knows as Created
    tasks,     \* persistence tasks, each with the op it enqueues next
    wq,        \* ops in the channel of the write queue
    buf,       \* ops the worker has taken
    rows,      \* trades in the database
    gone       \* trades that will not be written, each with the reason

ledgerVars == <<holds, applied, saving, coins, created, tasks, wq, buf, rows, gone>>
vars == <<feedVars, ledgerVars>>

NoBucket == <<>>
Empty == [t \in Traders |-> 0]

Init ==
    /\ FeedInit
    /\ holds = [m \in Mints |-> NoBucket]
    /\ applied = [i \in 1..MaxTx |-> 0]
    /\ saving = {} /\ coins = {} /\ created = {} /\ tasks = {}
    /\ wq = <<>> /\ buf = <<>> /\ rows = {} /\ gone = {}

-----------------------------------------------------------------------------
(***************************************************************************)
(* The consumer, the launchpad and the event loop.                         *)
(***************************************************************************)
\* Variant: a trader seen for the first time is added without the offer.
UpdateSwarmLate(h, tx) ==
    IF h[tx.trader] = 0 /\ tx.kind = "buy" THEN h
    ELSE [h EXCEPT ![tx.trader] = @ + (IF tx.kind = "buy" THEN 1 ELSE -1)]

\* Swarm::update and Trader::apply.  The code's u64 wraps where this goes below zero.
UpdateSwarm(h, tx) == [h EXCEPT ![tx.trader] = @ + (IF tx.kind = "buy" THEN 1 ELSE -1)]

Consumed == pumprx' = Tail(pumprx)
FeedAside == UNCHANGED <<chain, link, stream, seen, idle, lost, evicted, redelivered>>

\* A create of the other mayhem mode never reaches the launchpad.  Any other one makes a
\* bucket, or replaces it by an empty one; the event loop saves a supported coin.
OnCreate ==
    /\ pumprx # <<>>
    /\ LET i == Head(pumprx)
           m == chain[i].mint
       IN /\ chain[i].kind = "create"
          /\ IF m \in Filtered THEN UNCHANGED <<holds, applied, saving>>
             ELSE /\ holds' = [holds EXCEPT ![m] = Empty]
                  /\ applied' = [applied EXCEPT ![i] = @ + 1]
                  /\ saving' = IF m \in Unsupported THEN saving ELSE saving \cup {m}
    /\ Consumed /\ FeedAside
    /\ UNCHANGED <<coins, created, tasks, wq, buf, rows, gone>>

\* A trade of an unknown mint is dropped by the launchpad.  Any other one updates the
\* swarm, and the event loop spawns its persistence task.
OnTrade ==
    /\ pumprx # <<>>
    /\ LET i == Head(pumprx)
           m == chain[i].mint
       IN /\ chain[i].kind # "create"
          /\ IF holds[m] = NoBucket THEN UNCHANGED <<holds, applied, tasks>>
             ELSE /\ holds' = [holds EXCEPT ![m] = UpdateSwarm(@, chain[i])]
                  /\ applied' = [applied EXCEPT ![i] = @ + 1]
                  /\ tasks' = tasks \cup {[kind |-> "tape", tx |-> i, n |-> applied[i] + 1]}
    /\ Consumed /\ FeedAside
    /\ UNCHANGED <<saving, coins, created, wq, buf, rows, gone>>

-----------------------------------------------------------------------------
(***************************************************************************)
(* The tasks.                                                              *)
(***************************************************************************)
\* Variant: only a saved coin is announced.
SaveTokenStrict(m) ==
    /\ m \in saving
    /\ saving' = saving \ {m}
    /\ \/ coins' = coins \cup {m} /\ created' = created \cup {m}
       \/ UNCHANGED <<coins, created>>
    /\ UNCHANGED <<feedVars, holds, applied, tasks, wq, buf, rows, gone>>

\* save_token, which may fail, then notify_created in either case.
SaveToken(m) ==
    /\ m \in saving
    /\ saving' = saving \ {m}
    /\ \/ coins' = coins \cup {m}
       \/ UNCHANGED coins
    /\ created' = created \cup {m}
    /\ UNCHANGED <<feedVars, holds, applied, tasks, wq, buf, rows, gone>>

Lost(ops, why) == {[op |-> o, why |-> why] : o \in {x \in ops : x.kind = "trade"}}

\* try_send: an op that does not fit is dropped.
TrySend(o) ==
    IF Len(wq) < ChannelCap THEN wq' = Append(wq, o) /\ UNCHANGED gone
    ELSE gone' = gone \cup Lost({o}, "write") /\ UNCHANGED wq

Enqueued(k) ==
    tasks' = (tasks \ {k}) \cup (IF k.kind = "tape" THEN {[k EXCEPT !.kind = "trade"]} ELSE {})

\* The waiter has been told of the coin: it answers at once, whoever asks first.
Awaited(m) == m \in created

\* Variant: the task does not wait for its coin.
PersistUnordered(k) ==
    /\ TrySend(k) /\ Enqueued(k)
    /\ UNCHANGED <<feedVars, holds, applied, saving, coins, created, buf, rows>>

\* The task of a trade waits for its coin; then it enqueues the tape sample and the trade,
\* between which the worker may run.
Persist(k) ==
    /\ Awaited(chain[k.tx].mint)
    /\ TrySend(k) /\ Enqueued(k)
    /\ UNCHANGED <<feedVars, holds, applied, saving, coins, created, buf, rows>>

-----------------------------------------------------------------------------
(***************************************************************************)
(* The worker of the write queue.                                          *)
(***************************************************************************)
WorkerTakes ==
    /\ wq # <<>> /\ Len(buf) < FlushMaxOps
    /\ buf' = Append(buf, Head(wq)) /\ wq' = Tail(wq)
    /\ UNCHANGED <<feedVars, holds, applied, saving, coins, created, tasks, rows, gone>>

Batch == {o \in Range(buf) : o.kind = "trade"}
Foreign == {o \in Batch : chain[o.tx].mint \notin coins}

\* Variant: the first insert that fails ends the batch.
FlushBatchAborts ==
    /\ buf # <<>> /\ buf' = <<>>
    /\ \E failed \in SUBSET (Batch \ Foreign) :
          /\ rows' = IF failed \cup Foreign = {} THEN rows \cup Batch ELSE rows
          /\ gone' = gone \cup Lost(Foreign, "coin") \cup Lost(failed, "write")
    /\ UNCHANGED <<feedVars, holds, applied, saving, coins, created, tasks, wq>>

\* flush_batch: the tape samples in one insert, best effort, then the trades one by one.
\* A trade whose coin has no row violates the foreign key; any insert may fail.
FlushBatch ==
    /\ buf # <<>> /\ buf' = <<>>
    /\ \E failed \in SUBSET (Batch \ Foreign) :
          /\ rows' = rows \cup (Batch \ (Foreign \cup failed))
          /\ gone' = gone \cup Lost(Foreign, "coin") \cup Lost(failed, "write")
    /\ UNCHANGED <<feedVars, holds, applied, saving, coins, created, tasks, wq>>

-----------------------------------------------------------------------------
LedgerStep ==
    \/ OnCreate \/ OnTrade
    \/ \E m \in Mints : SaveToken(m)
    \/ \E k \in tasks : Persist(k)
    \/ WorkerTakes \/ FlushBatch

Next == (Provider /\ UNCHANGED ledgerVars) \/ (FeedStep /\ UNCHANGED ledgerVars) \/ LedgerStep

Spec == Init /\ [][Next]_vars

\* The consumer, the spawned tasks and the worker run.
FairSpec == Spec /\ FeedFairness /\ WF_ledgerVars(LedgerStep)

-----------------------------------------------------------------------------
(***************************************************************************)
(* Properties.                                                             *)
(***************************************************************************)
\* An op of the write queue: the tape sample or the row of the n-th application of a trade.
OpType == [kind : {"tape", "trade"}, tx : DOMAIN chain, n : Nat \ {0}]

\* Type invariant of the feed and the ledger: the memory of signatures and the queue stay
\* within their capacities, and names of transactions exist.
TypeOK ==
    /\ chain \in Seq([kind : {"create", "buy", "sell"}, mint : Mints, trader : Traders])
    /\ Len(chain) <= MaxTx
    /\ link \in {"connecting", "up", "silent"} /\ idle \in 0..IdleLimit
    /\ stream \in Seq(DOMAIN chain) /\ pumprx \in Seq(DOMAIN chain)
    /\ seen \in Seq(DOMAIN chain \cup JunkSigs) /\ Len(seen) <= DedupCap
    /\ lost \subseteq DOMAIN chain /\ evicted \subseteq DOMAIN chain
    /\ redelivered \in 0..MaxRedeliver
    /\ holds \in [Mints -> {NoBucket} \cup [Traders -> Int]]
    /\ applied \in [1..MaxTx -> Nat]
    /\ created \cup saving \cup coins \subseteq Mints
    /\ tasks \subseteq OpType
    /\ wq \in Seq(OpType) /\ Len(wq) <= ChannelCap
    /\ buf \in Seq(OpType) /\ Len(buf) <= FlushMaxOps
    /\ rows \subseteq OpType /\ gone \subseteq [op : OpType, why : {"coin", "write"}]

\* A transaction is applied twice only after SelfDedup has forgotten its signature: a
\* redelivery within the memory, also across a reconnect, changes nothing.
AppliedOnce == \A i \in 1..MaxTx : applied[i] > 1 => i \in evicted

Disturbed(m) == \E i \in DOMAIN chain : chain[i].mint = m /\ (i \in lost \/ applied[i] > 1)
OnItsWay(m) == \E i \in Range(stream) \cup Range(pumprx) : chain[i].mint = m

\* The swarm of a mint none of whose transactions was missed or applied twice holds what the
\* chain holds once the feed has caught up, and on the way there no trader ever goes
\* below zero (where the code's u64 would wrap).
HoldingsExact ==
    \A m \in Mints : holds[m] # NoBucket /\ ~Disturbed(m) =>
        \A t \in Traders :
            /\ holds[m][t] >= 0
            /\ ~OnItsWay(m) => holds[m][t] = ChainHolds(chain, m, t, Len(chain))

\* The waiter does its work: a trade hits the missing row of its coin only after the save
\* of the coin has been tried and announced, never because the trade was faster.
CoinBeforeTrade == \A g \in gone : g.why = "coin" => chain[g.op.tx].mint \in created

\* Where the trade op o is: the places of its way from the task to the database.
Places(o) ==
    {p \in {"task", "queue", "batch", "row", "gone"} :
        CASE p = "task"  -> \E k \in tasks : k.tx = o.tx /\ k.n = o.n
          [] p = "queue" -> o \in Range(wq)
          [] p = "batch" -> o \in Range(buf)
          [] p = "row"   -> o \in rows
          [] p = "gone"  -> \E g \in gone : g.op = o}

\* Every applied trade is accounted for, each application in exactly one place: in a task,
\* in the queue, in the batch, in the database, or lost for a reason of its own (a full
\* queue or its own insert, never that of another trade of its batch).
AccountedFor ==
    \A i \in DOMAIN chain : chain[i].kind # "create" => \A n \in 1..applied[i] :
        Cardinality(Places([kind |-> "trade", tx |-> i, n |-> n])) = 1

WaitsForCoin == \E k \in tasks : chain[k.tx].mint \notin Unsupported

\* The trades of supported coins do not wait forever, whether or not their coins could be
\* saved.
TasksEnd == WaitsForCoin ~> ~WaitsForCoin
=============================================================================
