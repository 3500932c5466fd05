-------------------------- MODULE TradeLedgerProofs --------------------------
(***************************************************************************)
(* Proofs about the feed and the ledger behind it, for any number of       *)
(* mints, traders and transactions, any capacities, and every schedule of  *)
(* redeliveries, reconnects, failed saves and failed inserts.              *)
(***************************************************************************)
EXTENDS TradeLedger, FiniteSetTheorems, SequenceTheorems, WellFoundedInduction, TLAPS

-----------------------------------------------------------------------------
(***************************************************************************)
(* Queues.                                                                 *)
(***************************************************************************)

\* x is at most once in s.
Unique(s, x) == \A a, b \in DOMAIN s : s[a] = x /\ s[b] = x => a = b

\* What an Append does.
LEMMA QueuePut ==
    ASSUME NEW S, NEW s \in Seq(S), NEW e \in S
    PROVE  /\ Append(s, e) \in Seq(S) /\ Len(Append(s, e)) = Len(s) + 1
           /\ Range(Append(s, e)) = Range(s) \cup {e}
           /\ \A x : Unique(s, x) /\ (x = e => x \notin Range(s)) => Unique(Append(s, e), x)
<1> DEFINE q == Append(s, e)
           n == Len(s)
<1>1. /\ q \in Seq(S) /\ n \in Nat /\ Len(q) = n + 1 /\ DOMAIN q = 1..(n + 1) /\ DOMAIN s = 1..n
      /\ \A i \in 1..n : q[i] = s[i]
      /\ q[n + 1] = e
  OBVIOUS
<1> HIDE DEF q, n
<1>2. Range(q) = Range(s) \cup {e}
  <2>1. \A i \in 1..(n + 1) : i \in 1..n \/ i = n + 1
    BY <1>1
  <2>2. \A i \in 1..n : i \in 1..(n + 1)
    BY <1>1
  <2>3. n + 1 \in 1..(n + 1)
    BY <1>1
  <2> QED BY <1>1, <2>1, <2>2, <2>3 DEF Range
<1>3. ASSUME NEW x, Unique(s, x), x = e => x \notin Range(s)
      PROVE  Unique(q, x)
  BY <1>1, <1>3 DEF Unique, Range
<1> QED BY <1>1, <1>2, <1>3 DEF q, n

\* What a Tail does.
LEMMA QueueTake ==
    ASSUME NEW S, NEW s \in Seq(S), s # <<>>
    PROVE  /\ Head(s) \in S /\ Head(s) \in Range(s)
           /\ Tail(s) \in Seq(S) /\ Len(Tail(s)) = Len(s) - 1
           /\ Range(s) = Range(Tail(s)) \cup {Head(s)}
           /\ \A x : Unique(s, x) => /\ Unique(Tail(s), x)
                                     /\ x = Head(s) => x \notin Range(Tail(s))
<1> DEFINE q == Tail(s)
           n == Len(s)
<1>1. /\ q \in Seq(S) /\ n \in Nat \ {0} /\ Len(q) = n - 1
      /\ DOMAIN q = 1..(n - 1) /\ DOMAIN s = 1..n
      /\ \A i \in 1..(n - 1) : q[i] = s[i + 1]
      /\ Head(s) = s[1] /\ s[1] \in S
  OBVIOUS
<1> HIDE DEF q, n
<1>2. Range(s) = Range(q) \cup {Head(s)} /\ Head(s) \in Range(s)
  <2>1. \A i \in 1..n : i = 1 \/ (i - 1 \in 1..(n - 1) /\ (i - 1) + 1 = i)
    BY <1>1
  <2>2. \A i \in 1..(n - 1) : i + 1 \in 1..n
    BY <1>1
  <2>3. 1 \in 1..n
    BY <1>1
  <2>4. \A i \in 1..n : i = 1 \/ s[i] = q[i - 1]
    BY <1>1, <2>1
  <2>5. \A i \in 1..(n - 1) : \E j \in 1..n : q[i] = s[j]
    BY <1>1, <2>2
  <2>6. \A i \in 1..n : s[i] = s[1] \/ \E j \in 1..(n - 1) : s[i] = q[j]
    BY <2>1, <2>4
  <2>7. Range(s) = {s[i] : i \in 1..n} /\ Range(q) = {q[i] : i \in 1..(n - 1)}
    BY <1>1 DEF Range
  <2>8. Range(s) \subseteq Range(q) \cup {s[1]}
    BY <2>6, <2>7
  <2>9. Range(q) \subseteq Range(s) /\ s[1] \in Range(s)
    BY <2>3, <2>5, <2>7
  <2> QED BY <1>1, <2>8, <2>9
<1>3. ASSUME NEW x, Unique(s, x)
      PROVE  Unique(q, x) /\ (x = Head(s) => x \notin Range(q))
  <2>1. \A i \in 1..(n - 1) : i + 1 \in 1..n /\ i + 1 # 1
    BY <1>1
  <2>2. 1 \in 1..n
    BY <1>1
  <2>3. Unique(q, x)
    <3> SUFFICES ASSUME NEW a \in 1..(n - 1), NEW b \in 1..(n - 1), q[a] = x, q[b] = x
                 PROVE  a = b
      BY <1>1 DEF Unique
    <3>1. s[a + 1] = x /\ s[b + 1] = x
      BY <1>1
    <3>2. a + 1 = b + 1
      BY <1>1, <1>3, <2>1, <3>1 DEF Unique
    <3> QED BY <3>2
  <2> QED BY <1>1, <1>3, <2>1, <2>2, <2>3 DEF Unique, Range
<1> QED BY <1>1, <1>2, <1>3 DEF q, n

LEMMA QueueEmpty ==
    ASSUME NEW S
    PROVE  <<>> \in Seq(S) /\ Len(<<>>) = 0 /\ Range(<<>>) = {} /\ \A x : Unique(<<>>, x)
BY DEF Range, Unique

-----------------------------------------------------------------------------
(***************************************************************************)
(* Types.                                                                  *)
(***************************************************************************)
TxType == [kind : {"create", "buy", "sell"}, mint : Mints, trader : Traders]

\* TypeOK in two parts: the feed's variables and the ledger's.
FeedOK ==
    /\ chain \in Seq(TxType) /\ Len(chain) <= MaxTx
    /\ link \in {"connecting", "up", "silent"} /\ idle \in 0..IdleLimit
    /\ stream \in Seq(DOMAIN chain) /\ pumprx \in Seq(DOMAIN chain)
    /\ seen \in Seq(DOMAIN chain \cup JunkSigs) /\ Len(seen) <= DedupCap
    /\ lost \subseteq DOMAIN chain /\ evicted \subseteq DOMAIN chain
    /\ redelivered \in 0..MaxRedeliver

LedgerOK ==
    /\ holds \in [Mints -> {NoBucket} \cup [Traders -> Int]]
    /\ applied \in [1..MaxTx -> Nat]
    /\ created \cup saving \cup coins \subseteq Mints
    /\ tasks \subseteq OpType
    /\ wq \in Seq(OpType) /\ Len(wq) <= ChannelCap
    /\ buf \in Seq(OpType) /\ Len(buf) <= FlushMaxOps
    /\ rows \subseteq OpType /\ gone \subseteq [op : OpType, why : {"coin", "write"}]

LEMMA TypeParts == TypeOK <=> FeedOK /\ LedgerOK
BY DEF TypeOK, FeedOK, LedgerOK, TxType

LEMMA TypeInit == Init => TypeOK
<1> SUFFICES ASSUME Init PROVE FeedOK /\ LedgerOK
  BY TypeParts
<1>1. FeedOK
  <2>1. chain = <<>> /\ stream = <<>> /\ pumprx = <<>> /\ seen = <<>>
    BY DEF Init, FeedInit
  <2>2. chain \in Seq(TxType) /\ stream \in Seq(DOMAIN chain) /\ pumprx \in Seq(DOMAIN chain)
        /\ seen \in Seq(DOMAIN chain \cup JunkSigs) /\ Len(chain) = 0 /\ Len(seen) = 0
    BY <2>1, QueueEmpty
  <2> QED BY <2>2, FeedAssumption DEF Init, FeedInit, FeedOK
<1>2. LedgerOK
  <2>1. wq = <<>> /\ buf = <<>>
    BY DEF Init
  <2>2. wq \in Seq(OpType) /\ buf \in Seq(OpType) /\ Len(wq) = 0 /\ Len(buf) = 0
    BY <2>1, QueueEmpty
  <2> QED BY <2>2, LedgerAssumption DEF Init, LedgerOK
<1> QED BY <1>1, <1>2

\* The chain only grows, and a transaction keeps its place.
LEMMA ChainGrows ==
    ASSUME FeedOK, Transact
    PROVE  /\ Len(chain) \in Nat /\ DOMAIN chain = 1..Len(chain)
           /\ chain' \in Seq(TxType) /\ Len(chain') = Len(chain) + 1 /\ Len(chain') <= MaxTx
           /\ DOMAIN chain' = 1..(Len(chain) + 1) /\ DOMAIN chain \subseteq DOMAIN chain'
           /\ Len(chain') \in DOMAIN chain' /\ Len(chain') \notin DOMAIN chain
           /\ \A i \in DOMAIN chain : chain'[i] = chain[i]
<1>1. PICK kind \in {"create", "buy", "sell"}, m \in Mints, t \in Traders :
         chain' = Append(chain, [kind |-> kind, mint |-> m, trader |-> t])
  BY DEF Transact
<1> DEFINE tx == [kind |-> kind, mint |-> m, trader |-> t]
<1>2. tx \in TxType /\ chain' = Append(chain, tx)
  BY <1>1 DEF TxType
<1> HIDE DEF tx
<1>3. chain \in Seq(TxType) /\ Len(chain) \in Nat /\ Len(chain) < MaxTx /\ MaxTx \in Nat
  BY FeedAssumption DEF FeedOK, Transact
<1> QED BY <1>2, <1>3

\* An entry of the memory of signatures: the new one is in it, and only the oldest leaves.
LEMMA RememberType ==
    ASSUME FeedOK, NEW sig \in DOMAIN chain \cup JunkSigs, Remember(sig)
    PROVE  /\ seen' \in Seq(DOMAIN chain \cup JunkSigs) /\ Len(seen') <= DedupCap
           /\ evicted' \subseteq DOMAIN chain /\ evicted \subseteq evicted'
           /\ sig \in Range(seen') /\ Range(seen') \subseteq Range(seen) \cup {sig}
           /\ \A i \in DOMAIN chain : i \in Range(seen) => i \in Range(seen') \/ i \in evicted'
<1> DEFINE S == DOMAIN chain \cup JunkSigs
<1>1. seen \in Seq(S) /\ Len(seen) \in Nat /\ Len(seen) <= DedupCap /\ DedupCap \in Nat \ {0}
  BY FeedAssumption DEF FeedOK
<1>2. DOMAIN chain \cap JunkSigs = {}
  <2>1. DOMAIN chain = 1..Len(chain) /\ Len(chain) \in Nat /\ Len(chain) <= MaxTx
    BY DEF FeedOK
  <2> QED BY <2>1, FeedAssumption
<1>3. CASE Len(seen) >= DedupCap
  <2>1. seen # <<>>
    BY <1>1, <1>3
  <2>2. /\ Head(seen) \in S /\ Tail(seen) \in Seq(S) /\ Len(Tail(seen)) = Len(seen) - 1
        /\ Range(seen) = Range(Tail(seen)) \cup {Head(seen)}
    BY <1>1, <2>1, QueueTake
  <2>3. seen' = Append(Tail(seen), sig) /\ evicted' = evicted \cup ({Head(seen)} \ JunkSigs)
    BY <1>3 DEF Remember
  <2>4. /\ seen' \in Seq(S) /\ Len(seen') = Len(Tail(seen)) + 1
        /\ Range(seen') = Range(Tail(seen)) \cup {sig}
    <3> DEFINE q == Tail(seen)
    <3>1. q \in Seq(S) /\ sig \in S /\ seen' = Append(q, sig)
      BY <2>2, <2>3
    <3> HIDE DEF q, S
    <3>2. /\ seen' \in Seq(S) /\ Len(seen') = Len(q) + 1 /\ Range(seen') = Range(q) \cup {sig}
      BY <3>1, QueuePut
    <3> QED BY <3>2 DEF q
  <2> QED BY <1>1, <1>2, <2>2, <2>3, <2>4 DEF FeedOK
<1>4. CASE ~(Len(seen) >= DedupCap)
  <2>1. seen' = Append(seen, sig) /\ evicted' = evicted
    BY <1>4 DEF Remember
  <2>2. seen' \in Seq(S) /\ Len(seen') = Len(seen) + 1 /\ Range(seen') = Range(seen) \cup {sig}
    BY <1>1, <2>1, QueuePut
  <2> QED BY <1>1, <1>4, <2>1, <2>2 DEF FeedOK
<1> QED BY <1>3, <1>4

LEMMA FeedTypeStep ==
    ASSUME FeedOK, LedgerOK, Provider \/ FeedStep, UNCHANGED ledgerVars
    PROVE  FeedOK' /\ LedgerOK'
<1> USE DEF ledgerVars
<1>0. ASSUME chain' = chain PROVE LedgerOK'
  BY <1>0 DEF LedgerOK, OpType
<1>1. CASE Transact
  <2>1. /\ chain' \in Seq(TxType) /\ Len(chain') <= MaxTx /\ DOMAIN chain \subseteq DOMAIN chain'
        /\ Len(chain') \in DOMAIN chain'
    BY <1>1, ChainGrows
  <2>2. OpType \subseteq OpType'
    BY <2>1 DEF OpType
  <2>3. LedgerOK'
    <3>1. wq' \in Seq(OpType') /\ buf' \in Seq(OpType')
      BY <2>2, SeqMonotonic DEF LedgerOK
    <3> QED BY <2>2, <3>1 DEF LedgerOK
  <2>4. stream \in Seq(DOMAIN chain') /\ pumprx \in Seq(DOMAIN chain') /\ seen \in Seq(DOMAIN chain' \cup JunkSigs)
    <3>1. DOMAIN chain \cup JunkSigs \subseteq DOMAIN chain' \cup JunkSigs
      BY <2>1
    <3> QED BY <2>1, <3>1, SeqMonotonic DEF FeedOK
  <2>5. stream' \in Seq(DOMAIN chain') /\ lost' \subseteq DOMAIN chain'
    <3>1. Append(stream, Len(chain')) \in Seq(DOMAIN chain')
      BY <2>1, <2>4, QueuePut
    <3> QED BY <1>1, <2>1, <2>4, <3>1 DEF Transact, FeedOK
  <2>6. FeedOK'
    BY <1>1, <2>1, <2>4, <2>5 DEF FeedOK, Transact
  <2> QED BY <2>3, <2>6
<1>2. CASE Redeliver
  <2>1. stream' \in Seq(DOMAIN chain)
    <3>1. PICK i \in DOMAIN chain : stream' = Append(stream, i)
      BY <1>2 DEF Redeliver
    <3> QED BY <3>1, QueuePut DEF FeedOK
  <2>2. redelivered' \in 0..MaxRedeliver
    BY <1>2, FeedAssumption DEF Redeliver, FeedOK
  <2> QED BY <1>0, <1>2, <2>1, <2>2 DEF FeedOK, Redeliver
<1>3. CASE GoSilent
  BY <1>0, <1>3 DEF FeedOK, GoSilent
<1>4. CASE StreamEnds \/ Watchdog
  <2>1. stream' \in Seq(DOMAIN chain) /\ lost' \subseteq DOMAIN chain /\ chain' = chain
    <3>1. Reconnect
      BY <1>4 DEF StreamEnds, Watchdog
    <3>2. Range(stream) \subseteq DOMAIN chain
      BY DEF FeedOK, Range
    <3>3. stream' = <<>>
      BY <3>1 DEF Reconnect
    <3> QED BY <3>1, <3>2, <3>3, QueueEmpty DEF Reconnect, FeedOK
  <2> QED BY <1>0, <1>4, <2>1 DEF FeedOK, StreamEnds, Watchdog, Reconnect
<1>5. CASE OnJunk
  <2>1. CASE UNCHANGED <<seen, evicted>>
    BY <1>0, <1>5, <2>1 DEF FeedOK, OnJunk
  <2>2. ASSUME NEW j \in JunkSigs, Remember(j) PROVE FeedOK' /\ LedgerOK'
    <3>1. seen' \in Seq(DOMAIN chain \cup JunkSigs) /\ Len(seen') <= DedupCap /\ evicted' \subseteq DOMAIN chain
      BY <2>2, RememberType
    <3> QED BY <1>0, <1>5, <3>1 DEF FeedOK, OnJunk
  <2> QED BY <1>5, <2>1, <2>2 DEF OnJunk
<1>6. CASE Subscribe
  <2>1. idle' \in 0..IdleLimit
    BY <1>6, FeedAssumption DEF Subscribe
  <2> QED BY <1>0, <1>6, <2>1 DEF FeedOK, Subscribe
<1>7. CASE IdleTime
  <2>1. idle' \in 0..IdleLimit
    BY <1>7, FeedAssumption DEF IdleTime, FeedOK
  <2> QED BY <1>0, <1>7, <2>1 DEF FeedOK, IdleTime
<1>8. CASE OnMessage
  <2>1. /\ Head(stream) \in DOMAIN chain /\ Tail(stream) \in Seq(DOMAIN chain)
    BY <1>8, QueueTake DEF OnMessage, FeedOK
  <2>2. stream' = Tail(stream)
    BY <1>8 DEF OnMessage
  <2>3. CASE Seen(Head(stream))
    BY <1>0, <1>8, <2>1, <2>2, <2>3 DEF FeedOK, OnMessage
  <2>4. CASE ~Seen(Head(stream))
    <3>1. Remember(Head(stream)) /\ idle' = 0 /\ pumprx' = Append(pumprx, Head(stream))
      BY <1>8, <2>4 DEF OnMessage
    <3>2. seen' \in Seq(DOMAIN chain \cup JunkSigs) /\ Len(seen') <= DedupCap /\ evicted' \subseteq DOMAIN chain
      BY <2>1, <3>1, RememberType
    <3>3. pumprx' \in Seq(DOMAIN chain)
      BY <2>1, <3>1, QueuePut DEF FeedOK
    <3>4. idle' \in 0..IdleLimit
      BY <3>1, FeedAssumption
    <3> QED BY <1>0, <1>8, <2>1, <2>2, <3>2, <3>3, <3>4 DEF FeedOK, OnMessage
  <2> QED BY <2>3, <2>4
<1> QED BY <1>1, <1>2, <1>3, <1>4, <1>5, <1>6, <1>7, <1>8 DEF Provider, FeedStep

\* The place of a consumed event.
LEMMA ConsumeType ==
    ASSUME FeedOK, pumprx # <<>>, Consumed
    PROVE  /\ pumprx' \in Seq(DOMAIN chain) /\ Head(pumprx) \in DOMAIN chain
           /\ Head(pumprx) \in 1..MaxTx /\ chain[Head(pumprx)] \in TxType
<1>1. pumprx \in Seq(DOMAIN chain)
  BY DEF FeedOK
<1>2. Head(pumprx) \in DOMAIN chain /\ Tail(pumprx) \in Seq(DOMAIN chain)
  BY <1>1, QueueTake
<1>3. DOMAIN chain = 1..Len(chain) /\ Len(chain) \in Nat /\ Len(chain) <= MaxTx /\ MaxTx \in Nat
  BY FeedAssumption DEF FeedOK
<1>4. \A i \in DOMAIN chain : chain[i] \in TxType /\ i \in 1..MaxTx
  BY <1>3 DEF FeedOK
<1> QED BY <1>2, <1>4 DEF Consumed

LEMMA LedgerTypeStep ==
    ASSUME FeedOK, LedgerOK, LedgerStep
    PROVE  FeedOK' /\ LedgerOK'
<1>1. CASE OnCreate
  <2> DEFINE i == Head(pumprx)
             m == chain[i].mint
  <2>1. /\ pumprx' \in Seq(DOMAIN chain) /\ i \in 1..MaxTx /\ chain[i] \in TxType
    BY <1>1, ConsumeType DEF OnCreate
  <2>2. m \in Mints
    BY <2>1 DEF TxType
  <2>3. FeedOK'
    BY <1>1, <2>1 DEF OnCreate, FeedAside, FeedOK
  <2>4. /\ holds' \in {holds, [holds EXCEPT ![m] = Empty]}
        /\ applied' \in {applied, [applied EXCEPT ![i] = @ + 1]}
        /\ saving' \in {saving, saving \cup {m}}
    BY <1>1 DEF OnCreate
  <2>5. UNCHANGED <<chain, coins, created, tasks, wq, buf, rows, gone>>
    BY <1>1 DEF OnCreate, FeedAside
  <2> HIDE DEF i, m
  <2>6. Empty \in [Traders -> Int]
    BY DEF Empty
  <2>7. holds' \in [Mints -> {NoBucket} \cup [Traders -> Int]] /\ applied' \in [1..MaxTx -> Nat]
    BY <2>1, <2>2, <2>4, <2>6 DEF LedgerOK
  <2> QED BY <2>2, <2>3, <2>4, <2>5, <2>7 DEF LedgerOK, OpType
<1>2. CASE OnTrade
  <2> DEFINE i == Head(pumprx)
             m == chain[i].mint
             k == [kind |-> "tape", tx |-> i, n |-> applied[i] + 1]
  <2>1. /\ pumprx' \in Seq(DOMAIN chain) /\ i \in 1..MaxTx /\ i \in DOMAIN chain
        /\ chain[i] \in TxType
    BY <1>2, ConsumeType DEF OnTrade
  <2>2. m \in Mints /\ chain[i].trader \in Traders
    BY <2>1 DEF TxType
  <2>3. FeedOK'
    BY <1>2, <2>1 DEF OnTrade, FeedAside, FeedOK
  <2>4. \/ UNCHANGED <<holds, applied, tasks>>
        \/ /\ holds[m] # NoBucket
           /\ holds' = [holds EXCEPT ![m] = UpdateSwarm(@, chain[i])]
           /\ applied' = [applied EXCEPT ![i] = @ + 1]
           /\ tasks' = tasks \cup {k}
    BY <1>2 DEF OnTrade
  <2>5. UNCHANGED <<chain, saving, coins, created, wq, buf, rows, gone>>
    BY <1>2 DEF OnTrade, FeedAside
  <2>6. k \in OpType
    BY <2>1 DEF OpType, LedgerOK
  <2> HIDE DEF i, m, k
  <2>7. holds[m] # NoBucket => UpdateSwarm(holds[m], chain[i]) \in [Traders -> Int]
    BY <2>2 DEF LedgerOK, UpdateSwarm
  <2>8. holds' \in [Mints -> {NoBucket} \cup [Traders -> Int]] /\ applied' \in [1..MaxTx -> Nat]
    <3>1. CASE UNCHANGED <<holds, applied, tasks>>
      BY <3>1 DEF LedgerOK
    <3>2. CASE ~UNCHANGED <<holds, applied, tasks>>
      <4> DEFINE h == UpdateSwarm(holds[m], chain[i])
      <4>1. /\ h \in [Traders -> Int] /\ holds' = [holds EXCEPT ![m] = h]
            /\ applied' = [applied EXCEPT ![i] = @ + 1]
        BY <2>4, <2>7, <3>2
      <4> HIDE DEF h
      <4>2. holds' \in [Mints -> {NoBucket} \cup [Traders -> Int]]
        BY <2>2, <4>1 DEF LedgerOK
      <4>3. applied \in [1..MaxTx -> Nat]
        BY DEF LedgerOK
      <4>4. applied' \in [1..MaxTx -> Nat]
        BY <2>1, <4>1, <4>3
      <4> QED BY <4>2, <4>4
    <3> QED BY <3>1, <3>2
  <2> QED BY <2>3, <2>4, <2>5, <2>6, <2>8 DEF LedgerOK, OpType
<1>3. ASSUME NEW m \in Mints, SaveToken(m) PROVE FeedOK' /\ LedgerOK'
  BY <1>3 DEF SaveToken, FeedOK, LedgerOK, OpType, feedVars
<1>4. ASSUME NEW k \in tasks, Persist(k) PROVE FeedOK' /\ LedgerOK'
  <2>1. k \in OpType
    BY DEF LedgerOK
  <2>2. UNCHANGED <<feedVars, holds, applied, saving, coins, created, buf, rows>>
    BY <1>4 DEF Persist
  <2>3. tasks' \subseteq OpType
    <3>1. [k EXCEPT !.kind = "trade"] \in OpType
      BY <2>1 DEF OpType
    <3> QED BY <1>4, <3>1 DEF Persist, Enqueued, LedgerOK
  <2>4. wq' \in Seq(OpType) /\ Len(wq') <= ChannelCap /\ gone' \subseteq [op : OpType, why : {"coin", "write"}]
    <3>1. CASE Len(wq) < ChannelCap
      <4>1. wq' = Append(wq, k) /\ gone' = gone
        BY <1>4, <3>1 DEF Persist, TrySend
      <4>2. wq' \in Seq(OpType) /\ Len(wq') = Len(wq) + 1 /\ Len(wq) \in Nat
        BY <2>1, <4>1, QueuePut DEF LedgerOK
      <4> QED BY <3>1, <4>1, <4>2, LedgerAssumption DEF LedgerOK
    <3>2. CASE ~(Len(wq) < ChannelCap)
      <4>1. wq' = wq /\ gone' = gone \cup Lost({k}, "write")
        BY <1>4, <3>2 DEF Persist, TrySend
      <4>2. Lost({k}, "write") \subseteq [op : OpType, why : {"coin", "write"}]
        BY <2>1 DEF Lost
      <4> QED BY <4>1, <4>2 DEF LedgerOK
    <3> QED BY <3>1, <3>2
  <2> QED BY <2>2, <2>3, <2>4 DEF FeedOK, LedgerOK, OpType, feedVars
<1>5. CASE WorkerTakes
  <2>1. /\ wq # <<>> /\ Len(buf) < FlushMaxOps /\ buf' = Append(buf, Head(wq)) /\ wq' = Tail(wq)
        /\ UNCHANGED <<feedVars, holds, applied, saving, coins, created, tasks, rows, gone>>
    BY <1>5 DEF WorkerTakes
  <2>2. Head(wq) \in OpType /\ wq' \in Seq(OpType) /\ Len(wq') = Len(wq) - 1 /\ Len(wq) \in Nat
    BY <2>1, QueueTake DEF LedgerOK
  <2>3. buf' \in Seq(OpType) /\ Len(buf') = Len(buf) + 1 /\ Len(buf) \in Nat
    BY <2>1, <2>2, QueuePut DEF LedgerOK
  <2>4. Len(buf') <= FlushMaxOps /\ Len(wq') <= ChannelCap
    BY <2>1, <2>2, <2>3, LedgerAssumption DEF LedgerOK
  <2> QED BY <2>1, <2>2, <2>3, <2>4 DEF FeedOK, LedgerOK, OpType, feedVars
<1>6. CASE FlushBatch
  <2>1. Batch \subseteq OpType /\ Foreign \subseteq Batch
    BY DEF Batch, Foreign, LedgerOK, Range
  <2>2. PICK failed \in SUBSET (Batch \ Foreign) :
           /\ rows' = rows \cup (Batch \ (Foreign \cup failed))
           /\ gone' = gone \cup Lost(Foreign, "coin") \cup Lost(failed, "write")
    BY <1>6 DEF FlushBatch
  <2>3. rows' \subseteq OpType /\ gone' \subseteq [op : OpType, why : {"coin", "write"}]
    <3>1. \A ops \in SUBSET OpType : \A why \in {"coin", "write"} :
             Lost(ops, why) \subseteq [op : OpType, why : {"coin", "write"}]
      BY DEF Lost
    <3>2. Foreign \in SUBSET OpType /\ failed \in SUBSET OpType
      BY <2>1
    <3>3. /\ Lost(Foreign, "coin") \subseteq [op : OpType, why : {"coin", "write"}]
          /\ Lost(failed, "write") \subseteq [op : OpType, why : {"coin", "write"}]
      BY <3>1, <3>2
    <3> QED BY <2>1, <2>2, <3>3 DEF LedgerOK
  <2>4. buf' = <<>> /\ UNCHANGED <<feedVars, holds, applied, saving, coins, created, tasks, wq>>
    BY <1>6 DEF FlushBatch
  <2>5. buf' \in Seq(OpType) /\ Len(buf') <= FlushMaxOps
    BY <2>4, QueueEmpty, LedgerAssumption
  <2> QED BY <2>3, <2>4, <2>5 DEF FeedOK, LedgerOK, OpType, feedVars
<1> QED BY <1>1, <1>2, <1>3, <1>4, <1>5, <1>6 DEF LedgerStep

\* Type correctness: the memory of signatures, the channel and the batch stay within
\* their capacities, and no event, task or row ever names a transaction that is not there.
THEOREM TypeCorrect == Spec => []TypeOK
<1>1. TypeOK /\ [Next]_vars => TypeOK'
  <2> SUFFICES ASSUME FeedOK, LedgerOK, [Next]_vars PROVE FeedOK' /\ LedgerOK'
    <3>1. TypeOK' <=> FeedOK' /\ LedgerOK'
      BY DEF TypeOK, FeedOK, LedgerOK, TxType
    <3> QED BY <3>1, TypeParts
  <2>1. CASE (Provider \/ FeedStep) /\ UNCHANGED ledgerVars
    BY <2>1, FeedTypeStep
  <2>2. CASE LedgerStep
    BY <2>2, LedgerTypeStep
  <2>3. CASE UNCHANGED vars
    BY <2>3 DEF vars, feedVars, ledgerVars, FeedOK, LedgerOK, OpType
  <2> QED BY <2>1, <2>2, <2>3 DEF Next
<1> QED BY <1>1, TypeInit, PTL DEF Spec

-----------------------------------------------------------------------------
(***************************************************************************)
(* A transaction is applied once.                                          *)
(***************************************************************************)

\* As long as SelfDedup has not forgotten transaction i, it has been forwarded at most
\* once, and what was forwarded is remembered.
OnceOf(i) ==
    /\ applied[i] <= 1
    /\ applied[i] = 1 => i \notin Range(pumprx)
    /\ Unique(pumprx, i)
    /\ i \in Range(pumprx) \/ applied[i] = 1 => i \in Range(seen)

DedupInv == \A i \in 1..MaxTx : i \notin evicted => OnceOf(i)

\* A step that leaves the queue to the consumer and the counters alone, and forgets
\* nothing but what it marks as evicted.
LEMMA DedupFrame ==
    ASSUME TypeOK, DedupInv, UNCHANGED <<pumprx, applied>>, evicted \subseteq evicted',
           \A i \in DOMAIN chain : i \in Range(seen) => i \in Range(seen') \/ i \in evicted'
    PROVE  DedupInv'
<1> SUFFICES ASSUME NEW i \in 1..MaxTx, i \notin evicted' PROVE OnceOf(i)'
  BY DEF DedupInv
<1>1. OnceOf(i)
  BY DEF DedupInv
<1>2. Range(seen) \cap (1..MaxTx) \subseteq DOMAIN chain
  <2>1. seen \in Seq(DOMAIN chain \cup JunkSigs)
    BY DEF TypeOK
  <2>2. Range(seen) \subseteq DOMAIN chain \cup JunkSigs
    BY <2>1 DEF Range
  <2> QED BY <2>2, FeedAssumption
<1> QED BY <1>1, <1>2 DEF OnceOf, Unique, Range

\* The consumer takes an event, and applies it or not.
LEMMA DedupConsumed ==
    ASSUME TypeOK, DedupInv, pumprx # <<>>, Consumed, UNCHANGED <<seen, evicted>>,
           applied' \in {applied, [applied EXCEPT ![Head(pumprx)] = @ + 1]}
    PROVE  DedupInv'
<1> SUFFICES ASSUME NEW i \in 1..MaxTx, i \notin evicted PROVE OnceOf(i)'
  BY DEF DedupInv
<1>1. OnceOf(i) /\ applied \in [1..MaxTx -> Nat]
  BY DEF DedupInv, TypeOK
<1> DEFINE q == Head(pumprx)
<1>2. /\ q \in Range(pumprx) /\ Range(pumprx) = Range(pumprx') \cup {q}
      /\ Unique(pumprx', i) /\ (i = q => i \notin Range(pumprx'))
  BY <1>1, QueueTake DEF Consumed, OnceOf, TypeOK
<1>3. applied'[i] \in {applied[i], applied[i] + 1} /\ (i # q => applied'[i] = applied[i])
  BY <1>1
<1> HIDE DEF q
<1>4. CASE i = q
  BY <1>1, <1>2, <1>3, <1>4 DEF OnceOf
<1>5. CASE i # q
  BY <1>1, <1>2, <1>3, <1>5 DEF OnceOf
<1> QED BY <1>4, <1>5

\* The feed takes a message.
LEMMA DedupMessage ==
    ASSUME TypeOK, DedupInv, OnMessage, UNCHANGED applied
    PROVE  DedupInv'
<1>0. FeedOK
  BY TypeParts
<1>1. CASE Seen(Head(stream))
  <2>1. pumprx' = pumprx /\ seen' = seen /\ evicted' = evicted
    BY <1>1 DEF OnMessage
  <2> QED BY <2>1, DedupFrame
<1>2. CASE ~Seen(Head(stream))
  <2> DEFINE q == Head(stream)
  <2>1. Remember(q) /\ pumprx' = Append(pumprx, q)
    BY <1>2 DEF OnMessage
  <2>2. q \in DOMAIN chain
    BY QueueTake DEF OnMessage, TypeOK
  <2>3. q \notin Range(seen)
    <3>1. seen \in Seq(DOMAIN chain \cup JunkSigs)
      BY DEF TypeOK
    <3>2. DOMAIN seen = 1..Len(seen)
      BY <3>1
    <3> QED BY <1>2, <3>2 DEF Seen, Contains, Range
  <2> HIDE DEF q
  <2>4. /\ evicted \subseteq evicted' /\ q \in Range(seen')
        /\ \A i \in DOMAIN chain : i \in Range(seen) => i \in Range(seen') \/ i \in evicted'
    BY <1>0, <2>1, <2>2, RememberType
  <2>5. /\ Range(pumprx') = Range(pumprx) \cup {q}
        /\ \A x : Unique(pumprx, x) /\ (x = q => x \notin Range(pumprx)) => Unique(pumprx', x)
    BY <2>1, <2>2, QueuePut DEF TypeOK
  <2>6. \A i \in 1..MaxTx : i \in Range(seen) => i \in DOMAIN chain
    <3>1. seen \in Seq(DOMAIN chain \cup JunkSigs)
      BY DEF TypeOK
    <3>2. Range(seen) \subseteq DOMAIN chain \cup JunkSigs
      BY <3>1 DEF Range
    <3> QED BY <3>2, FeedAssumption
  <2> SUFFICES ASSUME NEW i \in 1..MaxTx, i \notin evicted' PROVE OnceOf(i)'
    BY DEF DedupInv
  <2>7. OnceOf(i) /\ applied[i] \in Nat
    BY <2>4 DEF DedupInv, TypeOK
  <2>8. CASE i = q
    <3>1. i \notin Range(pumprx) /\ applied[i] # 1
      BY <2>3, <2>7, <2>8 DEF OnceOf
    <3> QED BY <2>4, <2>5, <2>7, <2>8, <3>1 DEF OnceOf
  <2>9. CASE i # q
    BY <2>4, <2>5, <2>6, <2>7, <2>9 DEF OnceOf
  <2> QED BY <2>8, <2>9
<1> QED BY <1>1, <1>2

LEMMA DedupStep == TypeOK /\ DedupInv /\ [Next]_vars => DedupInv'
<1> SUFFICES ASSUME TypeOK, DedupInv, [Next]_vars PROVE DedupInv'
  OBVIOUS
<1>0. FeedOK
  BY TypeParts
<1> USE DEF feedVars, ledgerVars
<1>1. CASE OnMessage /\ UNCHANGED ledgerVars
  BY <1>1, DedupMessage
<1>2. CASE OnJunk /\ UNCHANGED ledgerVars
  <2>1. CASE UNCHANGED <<seen, evicted>>
    BY <1>2, <2>1, DedupFrame DEF OnJunk
  <2>2. ASSUME NEW j \in JunkSigs, Remember(j) PROVE DedupInv'
    <3>1. /\ evicted \subseteq evicted'
          /\ \A i \in DOMAIN chain : i \in Range(seen) => i \in Range(seen') \/ i \in evicted'
      BY <1>0, <2>2, RememberType
    <3> QED BY <1>2, <3>1, DedupFrame DEF OnJunk
  <2> QED BY <1>2, <2>1, <2>2 DEF OnJunk
<1>3. CASE /\ Transact \/ Redeliver \/ GoSilent \/ StreamEnds \/ Subscribe \/ Watchdog \/ IdleTime
           /\ UNCHANGED ledgerVars
  <2>1. UNCHANGED <<pumprx, seen, evicted, applied>>
    BY <1>3 DEF Transact, Redeliver, GoSilent, StreamEnds, Subscribe, Watchdog, IdleTime, Reconnect
  <2> QED BY <2>1, DedupFrame
<1>4. CASE OnCreate \/ OnTrade
  <2>1. pumprx # <<>> /\ Consumed /\ UNCHANGED <<seen, evicted>>
    BY <1>4 DEF OnCreate, OnTrade, FeedAside
  <2>2. applied' \in {applied, [applied EXCEPT ![Head(pumprx)] = @ + 1]}
    BY <1>4 DEF OnCreate, OnTrade
  <2> QED BY <2>1, <2>2, DedupConsumed
<1>5. CASE UNCHANGED <<pumprx, applied, seen, evicted>>
  BY <1>5, DedupFrame
<1> QED BY <1>1, <1>2, <1>3, <1>4, <1>5
        DEF Next, Provider, FeedStep, LedgerStep, SaveToken, Persist, WorkerTakes, FlushBatch, vars

\* Redeliveries are absorbed: a transaction is applied a second time only after SelfDedup
\* has forgotten its signature, whatever reconnects and junk lie between.
THEOREM EachAppliedOnce == Spec => []AppliedOnce
<1>1. Init => DedupInv
  <2> SUFFICES ASSUME Init, NEW i \in 1..MaxTx PROVE OnceOf(i)
    BY DEF DedupInv
  <2>1. pumprx = <<>> /\ applied[i] = 0
    BY DEF Init, FeedInit
  <2>2. Range(pumprx) = {} /\ Unique(pumprx, i)
    BY <2>1, QueueEmpty
  <2> QED BY <2>1, <2>2 DEF OnceOf
<1>2. TypeOK /\ DedupInv => AppliedOnce
  <2> SUFFICES ASSUME TypeOK, DedupInv, NEW i \in 1..MaxTx, applied[i] > 1, i \notin evicted
               PROVE  FALSE
    BY DEF AppliedOnce
  <2>1. applied[i] \in Nat /\ applied[i] <= 1
    BY DEF DedupInv, OnceOf, TypeOK
  <2> QED BY <2>1
<1> QED BY <1>1, <1>2, DedupStep, TypeCorrect, PTL DEF Spec

-----------------------------------------------------------------------------
(***************************************************************************)
(* A trade is written after its coin.                                      *)
(***************************************************************************)

\* Whatever is in the channel or in the batch has waited for its coin.
CoinInv ==
    /\ \A o \in Range(wq) \cup Range(buf) : chain[o.tx].mint \in created
    /\ CoinBeforeTrade

\* No step takes a transaction from the chain or changes it.
LEMMA ChainKept ==
    ASSUME TypeOK, [Next]_vars
    PROVE  \A i \in DOMAIN chain : i \in DOMAIN chain' /\ chain'[i] = chain[i]
<1>1. CASE Transact
  BY <1>1, ChainGrows, TypeParts
<1>2. CASE UNCHANGED chain
  BY <1>2
<1> QED BY <1>1, <1>2
        DEF Next, Provider, FeedStep, Redeliver, GoSilent, StreamEnds, Watchdog, Reconnect,
            OnJunk, Subscribe, IdleTime, OnMessage, LedgerStep, OnCreate, OnTrade, FeedAside,
            SaveToken, Persist, WorkerTakes, FlushBatch, vars, feedVars

\* The ops in a queue are ops.
LEMMA QueuedOps ==
    ASSUME TypeOK
    PROVE  /\ Range(wq) \subseteq OpType /\ Range(buf) \subseteq OpType
           /\ \A o \in OpType : o.tx \in DOMAIN chain
           /\ \A g \in gone : g.op \in OpType
<1>1. wq \in Seq(OpType) /\ buf \in Seq(OpType) /\ gone \subseteq [op : OpType, why : {"coin", "write"}]
  BY DEF TypeOK
<1>2. Range(wq) \subseteq OpType /\ Range(buf) \subseteq OpType
  BY <1>1 DEF Range
<1>3. \A o \in OpType : o.tx \in DOMAIN chain
  BY DEF OpType
<1> QED BY <1>1, <1>2, <1>3

LEMMA CoinStep == TypeOK /\ CoinInv /\ [Next]_vars => CoinInv'
<1> SUFFICES ASSUME TypeOK, CoinInv, [Next]_vars PROVE CoinInv'
  OBVIOUS
<1> DEFINE Ok(o) == chain[o.tx].mint \in created
<1>1. /\ \A o \in OpType : o.tx \in DOMAIN chain /\ chain'[o.tx] = chain[o.tx]
      /\ Range(wq) \subseteq OpType /\ Range(buf) \subseteq OpType
      /\ \A g \in gone : g.op \in OpType
  BY ChainKept, QueuedOps
<1>2. created \subseteq created'
  BY DEF Next, LedgerStep, OnCreate, OnTrade, SaveToken, Persist, WorkerTakes, FlushBatch,
         vars, ledgerVars
<1>3. \A o \in OpType : Ok(o) => chain'[o.tx].mint \in created'
  BY <1>1, <1>2
\* It is enough that what is new has waited.
<1> DEFINE Waited == /\ \A o \in Range(wq') \cup Range(buf') : o \in OpType /\ Ok(o)
                     /\ \A g \in gone' : g.why = "coin" => g.op \in OpType /\ Ok(g.op)
<1>4. SUFFICES Waited
  BY <1>3 DEF CoinInv, CoinBeforeTrade
<1>5. /\ \A o \in Range(wq) \cup Range(buf) : o \in OpType /\ Ok(o)
      /\ \A g \in gone : g.why = "coin" => g.op \in OpType /\ Ok(g.op)
  BY <1>1 DEF CoinInv, CoinBeforeTrade
<1>6. CASE UNCHANGED <<wq, buf, gone>>
  BY <1>5, <1>6
<1>7. ASSUME NEW k \in tasks, Persist(k) PROVE Waited
  <2>1. k \in OpType /\ Ok(k) /\ buf' = buf
    BY <1>7 DEF Persist, Awaited, TypeOK
  <2>2. \/ wq' = Append(wq, k) /\ gone' = gone
        \/ wq' = wq /\ gone' = gone \cup Lost({k}, "write")
    BY <1>7 DEF Persist, TrySend
  <2>3. wq' = Append(wq, k) => Range(wq') = Range(wq) \cup {k}
    BY <2>1, QueuePut DEF TypeOK
  <2>4. \A g \in Lost({k}, "write") : g.why # "coin"
    BY DEF Lost
  <2> QED BY <1>5, <2>1, <2>2, <2>3, <2>4
<1>8. CASE WorkerTakes
  <2>1. wq # <<>> /\ buf' = Append(buf, Head(wq)) /\ wq' = Tail(wq) /\ gone' = gone
    BY <1>8 DEF WorkerTakes
  <2>2. Range(wq) = Range(wq') \cup {Head(wq)} /\ Head(wq) \in OpType
    BY <2>1, QueueTake DEF TypeOK
  <2>3. Range(buf') = Range(buf) \cup {Head(wq)}
    BY <2>1, <2>2, QueuePut DEF TypeOK
  <2> QED BY <1>5, <2>1, <2>2, <2>3
<1>9. CASE FlushBatch
  <2>1. buf' = <<>> /\ wq' = wq
    BY <1>9 DEF FlushBatch
  <2>2. Range(buf') = {}
    BY <2>1, QueueEmpty
  <2>3. PICK failed \in SUBSET (Batch \ Foreign) :
           gone' = gone \cup Lost(Foreign, "coin") \cup Lost(failed, "write")
    BY <1>9 DEF FlushBatch
  <2>4. \A g \in Lost(Foreign, "coin") \cup Lost(failed, "write") : g.op \in Range(buf)
    BY DEF Lost, Batch, Foreign
  <2> QED BY <1>5, <2>1, <2>2, <2>3, <2>4
<1> QED BY <1>6, <1>7, <1>8, <1>9
        DEF Next, LedgerStep, OnCreate, OnTrade, SaveToken, vars, ledgerVars

\* The waiter works: a trade that finds no row of its coin comes after the save of the
\* coin was tried and announced, under every order of tasks, channel and worker.
THEOREM CoinsBeforeTrades == Spec => []CoinBeforeTrade
<1>1. Init => CoinInv
  <2> SUFFICES ASSUME Init PROVE CoinInv
    OBVIOUS
  <2>1. wq = <<>> /\ buf = <<>> /\ gone = {}
    BY DEF Init
  <2>2. Range(wq) = {} /\ Range(buf) = {}
    BY <2>1, QueueEmpty
  <2> QED BY <2>1, <2>2 DEF CoinInv, CoinBeforeTrade
<1>2. CoinInv => CoinBeforeTrade
  BY DEF CoinInv
<1> QED BY <1>1, <1>2, CoinStep, TypeCorrect, PTL DEF Spec

-----------------------------------------------------------------------------
(***************************************************************************)
(* Every trade is accounted for.                                           *)
(***************************************************************************)
TradeOp == [kind : {"trade"}, tx : 1..MaxTx, n : Nat \ {0}]

InTask(o) == \E k \in tasks : k.tx = o.tx /\ k.n = o.n
InQueue(o) == o \in Range(wq)
InBatch(o) == o \in Range(buf)
InRows(o) == o \in rows
InGone(o) == \E g \in gone : g.op = o

NoPlace(o) == ~InTask(o) /\ ~InQueue(o) /\ ~InBatch(o) /\ ~InRows(o) /\ ~InGone(o)

OnePlace(o) ==
    \/ InTask(o)  /\ ~InQueue(o) /\ ~InBatch(o) /\ ~InRows(o) /\ ~InGone(o)
    \/ ~InTask(o) /\ InQueue(o)  /\ ~InBatch(o) /\ ~InRows(o) /\ ~InGone(o)
    \/ ~InTask(o) /\ ~InQueue(o) /\ InBatch(o)  /\ ~InRows(o) /\ ~InGone(o)
    \/ ~InTask(o) /\ ~InQueue(o) /\ ~InBatch(o) /\ InRows(o)  /\ ~InGone(o)
    \/ ~InTask(o) /\ ~InQueue(o) /\ ~InBatch(o) /\ ~InRows(o) /\ InGone(o)

\* The launchpad has applied the trade that o is about, for the n-th time.
Issued(o) == o.tx \in DOMAIN chain /\ chain[o.tx].kind # "create" /\ o.n <= applied[o.tx]

\* An op that was issued is in one place, any other in none; no op is queued twice or has
\* two tasks; nothing is applied before it is on the chain.
PlacesInv  == \A o \in TradeOp : IF Issued(o) THEN OnePlace(o) ELSE NoPlace(o)
QueueInv   == \A o \in TradeOp : Unique(wq, o)
TasksInv   == \A k, l \in tasks : k.tx = l.tx /\ k.n = l.n => k = l
AppliedInv == \A i \in 1..MaxTx : i \notin DOMAIN chain => applied[i] = 0

PlaceInv == PlacesInv /\ QueueInv /\ TasksInv /\ AppliedInv

\* The five tests are the five places.
LEMMA PlacesCount ==
    ASSUME NEW o, OnePlace(o)
    PROVE  Cardinality(Places(o)) = 1
<1>1. /\ "task" \in Places(o) <=> InTask(o)
      /\ "queue" \in Places(o) <=> InQueue(o)
      /\ "batch" \in Places(o) <=> InBatch(o)
      /\ "row" \in Places(o) <=> InRows(o)
      /\ "gone" \in Places(o) <=> InGone(o)
      /\ Places(o) \subseteq {"task", "queue", "batch", "row", "gone"}
  BY DEF Places, InTask, InQueue, InBatch, InRows, InGone
<1>2. \E p : Places(o) = {p}
  BY <1>1 DEF OnePlace
<1> QED BY <1>2, FS_Singleton

\* A transaction of the chain has one of the numbers of the model.
LEMMA ChainDomain ==
    ASSUME TypeOK
    PROVE  DOMAIN chain \subseteq 1..MaxTx /\ DOMAIN chain = 1..Len(chain) /\ Len(chain) \in Nat
<1>1. chain \in Seq(TxType) /\ Len(chain) <= MaxTx /\ MaxTx \in Nat
  BY FeedAssumption, TypeParts DEF FeedOK
<1> QED BY <1>1

\* A step that leaves the ops alone.
LEMMA PlaceFrame ==
    ASSUME TypeOK, PlaceInv, UNCHANGED <<tasks, wq, buf, rows, gone>>,
           \A o \in TradeOp : Issued(o)' <=> Issued(o),
           AppliedInv'
    PROVE  PlaceInv'
<1>1. PlacesInv'
  <2> SUFFICES ASSUME NEW o \in TradeOp PROVE IF Issued(o)' THEN OnePlace(o)' ELSE NoPlace(o)'
    BY DEF PlacesInv
  <2>1. /\ InTask(o)' <=> InTask(o)
        /\ InQueue(o)' <=> InQueue(o)
        /\ InBatch(o)' <=> InBatch(o)
        /\ InRows(o)' <=> InRows(o)
        /\ InGone(o)' <=> InGone(o)
    BY DEF InTask, InQueue, InBatch, InRows, InGone
  <2>2. IF Issued(o) THEN OnePlace(o) ELSE NoPlace(o)
    BY DEF PlaceInv, PlacesInv
  <2> QED BY <2>1, <2>2 DEF OnePlace, NoPlace
<1> QED BY <1>1 DEF PlaceInv, QueueInv, TasksInv

\* The event loop spawns the task of a trade it has applied: an op that was in no place.
LEMMA PlaceTrade ==
    ASSUME TypeOK, PlaceInv, OnTrade
    PROVE  PlaceInv'
<1> DEFINE i == Head(pumprx)
           new == [kind |-> "tape", tx |-> i, n |-> applied[i] + 1]
<1>1. i \in DOMAIN chain /\ i \in 1..MaxTx
  BY ConsumeType, TypeParts DEF OnTrade
<1>2. chain' = chain /\ UNCHANGED <<wq, buf, rows, gone>> /\ chain[i].kind # "create"
  BY DEF OnTrade, FeedAside
<1>3. \/ UNCHANGED <<applied, tasks>>
      \/ applied' = [applied EXCEPT ![i] = @ + 1] /\ tasks' = tasks \cup {new}
  BY DEF OnTrade
<1>4. CASE UNCHANGED <<applied, tasks>>
  <2>1. AppliedInv' /\ \A o \in TradeOp : Issued(o)' <=> Issued(o)
    BY <1>2, <1>4 DEF PlaceInv, AppliedInv, Issued
  <2> QED BY <1>2, <1>4, <2>1, PlaceFrame
<1>5. CASE applied' = [applied EXCEPT ![i] = @ + 1] /\ tasks' = tasks \cup {new}
  <2> DEFINE n == applied[i] + 1
             op == [kind |-> "trade", tx |-> i, n |-> n]
  <2>0. applied \in [1..MaxTx -> Nat]
    BY DEF TypeOK
  <2>1. n \in Nat \ {0} /\ applied'[i] = n /\ \A j \in 1..MaxTx : j # i => applied'[j] = applied[j]
    BY <1>1, <1>5, <2>0
  <2>2. op \in TradeOp /\ new.tx = i /\ new.n = n /\ ~Issued(op)
    BY <1>1, <2>0, <2>1 DEF TradeOp, Issued
  <2>3. NoPlace(op)
    BY <2>2 DEF PlaceInv, PlacesInv
  <2>4. \A o \in TradeOp : (o.tx = i /\ o.n = n) <=> o = op
    BY DEF TradeOp
  <2> HIDE DEF new
  <2>5. PlacesInv'
    <3> SUFFICES ASSUME NEW o \in TradeOp PROVE IF Issued(o)' THEN OnePlace(o)' ELSE NoPlace(o)'
      BY DEF PlacesInv
    <3>1. /\ InTask(o)' <=> InTask(o) \/ o = op
          /\ InQueue(o)' <=> InQueue(o)
          /\ InBatch(o)' <=> InBatch(o)
          /\ InRows(o)' <=> InRows(o)
          /\ InGone(o)' <=> InGone(o)
      BY <1>2, <1>5, <2>2, <2>4 DEF InTask, InQueue, InBatch, InRows, InGone
    <3>2. Issued(o)' <=> Issued(o) \/ o = op
      <4>1. o.tx \in 1..MaxTx /\ o.n \in Nat
        BY DEF TradeOp
      <4>2. CASE o.tx # i
        BY <1>2, <2>1, <2>4, <4>1, <4>2 DEF Issued
      <4>3. CASE o.tx = i
        <5>1. (o.n <= n) <=> (o.n <= applied[i] \/ o.n = n)
          BY <1>1, <2>0, <4>1
        <5> QED BY <1>1, <1>2, <2>1, <2>4, <4>3, <5>1 DEF Issued
      <4> QED BY <4>2, <4>3
    <3>3. IF Issued(o) THEN OnePlace(o) ELSE NoPlace(o)
      BY DEF PlaceInv, PlacesInv
    <3> HIDE DEF op
    <3> QED BY <2>2, <2>3, <3>1, <3>2, <3>3 DEF OnePlace, NoPlace
  <2>6. TasksInv'
    <3>1. \A k \in tasks : ~(k.tx = i /\ k.n = n)
      BY <2>3 DEF NoPlace, InTask
    <3> HIDE DEF n, i
    <3> QED BY <1>5, <2>2, <3>1 DEF PlaceInv, TasksInv
  <2>7. AppliedInv'
    BY <1>1, <1>2, <2>1 DEF PlaceInv, AppliedInv
  <2>8. QueueInv'
    BY <1>2 DEF PlaceInv, QueueInv
  <2> QED BY <2>5, <2>6, <2>7, <2>8 DEF PlaceInv
<1> QED BY <1>3, <1>4, <1>5

\* A task hands its tape sample or its trade to the channel, or the channel is full.
LEMMA PlacePersist ==
    ASSUME TypeOK, PlaceInv, NEW k \in tasks, Persist(k)
    PROVE  PlaceInv'
<1>1. k \in OpType /\ k.tx \in DOMAIN chain /\ wq \in Seq(OpType)
  BY DEF TypeOK, OpType
<1>2. UNCHANGED <<chain, applied, buf, rows>>
  BY DEF Persist, feedVars
<1>3. \/ wq' = Append(wq, k) /\ gone' = gone
      \/ wq' = wq /\ gone' = gone \cup Lost({k}, "write")
  BY DEF Persist, TrySend
<1>4. AppliedInv' /\ \A o \in TradeOp : Issued(o)' <=> Issued(o)
  BY <1>2 DEF PlaceInv, AppliedInv, Issued
<1>5. \A o \in TradeOp : /\ Unique(wq, o)
                         /\ IF Issued(o) THEN OnePlace(o) ELSE NoPlace(o)
  BY DEF PlaceInv, QueueInv, PlacesInv
<1>6. wq' = Append(wq, k) =>
         /\ Range(wq') = Range(wq) \cup {k}
         /\ \A x : Unique(wq, x) /\ (x = k => x \notin Range(wq)) => Unique(wq', x)
  BY <1>1, QueuePut
<1>7. CASE k.kind = "tape"
  <2> DEFINE next == [k EXCEPT !.kind = "trade"]
  <2>1. tasks' = (tasks \ {k}) \cup {next} /\ next.tx = k.tx /\ next.n = k.n
    BY <1>1, <1>7 DEF Persist, Enqueued, OpType
  <2> HIDE DEF next
  <2>2. Lost({k}, "write") = {}
    BY <1>7 DEF Lost
  <2>3. \A o \in TradeOp : o # k
    BY <1>7 DEF TradeOp
  <2>4. QueueInv'
    BY <1>3, <1>5, <1>6, <2>3 DEF QueueInv
  <2>5. TasksInv'
    BY <2>1 DEF PlaceInv, TasksInv
  <2>6. PlacesInv'
    <3> SUFFICES ASSUME NEW o \in TradeOp PROVE IF Issued(o)' THEN OnePlace(o)' ELSE NoPlace(o)'
      BY DEF PlacesInv
    <3>1. /\ InTask(o)' <=> InTask(o)
          /\ InQueue(o)' <=> InQueue(o)
          /\ InBatch(o)' <=> InBatch(o)
          /\ InRows(o)' <=> InRows(o)
          /\ InGone(o)' <=> InGone(o)
      BY <1>2, <1>3, <1>6, <2>1, <2>2, <2>3 DEF InTask, InQueue, InBatch, InRows, InGone
    <3> QED BY <1>4, <1>5, <3>1 DEF OnePlace, NoPlace
  <2> QED BY <1>4, <2>4, <2>5, <2>6 DEF PlaceInv
<1>8. CASE k.kind = "trade"
  <2>1. tasks' = tasks \ {k}
    BY <1>8 DEF Persist, Enqueued
  <2>2. Lost({k}, "write") = {[op |-> k, why |-> "write"]}
    BY <1>8 DEF Lost
  <2>3. k \in TradeOp
    BY <1>1, <1>8, ChainDomain DEF OpType, TradeOp
  <2>4. InTask(k)
    BY DEF InTask
  <2>5. OnePlace(k) /\ ~InQueue(k)
    BY <1>5, <2>3, <2>4 DEF OnePlace, NoPlace
  <2>6. \A o \in TradeOp : (o.tx = k.tx /\ o.n = k.n) <=> o = k
    BY <2>3 DEF TradeOp
  <2>7. QueueInv'
    BY <1>3, <1>5, <1>6, <2>5 DEF QueueInv, InQueue
  <2>8. TasksInv'
    BY <2>1 DEF PlaceInv, TasksInv
  <2>9. PlacesInv'
    <3> SUFFICES ASSUME NEW o \in TradeOp PROVE IF Issued(o)' THEN OnePlace(o)' ELSE NoPlace(o)'
      BY DEF PlacesInv
    <3>1. InTask(o)' <=> InTask(o) /\ o # k
      BY <2>1, <2>6 DEF InTask, PlaceInv, TasksInv
    <3>2. \/ (InQueue(o)' <=> InQueue(o) \/ o = k) /\ (InGone(o)' <=> InGone(o))
          \/ (InQueue(o)' <=> InQueue(o)) /\ (InGone(o)' <=> InGone(o) \/ o = k)
      <4>1. CASE wq' = Append(wq, k) /\ gone' = gone
        BY <1>6, <4>1 DEF InQueue, InGone
      <4>2. CASE wq' = wq /\ gone' = gone \cup Lost({k}, "write")
        <5> DEFINE r == [op |-> k, why |-> "write"]
        <5>1. gone' = gone \cup {r} /\ r.op = k
          BY <2>2, <4>2
        <5> HIDE DEF r
        <5>2. InGone(o)' <=> InGone(o) \/ o = k
          BY <5>1 DEF InGone
        <5>3. InQueue(o)' <=> InQueue(o)
          BY <4>2 DEF InQueue
        <5> QED BY <5>2, <5>3
      <4> QED BY <1>3, <4>1, <4>2
    <3>3. /\ InBatch(o)' <=> InBatch(o)
          /\ InRows(o)' <=> InRows(o)
      BY <1>2 DEF InBatch, InRows
    <3>4. CASE o = k
      BY <1>4, <1>5, <2>4, <2>5, <3>1, <3>2, <3>3, <3>4 DEF OnePlace, NoPlace
    <3>5. CASE o # k
      BY <1>4, <1>5, <3>1, <3>2, <3>3, <3>5 DEF OnePlace, NoPlace
    <3> QED BY <3>4, <3>5
  <2> QED BY <1>4, <2>7, <2>8, <2>9 DEF PlaceInv
<1> QED BY <1>1, <1>7, <1>8 DEF OpType

\* The worker moves the oldest op from the channel to its batch.
LEMMA PlaceTakes ==
    ASSUME TypeOK, PlaceInv, WorkerTakes
    PROVE  PlaceInv'
<1> DEFINE h == Head(wq)
<1>1. wq # <<>> /\ buf' = Append(buf, h) /\ wq' = Tail(wq)
  BY DEF WorkerTakes
<1>2. UNCHANGED <<chain, applied, tasks, rows, gone>>
  BY DEF WorkerTakes, feedVars
<1>3. /\ h \in OpType /\ h \in Range(wq) /\ Range(wq) = Range(wq') \cup {h}
      /\ \A x : Unique(wq, x) => Unique(wq', x) /\ (x = h => x \notin Range(wq'))
  BY <1>1, QueueTake DEF TypeOK
<1>4. Range(buf') = Range(buf) \cup {h}
  BY <1>1, <1>3, QueuePut DEF TypeOK
<1> HIDE DEF h
<1>5. \A o \in TradeOp : /\ Unique(wq, o)
                         /\ IF Issued(o) THEN OnePlace(o) ELSE NoPlace(o)
  BY DEF PlaceInv, QueueInv, PlacesInv
<1>6. QueueInv'
  BY <1>3, <1>5 DEF QueueInv
<1>7. TasksInv' /\ AppliedInv' /\ \A o \in TradeOp : Issued(o)' <=> Issued(o)
  BY <1>2 DEF PlaceInv, TasksInv, AppliedInv, Issued
<1>8. PlacesInv'
  <2> SUFFICES ASSUME NEW o \in TradeOp PROVE IF Issued(o)' THEN OnePlace(o)' ELSE NoPlace(o)'
    BY DEF PlacesInv
  <2>1. /\ InTask(o)' <=> InTask(o)
        /\ InRows(o)' <=> InRows(o)
        /\ InGone(o)' <=> InGone(o)
    BY <1>2 DEF InTask, InRows, InGone
  <2>2. /\ InQueue(o)' <=> InQueue(o) /\ o # h
        /\ InBatch(o)' <=> InBatch(o) \/ o = h
        /\ o = h => InQueue(o)
    BY <1>3, <1>4, <1>5 DEF InQueue, InBatch
  <2> QED BY <1>5, <1>7, <2>1, <2>2 DEF OnePlace, NoPlace
<1> QED BY <1>6, <1>7, <1>8 DEF PlaceInv

\* A flush takes each trade of the batch to a row or to what is lost, each by itself.
LEMMA PlaceFlush ==
    ASSUME TypeOK, PlaceInv, FlushBatch
    PROVE  PlaceInv'
<1>1. UNCHANGED <<chain, applied, tasks, wq>> /\ buf' = <<>>
  BY DEF FlushBatch, feedVars
<1>2. Range(buf') = {}
  BY <1>1, QueueEmpty
<1>3. PICK failed \in SUBSET (Batch \ Foreign) :
         /\ rows' = rows \cup (Batch \ (Foreign \cup failed))
         /\ gone' = gone \cup Lost(Foreign, "coin") \cup Lost(failed, "write")
  BY DEF FlushBatch
<1>4. Foreign \subseteq Batch /\ \A o \in Batch : o.kind = "trade"
  BY DEF Batch, Foreign
<1>5. \A o : /\ (\E g \in Lost(Foreign, "coin") : g.op = o) <=> o \in Foreign
             /\ (\E g \in Lost(failed, "write") : g.op = o) <=> o \in failed
  <2> SUFFICES ASSUME NEW ops \in SUBSET Batch, NEW why, NEW o
               PROVE  (\E g \in Lost(ops, why) : g.op = o) <=> o \in ops
    BY <1>4
  <2> DEFINE r(x) == [op |-> x, why |-> why]
  <2>1. Lost(ops, why) = {r(x) : x \in ops} /\ \A x : r(x).op = x
    BY <1>4 DEF Lost
  <2> HIDE DEF r
  <2> QED BY <2>1
<1>6. \A o \in TradeOp : IF Issued(o) THEN OnePlace(o) ELSE NoPlace(o)
  BY DEF PlaceInv, PlacesInv
<1>7. QueueInv' /\ TasksInv' /\ AppliedInv' /\ \A o \in TradeOp : Issued(o)' <=> Issued(o)
  BY <1>1 DEF PlaceInv, QueueInv, TasksInv, AppliedInv, Issued
<1>8. PlacesInv'
  <2> SUFFICES ASSUME NEW o \in TradeOp PROVE IF Issued(o)' THEN OnePlace(o)' ELSE NoPlace(o)'
    BY DEF PlacesInv
  <2>1. InTask(o)' <=> InTask(o)
    BY <1>1 DEF InTask
  <2>2. InQueue(o)' <=> InQueue(o)
    BY <1>1 DEF InQueue
  <2>3. ~InBatch(o)'
    BY <1>2 DEF InBatch
  <2>4. InBatch(o) <=> o \in Batch
    BY DEF InBatch, Batch, TradeOp
  <2>5. InRows(o)' <=> InRows(o) \/ (o \in Batch /\ o \notin Foreign /\ o \notin failed)
    BY <1>3 DEF InRows
  <2>6. InGone(o)' <=> InGone(o) \/ o \in Foreign \/ o \in failed
    BY <1>3, <1>5 DEF InGone
  <2>7. /\ o \in Foreign => o \in Batch
        /\ o \in failed => o \in Batch /\ o \notin Foreign
    BY <1>4
  <2> QED BY <1>6, <1>7, <2>1, <2>2, <2>3, <2>4, <2>5, <2>6, <2>7 DEF OnePlace, NoPlace
<1> QED BY <1>7, <1>8 DEF PlaceInv

LEMMA PlaceStep == TypeOK /\ PlaceInv /\ [Next]_vars => PlaceInv'
<1> SUFFICES ASSUME TypeOK, PlaceInv, [Next]_vars PROVE PlaceInv'
  OBVIOUS
<1>1. CASE Transact /\ UNCHANGED ledgerVars
  \* A new transaction has not been applied.
  <2>1. UNCHANGED <<applied, tasks, wq, buf, rows, gone>>
    BY <1>1 DEF ledgerVars
  <2>2. \A i \in DOMAIN chain : i \in DOMAIN chain' /\ chain'[i] = chain[i]
    BY ChainKept
  <2>3. AppliedInv'
    BY <2>1, <2>2 DEF PlaceInv, AppliedInv
  <2>4. \A o \in TradeOp : Issued(o)' <=> Issued(o)
    <3> SUFFICES ASSUME NEW o \in TradeOp, o.tx \notin DOMAIN chain PROVE ~Issued(o)'
      BY <2>1, <2>2 DEF Issued
    <3>1. o.tx \in 1..MaxTx /\ o.n \in Nat \ {0}
      BY DEF TradeOp
    <3>2. applied'[o.tx] = 0
      BY <2>1, <3>1 DEF PlaceInv, AppliedInv
    <3> QED BY <3>1, <3>2 DEF Issued
  <2> QED BY <2>1, <2>3, <2>4, PlaceFrame
<1>2. CASE UNCHANGED <<chain, applied, tasks, wq, buf, rows, gone>>
  <2>1. AppliedInv' /\ \A o \in TradeOp : Issued(o)' <=> Issued(o)
    BY <1>2 DEF PlaceInv, AppliedInv, Issued
  <2> QED BY <1>2, <2>1, PlaceFrame
<1>3. CASE OnCreate
  \* Only the counter of the create may change.
  <2> DEFINE i == Head(pumprx)
  <2>1. UNCHANGED <<chain, tasks, wq, buf, rows, gone>> /\ chain[i].kind = "create"
    BY <1>3 DEF OnCreate, FeedAside
  <2>2. applied' \in {applied, [applied EXCEPT ![i] = @ + 1]} /\ applied \in [1..MaxTx -> Nat]
    BY <1>3 DEF OnCreate, TypeOK
  <2>3. i \in DOMAIN chain
    BY <1>3, ConsumeType, TypeParts DEF OnCreate
  <2> HIDE DEF i
  <2>4. \A j \in 1..MaxTx : j # i => applied'[j] = applied[j]
    BY <2>2
  <2>5. AppliedInv'
    BY <2>1, <2>3, <2>4 DEF PlaceInv, AppliedInv
  <2>6. \A o \in TradeOp : Issued(o)' <=> Issued(o)
    <3> SUFFICES ASSUME NEW o \in TradeOp PROVE Issued(o)' <=> Issued(o)
      OBVIOUS
    <3>1. o.tx \in 1..MaxTx
      BY DEF TradeOp
    <3> QED BY <2>1, <2>4, <3>1 DEF Issued
  <2> QED BY <2>1, <2>5, <2>6, PlaceFrame
<1>4. CASE OnTrade
  BY <1>4, PlaceTrade
<1>5. ASSUME NEW k \in tasks, Persist(k) PROVE PlaceInv'
  BY <1>5, PlacePersist
<1>6. CASE WorkerTakes
  BY <1>6, PlaceTakes
<1>7. CASE FlushBatch
  BY <1>7, PlaceFlush
<1>8. ASSUME NEW m \in Mints, SaveToken(m) PROVE PlaceInv'
  BY <1>2, <1>8 DEF SaveToken, feedVars
<1>9. CASE UNCHANGED vars
  BY <1>2, <1>9 DEF vars, feedVars, ledgerVars
<1>10. CASE (Provider \/ FeedStep) /\ UNCHANGED ledgerVars /\ ~Transact
  <2>1. UNCHANGED chain
    BY <1>10 DEF Provider, FeedStep, Redeliver, GoSilent, StreamEnds, Watchdog, Reconnect,
                 OnJunk, Subscribe, IdleTime, OnMessage
  <2> QED BY <1>2, <1>10, <2>1 DEF ledgerVars
<1> QED BY <1>1, <1>3, <1>4, <1>5, <1>6, <1>7, <1>8, <1>9, <1>10 DEF Next, LedgerStep

LEMMA PlaceInit == Init => PlaceInv
<1> SUFFICES ASSUME Init PROVE PlaceInv
  OBVIOUS
<1>1. chain = <<>> /\ wq = <<>> /\ buf = <<>> /\ tasks = {} /\ rows = {} /\ gone = {}
  BY DEF Init, FeedInit
<1>2. applied = [i \in 1..MaxTx |-> 0]
  BY DEF Init
<1>3. Range(wq) = {} /\ Range(buf) = {} /\ \A x : Unique(wq, x)
  BY <1>1, QueueEmpty
<1>4. DOMAIN chain = {}
  BY <1>1
<1>5. PlacesInv
  BY <1>1, <1>3, <1>4
     DEF PlacesInv, Issued, NoPlace, InTask, InQueue, InBatch, InRows, InGone
<1> QED BY <1>1, <1>2, <1>3, <1>5 DEF PlaceInv, QueueInv, TasksInv, AppliedInv

\* Every applied trade is accounted for: each application is in exactly one of a task, the
\* channel, the batch, the database and what was lost for a reason of its own, under every
\* interleaving of the tasks with the worker and every pattern of failing inserts.
THEOREM TradesAccountedFor == Spec => []AccountedFor
<1>1. TypeOK /\ PlaceInv => AccountedFor
  <2> SUFFICES ASSUME TypeOK, PlaceInv, NEW i \in DOMAIN chain, chain[i].kind # "create",
                      NEW n \in 1..applied[i]
               PROVE  Cardinality(Places([kind |-> "trade", tx |-> i, n |-> n])) = 1
    BY DEF AccountedFor
  <2> DEFINE o == [kind |-> "trade", tx |-> i, n |-> n]
  <2>1. i \in 1..MaxTx
    BY ChainDomain
  <2>2. applied[i] \in Nat
    BY <2>1 DEF TypeOK
  <2>3. n \in Nat \ {0} /\ n <= applied[i]
    BY <2>2
  <2>4. o \in TradeOp /\ o.tx = i /\ o.n = n
    BY <2>1, <2>3 DEF TradeOp
  <2> HIDE DEF o
  <2>5. OnePlace(o)
    BY <2>3, <2>4 DEF Issued, PlaceInv, PlacesInv
  <2>6. Cardinality(Places(o)) = 1
    BY <2>5, PlacesCount
  <2> QED BY <2>6 DEF o
<1> QED BY <1>1, PlaceInit, PlaceStep, TypeCorrect, PTL DEF Spec

-----------------------------------------------------------------------------
(***************************************************************************)
(* What the chain holds.  ChainHolds is a recursive function; that it has  *)
(* the values its equation says is shown with least counterexamples.       *)
(***************************************************************************)

\* A set of numbers has a least one.
LEMMA LeastNat ==
    ASSUME NEW T, T \subseteq Nat, T # {}
    PROVE  \E n \in T : \A m \in T : n <= m
<1>1. IsWellFoundedOn(OpToRel(<, Nat), Nat)
  BY NatLessThanWellFounded
<1>2. PICK n \in T : \A m \in T : <<m, n>> \notin OpToRel(<, Nat)
  BY <1>1, WFMin
<1>3. \A m \in T : ~(m < n)
  BY <1>2 DEF OpToRel
<1> QED BY <1>3

\* A set that has 0 and with each number the next has them all.
LEMMA AllNat ==
    ASSUME NEW T, 0 \in T, \A k \in Nat : k \in T => k + 1 \in T
    PROVE  Nat \subseteq T
<1> DEFINE B == {k \in Nat : k \notin T}
<1>1. B = {}
  <2> SUFFICES ASSUME B # {} PROVE FALSE
    OBVIOUS
  <2>1. PICK k \in B : \A j \in B : k <= j
    <3>1. B \subseteq Nat
      OBVIOUS
    <3> HIDE DEF B
    <3> QED BY <3>1, LeastNat
  <2>2. k \in Nat /\ k \notin T /\ k # 0
    BY <2>1
  <2>3. k - 1 \in Nat /\ (k - 1) + 1 = k /\ ~(k <= k - 1)
    BY <2>2
  <2>4. k - 1 \in T
    BY <2>1, <2>3
  <2> QED BY <2>2, <2>3, <2>4
<1> QED BY <1>1

\* The tokens that transaction i of c gives t on mint m.
Gain(c, i, m, t) == Count(c, i, "buy", m, t) - Count(c, i, "sell", m, t)

LEMMA GainType ==
    ASSUME NEW c, NEW i, NEW m, NEW t
    PROVE  /\ Gain(c, i, m, t) \in Int
           /\ \A x \in Int : x + Count(c, i, "buy", m, t) - Count(c, i, "sell", m, t)
                             = x + Gain(c, i, m, t)
           /\ c[i].mint # m => Gain(c, i, m, t) = 0
           /\ c[i].kind = "create" => Gain(c, i, m, t) = 0
<1> DEFINE b == Count(c, i, "buy", m, t)
           s == Count(c, i, "sell", m, t)
<1>1. b \in {0, 1} /\ s \in {0, 1}
  BY DEF Count
<1>2. c[i].mint # m \/ c[i].kind = "create" => b = 0 /\ s = 0
  BY DEF Count
<1>3. Gain(c, i, m, t) = b - s
  BY DEF Gain
<1> HIDE DEF b, s
<1>4. /\ Gain(c, i, m, t) \in Int
      /\ c[i].mint # m \/ c[i].kind = "create" => Gain(c, i, m, t) = 0
      /\ \A x \in Int : x + b - s = x + Gain(c, i, m, t)
  BY <1>1, <1>2, <1>3
<1> QED BY <1>4 DEF b, s

\* The equation of ChainHolds.
LEMMA HoldsRec ==
    ASSUME NEW c, NEW m, NEW t
    PROVE  /\ ChainHolds(c, m, t, 0) = 0
           /\ \A n \in Nat : /\ ChainHolds(c, m, t, n) \in Int
                             /\ ChainHolds(c, m, t, n + 1)
                                  = ChainHolds(c, m, t, n) + Gain(c, n + 1, m, t)
<1> DEFINE Plus(x, i) == x + Count(c, i, "buy", m, t) - Count(c, i, "sell", m, t)
           Body(h, i) == IF i = 0 THEN 0 ELSE Plus(h[i-1], i)
           Solves(h, k) == h = [i \in 0..k |-> Body(h, i)]
           Of(k) == CHOOSE h : Solves(h, k)
           E == {k \in Nat : \E h : Solves(h, k)}
<1>1. \A k \in Nat : ChainHolds(c, m, t, k) = Of(k)[k]
  BY DEF ChainHolds
<1>2. \A x \in Int : \A i : Plus(x, i) = x + Gain(c, i, m, t) /\ Plus(x, i) \in Int
  <2> SUFFICES ASSUME NEW x \in Int, NEW i
               PROVE  Plus(x, i) = x + Gain(c, i, m, t) /\ Plus(x, i) \in Int
    OBVIOUS
  <2>1. Plus(x, i) = x + Gain(c, i, m, t) /\ Gain(c, i, m, t) \in Int
    BY GainType
  <2> HIDE DEF Plus
  <2> QED BY <2>1
<1> HIDE DEF Plus
<1>3. 0 \in E
  <2> DEFINE z == [i \in 0..0 |-> 0]
  <2>1. \A i \in 0..0 : i = 0
    OBVIOUS
  <2>2. Solves(z, 0)
    BY <2>1
  <2> HIDE DEF Solves
  <2> QED BY <2>2
<1>4. ASSUME NEW k \in Nat, k \in E PROVE k + 1 \in E
  <2>1. PICK h : Solves(h, k)
    <3> HIDE DEF Solves
    <3> QED BY <1>4
  <2>2. \A i \in 0..k : h[i] = Body(h, i)
    <3> HIDE DEF Body
    <3> QED BY <2>1
  <2> DEFINE g == [i \in 0..(k + 1) |-> IF i = k + 1 THEN Body(h, k + 1) ELSE h[i]]
  <2>3. ASSUME NEW i \in 0..(k + 1) PROVE g[i] = Body(g, i)
    <3>1. CASE i = 0
      <4>1. 0 \in 0..(k + 1) /\ 0 # k + 1 /\ 0 \in 0..k
        OBVIOUS
      <4>2. g[0] = h[0] /\ h[0] = 0
        BY <2>2, <4>1
      <4> HIDE DEF g
      <4> QED BY <3>1, <4>2
    <3>2. CASE i # 0
      <4>1. i - 1 \in 0..(k + 1) /\ i - 1 # k + 1
        BY <3>2
      <4>2. g[i - 1] = h[i - 1]
        BY <4>1
      <4>3. Body(g, i) = Body(h, i)
        BY <3>2, <4>2
      <4> HIDE DEF Body
      <4>4. i # k + 1 => h[i] = Body(h, i)
        BY <2>2
      <4> QED BY <4>3, <4>4
    <3> QED BY <3>1, <3>2
  <2>4. Solves(g, k + 1)
    <3> HIDE DEF Body
    <3> QED BY <2>3
  <2> HIDE DEF Solves, g
  <2> QED BY <2>4
<1>5. \A k \in Nat : Solves(Of(k), k)
  <2> HIDE DEF Solves
  <2>1. Nat \subseteq E
    <3> HIDE DEF E
    <3> QED BY <1>3, <1>4, AllNat
  <2> QED BY <2>1
<1> HIDE DEF Of
<1>6. \A k \in Nat : /\ Of(k)[0] = 0
                     /\ \A i \in 1..k : Of(k)[i] = Plus(Of(k)[i - 1], i)
  <2> SUFFICES ASSUME NEW k \in Nat
               PROVE  Of(k)[0] = 0 /\ \A i \in 1..k : Of(k)[i] = Plus(Of(k)[i - 1], i)
    OBVIOUS
  <2> DEFINE h == Of(k)
  <2>1. Solves(h, k)
    BY <1>5
  <2> HIDE DEF h
  <2>2. \A i \in 0..k : h[i] = Body(h, i)
    <3> HIDE DEF Body
    <3> QED BY <2>1
  <2>3. 0 \in 0..k /\ \A i \in 1..k : i \in 0..k /\ i # 0
    OBVIOUS
  <2>4. h[0] = 0 /\ \A i \in 1..k : h[i] = Plus(h[i - 1], i)
    BY <2>2, <2>3
  <2> QED BY <2>4 DEF h
<1>7. ASSUME NEW k \in Nat
      PROVE  \A i \in 0..k : Of(k)[i] \in Int /\ Of(k + 1)[i] = Of(k)[i]
  <2> DEFINE T == {i \in Nat : i <= k => Of(k)[i] \in Int /\ Of(k + 1)[i] = Of(k)[i]}
  <2>1. 0 \in T
    BY <1>6
  <2>2. ASSUME NEW i \in Nat, i \in T PROVE i + 1 \in T
    <3> SUFFICES ASSUME i + 1 <= k
                 PROVE  Of(k)[i + 1] \in Int /\ Of(k + 1)[i + 1] = Of(k)[i + 1]
      OBVIOUS
    <3>1. Of(k)[i] \in Int /\ Of(k + 1)[i] = Of(k)[i]
      BY <2>2
    <3>2. i + 1 \in 1..k /\ i + 1 \in 1..(k + 1) /\ (i + 1) - 1 = i /\ k + 1 \in Nat
      OBVIOUS
    <3>3. Of(k)[i + 1] = Plus(Of(k)[i], i + 1) /\ Of(k + 1)[i + 1] = Plus(Of(k + 1)[i], i + 1)
      BY <1>6, <3>2
    <3> QED BY <1>2, <3>1, <3>3
  <2> HIDE DEF T
  <2>3. Nat \subseteq T
    BY <2>1, <2>2, AllNat
  <2> QED BY <2>3 DEF T
<1>8. ASSUME NEW n \in Nat
      PROVE  /\ ChainHolds(c, m, t, n) \in Int
             /\ ChainHolds(c, m, t, n + 1) = ChainHolds(c, m, t, n) + Gain(c, n + 1, m, t)
  <2>1. n \in 0..n /\ n + 1 \in Nat /\ n + 1 \in 1..(n + 1) /\ (n + 1) - 1 = n
    OBVIOUS
  <2>2. Of(n)[n] \in Int /\ Of(n + 1)[n] = Of(n)[n]
    BY <1>7, <2>1
  <2>3. Of(n + 1)[n + 1] = Plus(Of(n + 1)[n], n + 1)
    BY <1>6, <2>1
  <2>4. Of(n + 1)[n + 1] = Of(n)[n] + Gain(c, n + 1, m, t)
    BY <1>2, <2>2, <2>3
  <2> QED BY <1>1, <2>1, <2>2, <2>4
<1>9. ChainHolds(c, m, t, 0) = 0
  BY <1>1, <1>6
<1> QED BY <1>8, <1>9

\* Transactions of other mints change nothing.
LEMMA HoldsFlat ==
    ASSUME NEW c, NEW m, NEW t, NEW k \in Nat, NEW n \in Nat, k <= n,
           \A i \in (k + 1)..n : c[i].mint # m
    PROVE  ChainHolds(c, m, t, n) = ChainHolds(c, m, t, k)
<1> DEFINE T == {d \in Nat : k + d <= n => ChainHolds(c, m, t, k + d) = ChainHolds(c, m, t, k)}
<1>1. 0 \in T
  OBVIOUS
<1>2. ASSUME NEW d \in Nat, d \in T PROVE d + 1 \in T
  <2> SUFFICES ASSUME k + (d + 1) <= n
               PROVE  ChainHolds(c, m, t, k + (d + 1)) = ChainHolds(c, m, t, k)
    OBVIOUS
  <2> DEFINE j == k + d
  <2>1. j \in Nat /\ k + (d + 1) = j + 1 /\ j <= n /\ j + 1 \in (k + 1)..n
    OBVIOUS
  <2>2. ChainHolds(c, m, t, j) = ChainHolds(c, m, t, k)
    BY <1>2, <2>1
  <2> HIDE DEF j
  <2>3. Gain(c, j + 1, m, t) = 0
    BY <2>1, GainType
  <2>4. /\ ChainHolds(c, m, t, j) \in Int
        /\ ChainHolds(c, m, t, j + 1) = ChainHolds(c, m, t, j) + Gain(c, j + 1, m, t)
    BY <2>1, HoldsRec
  <2>5. ChainHolds(c, m, t, j + 1) = ChainHolds(c, m, t, j)
    BY <2>3, <2>4
  <2> QED BY <2>1, <2>2, <2>5
<1>3. Nat \subseteq T
  <2> HIDE DEF T
  <2> QED BY <1>1, <1>2, AllNat
<1>4. n - k \in Nat /\ k + (n - k) = n
  OBVIOUS
<1> QED BY <1>3, <1>4

\* Only the first n transactions count.
LEMMA HoldsSame ==
    ASSUME NEW c, NEW e, NEW m, NEW t, NEW n \in Nat, \A i \in 1..n : c[i] = e[i]
    PROVE  ChainHolds(c, m, t, n) = ChainHolds(e, m, t, n)
<1> DEFINE T == {k \in Nat : k <= n => ChainHolds(c, m, t, k) = ChainHolds(e, m, t, k)}
<1>1. 0 \in T
  BY HoldsRec
<1>2. ASSUME NEW k \in Nat, k \in T PROVE k + 1 \in T
  <2> SUFFICES ASSUME k + 1 <= n
               PROVE  ChainHolds(c, m, t, k + 1) = ChainHolds(e, m, t, k + 1)
    OBVIOUS
  <2>1. ChainHolds(c, m, t, k) = ChainHolds(e, m, t, k)
    BY <1>2
  <2>2. c[k + 1] = e[k + 1]
    OBVIOUS
  <2>3. Gain(c, k + 1, m, t) = Gain(e, k + 1, m, t)
    BY <2>2 DEF Gain, Count
  <2>4. ChainHolds(c, m, t, k + 1) = ChainHolds(c, m, t, k) + Gain(c, k + 1, m, t)
    BY HoldsRec
  <2>5. ChainHolds(e, m, t, k + 1) = ChainHolds(e, m, t, k) + Gain(e, k + 1, m, t)
    BY HoldsRec
  <2> QED BY <2>1, <2>3, <2>4, <2>5
<1>3. Nat \subseteq T
  <2> HIDE DEF T
  <2> QED BY <1>1, <1>2, AllNat
<1> QED BY <1>3

-----------------------------------------------------------------------------
(***************************************************************************)
(* The order of the transactions of one mint on their way: M are the       *)
(* transactions, D the ones applied, p the queue to the consumer, s the    *)
(* stream of the subscription and r the memory of signatures.              *)
(***************************************************************************)

\* Before each j in the queue q there is an i, unless i is in G already.
Precedes(q, i, j, G) ==
    \A b \in DOMAIN q : q[b] = j => i \in G \/ \E a \in DOMAIN q : a < b /\ q[a] = i

\* Nothing of M is missing, and what is applied, forwarded or sent was so in the order of the
\* chain.
Flow(M, D, p, s, r) ==
    /\ M \subseteq D \cup Range(p) \cup Range(s)
    /\ \A i, j \in M : i < j => /\ j \in D => i \in D
                                /\ Precedes(p, i, j, D)
                                /\ Precedes(s, i, j, D \cup Range(p))
    /\ M \cap Range(r) \subseteq D \cup Range(p)

\* A queue grows: what is added comes after all that is there.
LEMMA PrecedesPut ==
    ASSUME NEW S, NEW q \in Seq(S), NEW e \in S, NEW i, NEW j, NEW G, Precedes(q, i, j, G),
           e = j => i \in G \cup Range(q)
    PROVE  Precedes(Append(q, e), i, j, G)
<1> DEFINE n == Len(q)
           w == Append(q, e)
<1>1. /\ n \in Nat /\ DOMAIN q = 1..n /\ DOMAIN w = 1..(n + 1) /\ w[n + 1] = e
      /\ \A a \in 1..n : w[a] = q[a]
  OBVIOUS
<1> HIDE DEF n, w
<1> SUFFICES ASSUME NEW b \in 1..(n + 1), w[b] = j, i \notin G
             PROVE  \E a \in 1..(n + 1) : a < b /\ w[a] = i
  BY <1>1 DEF Precedes, w
<1>2. CASE b = n + 1
  <2>1. PICK a \in 1..n : q[a] = i
    BY <1>1, <1>2 DEF Range
  <2> QED BY <1>1, <1>2, <2>1
<1>3. CASE b # n + 1
  <2>1. b \in 1..n /\ q[b] = j
    BY <1>1, <1>3
  <2>2. PICK a \in 1..n : a < b /\ q[a] = i
    BY <1>1, <2>1 DEF Precedes
  <2> QED BY <1>1, <2>2
<1> QED BY <1>2, <1>3

\* A queue loses its head: that one is past, and so was whatever precedes it.
LEMMA PrecedesTake ==
    ASSUME NEW S, NEW q \in Seq(S), q # <<>>, NEW i, NEW j, NEW G, Precedes(q, i, j, G)
    PROVE  /\ Precedes(Tail(q), i, j, G \cup {Head(q)})
           /\ Head(q) = j => i \in G
<1> DEFINE n == Len(q)
           w == Tail(q)
<1>1. /\ n \in Nat \ {0} /\ DOMAIN q = 1..n /\ DOMAIN w = 1..(n - 1) /\ Head(q) = q[1]
      /\ \A a \in 1..(n - 1) : w[a] = q[a + 1]
  OBVIOUS
<1> HIDE DEF n, w
<1>2. Head(q) = j => i \in G
  <2>1. 1 \in 1..n /\ ~ \E a \in 1..n : a < 1
    BY <1>1
  <2> QED BY <1>1, <2>1 DEF Precedes
<1>3. ASSUME NEW b \in 1..(n - 1), w[b] = j, i \notin G, i # Head(q)
      PROVE  \E a \in 1..(n - 1) : a < b /\ w[a] = i
  <2>1. b + 1 \in 1..n /\ q[b + 1] = j
    BY <1>1, <1>3
  <2>2. PICK a \in 1..n : a < b + 1 /\ q[a] = i
    BY <1>1, <1>3, <2>1 DEF Precedes
  <2>3. a # 1
    BY <1>1, <1>3, <2>2
  <2>4. a - 1 \in 1..(n - 1) /\ a - 1 < b /\ (a - 1) + 1 = a
    BY <1>1, <2>2, <2>3
  <2>5. w[a - 1] = i
    BY <1>1, <2>2, <2>4
  <2> QED BY <2>4, <2>5
<1>4. Precedes(w, i, j, G \cup {Head(q)})
  BY <1>1, <1>3 DEF Precedes
<1> QED BY <1>2, <1>4 DEF w

\* A new transaction is sent.
LEMMA FlowNew ==
    ASSUME NEW M, NEW D, NEW p, NEW S, NEW s \in Seq(S), NEW r, NEW e \in S, Flow(M, D, p, s, r),
           M \subseteq Nat, e \in Nat, \A i \in M : i < e,
           e \notin D, e \notin Range(p), e \notin Range(r), e \notin Range(s)
    PROVE  Flow(M \cup {e}, D, p, Append(s, e), r)
<1>1. Range(Append(s, e)) = Range(s) \cup {e}
  BY QueuePut
<1>2. ASSUME NEW i \in M \cup {e}, NEW j \in M \cup {e}, i < j
      PROVE  /\ j \in D => i \in D
             /\ Precedes(p, i, j, D)
             /\ Precedes(Append(s, e), i, j, D \cup Range(p))
  <2>1. i \in M
    BY <1>2
  <2>2. CASE j \in M
    <3>1. j # e
      BY <2>2
    <3> QED BY <1>2, <2>1, <2>2, <3>1, PrecedesPut DEF Flow
  <2>3. CASE j = e
    <3>1. Precedes(p, i, j, D) /\ Precedes(s, i, j, D \cup Range(p))
      BY <2>3 DEF Precedes, Range
    <3>2. i \in (D \cup Range(p)) \cup Range(s)
      BY <2>1 DEF Flow
    <3> QED BY <2>3, <3>1, <3>2, PrecedesPut
  <2> QED BY <2>2, <2>3
<1> QED BY <1>1, <1>2 DEF Flow

\* A transaction is sent again.
LEMMA FlowAgain ==
    ASSUME NEW M, NEW D, NEW p, NEW S, NEW s \in Seq(S), NEW r, NEW e \in S, Flow(M, D, p, s, r)
    PROVE  Flow(M, D, p, Append(s, e), r)
<1>1. Range(Append(s, e)) = Range(s) \cup {e}
  BY QueuePut
<1>2. ASSUME NEW i \in M, NEW j \in M, i < j
      PROVE  Precedes(Append(s, e), i, j, D \cup Range(p))
  <2>1. Precedes(s, i, j, D \cup Range(p)) /\ i \in (D \cup Range(p)) \cup Range(s)
    BY <1>2 DEF Flow
  <2> QED BY <2>1, PrecedesPut
<1> QED BY <1>1, <1>2 DEF Flow

\* A remembered message is dropped.
LEMMA FlowKnown ==
    ASSUME NEW M, NEW D, NEW p, NEW S, NEW s \in Seq(S), NEW r, s # <<>>, Flow(M, D, p, s, r),
           Head(s) \in Range(r)
    PROVE  Flow(M, D, p, Tail(s), r)
<1>1. Range(s) = Range(Tail(s)) \cup {Head(s)}
  BY QueueTake
<1>2. M \subseteq D \cup Range(p) \cup Range(Tail(s))
  BY <1>1 DEF Flow
<1>3. ASSUME NEW i \in M, NEW j \in M, i < j
      PROVE  Precedes(Tail(s), i, j, D \cup Range(p))
  <2>1. Precedes(s, i, j, D \cup Range(p))
    BY <1>3 DEF Flow
  <2>2. Precedes(Tail(s), i, j, (D \cup Range(p)) \cup {Head(s)})
    BY <2>1, PrecedesTake
  <2>3. i = Head(s) => i \in D \cup Range(p)
    BY DEF Flow
  <2> QED BY <2>2, <2>3 DEF Precedes
<1> QED BY <1>2, <1>3 DEF Flow

\* A message is forwarded and remembered.
LEMMA FlowForward ==
    ASSUME NEW M, NEW D, NEW S, NEW p \in Seq(S), NEW s \in Seq(S), NEW r, NEW w, s # <<>>,
           Flow(M, D, p, s, r), Range(w) \subseteq Range(r) \cup {Head(s)}
    PROVE  Flow(M, D, Append(p, Head(s)), Tail(s), w)
<1> DEFINE e == Head(s)
           q == Append(p, e)
<1>1. Range(s) = Range(Tail(s)) \cup {e} /\ e \in S
  BY QueueTake
<1>2. Range(q) = Range(p) \cup {e}
  BY <1>1, QueuePut
<1>3. ASSUME NEW i \in M, NEW j \in M, i < j
      PROVE  /\ j \in D => i \in D
             /\ Precedes(q, i, j, D)
             /\ Precedes(Tail(s), i, j, D \cup Range(q))
  <2>1. /\ j \in D => i \in D
        /\ Precedes(p, i, j, D) /\ Precedes(s, i, j, D \cup Range(p))
    BY <1>3 DEF Flow
  <2>2. Precedes(Tail(s), i, j, (D \cup Range(p)) \cup {e}) /\ (e = j => i \in D \cup Range(p))
    BY <2>1, PrecedesTake
  <2>3. (D \cup Range(p)) \cup {e} = D \cup Range(q)
    BY <1>2
  <2>4. Precedes(q, i, j, D)
    <3> HIDE DEF e
    <3> QED BY <1>1, <2>1, <2>2, PrecedesPut
  <2> QED BY <2>1, <2>2, <2>3, <2>4
<1> HIDE DEF e, q
<1>4. Range(w) \subseteq Range(r) \cup {e}
  BY DEF e
<1>5. Flow(M, D, q, Tail(s), w)
  BY <1>1, <1>2, <1>3, <1>4 DEF Flow
<1> QED BY <1>5 DEF e, q

\* The consumer takes an event and applies it; the ones of the mint before it are applied.
LEMMA FlowApply ==
    ASSUME NEW M, NEW D, NEW S, NEW p \in Seq(S), NEW s, NEW r, p # <<>>, Flow(M, D, p, s, r)
    PROVE  /\ Flow(M, D \cup {Head(p)}, Tail(p), s, r)
           /\ Head(p) \in M => \A i \in M : i < Head(p) => i \in D
<1> DEFINE e == Head(p)
           q == Tail(p)
<1>1. Range(p) = Range(q) \cup {e}
  BY QueueTake
<1>2. ASSUME NEW i \in M, NEW j \in M, i < j
      PROVE  /\ j = e => i \in D
             /\ j \in D \cup {e} => i \in D
             /\ Precedes(q, i, j, D \cup {e})
             /\ Precedes(s, i, j, (D \cup {e}) \cup Range(q))
  <2>1. /\ j \in D => i \in D
        /\ Precedes(p, i, j, D) /\ Precedes(s, i, j, D \cup Range(p))
    BY <1>2 DEF Flow
  <2>2. Precedes(q, i, j, D \cup {e}) /\ (e = j => i \in D)
    BY <2>1, PrecedesTake
  <2>3. (D \cup {e}) \cup Range(q) = D \cup Range(p)
    BY <1>1
  <2> QED BY <2>1, <2>2, <2>3
<1> HIDE DEF e, q
<1>3. Flow(M, D \cup {e}, q, s, r)
  BY <1>1, <1>2 DEF Flow
<1>4. e \in M => \A i \in M : i < e => i \in D
  BY <1>2
<1> QED BY <1>3, <1>4 DEF e, q

\* Only what is applied of M matters, and only what is remembered of M.
LEMMA FlowFrame ==
    ASSUME NEW M, NEW D, NEW E, NEW p, NEW s, NEW r, NEW w, Flow(M, D, p, s, r),
           D \cap M = E \cap M, Range(w) \cap M \subseteq Range(r)
    PROVE  Flow(M, E, p, s, w)
<1>1. \A i \in M : i \in D <=> i \in E
  OBVIOUS
<1>2. ASSUME NEW i \in M, NEW j \in M, i < j
      PROVE  /\ j \in E => i \in E
             /\ Precedes(p, i, j, E)
             /\ Precedes(s, i, j, E \cup Range(p))
  <2>1. /\ j \in D => i \in D
        /\ Precedes(p, i, j, D) /\ Precedes(s, i, j, D \cup Range(p))
    BY <1>2 DEF Flow
  <2> QED BY <1>1, <2>1 DEF Precedes
<1> QED BY <1>1, <1>2 DEF Flow

\* The subscription is over, and nothing of M was still in it.
LEMMA FlowOver ==
    ASSUME NEW M, NEW D, NEW p, NEW s, NEW r, Flow(M, D, p, s, r), Range(s) \cap M = {}
    PROVE  Flow(M, D, p, <<>>, r)
<1>1. Range(<<>>) = {} /\ DOMAIN <<>> = {}
  BY QueueEmpty
<1> QED BY <1>1 DEF Flow, Precedes

-----------------------------------------------------------------------------
(***************************************************************************)
(* The swarm holds what the chain holds.                                   *)
(***************************************************************************)
Of(m) == {i \in DOMAIN chain : chain[i].mint = m}
Done == {i \in DOMAIN chain : applied[i] > 0}

\* The bucket of m stands for a prefix of the chain: exactly its transactions of m are
\* applied, and the swarm holds what the chain held after it.
Upto(m) ==
    IF holds[m] = NoBucket THEN Of(m) \cap Done = {}
    ELSE \E n \in 0..Len(chain) :
            /\ \A i \in Of(m) : i \in Done <=> i <= n
            /\ \A t \in Traders : holds[m][t] = ChainHolds(chain, m, t, n)

InOrder(m) == Flow(Of(m), Done, pumprx, stream, seen) /\ Upto(m)

\* A mint is created once, before its trades, and nobody sells what he does not hold.
ChainInv ==
    /\ \A j \in DOMAIN chain : \E i \in DOMAIN chain :
          i <= j /\ chain[i].kind = "create" /\ chain[i].mint = chain[j].mint
    /\ \A i, j \in DOMAIN chain :
          chain[i].kind = "create" /\ chain[j].kind = "create" /\ chain[i].mint = chain[j].mint => i = j
    /\ \A m \in Mints, t \in Traders, n \in 0..Len(chain) : ChainHolds(chain, m, t, n) >= 0

HoldInv ==
    /\ ChainInv
    /\ \A m \in Filtered : holds[m] = NoBucket
    /\ \A m \in Mints \ Filtered : ~Disturbed(m) => InOrder(m)

LEMMA GainCases ==
    ASSUME NEW c, NEW i, NEW kind, NEW m, NEW t, NEW n, NEW u,
           c[i] = [kind |-> kind, mint |-> m, trader |-> t]
    PROVE  Gain(c, i, n, u) = IF n = m /\ u = t
                              THEN IF kind = "buy" THEN 1 ELSE IF kind = "sell" THEN -1 ELSE 0
                              ELSE 0
<1>1. Count(c, i, "buy", n, u) = IF n = m /\ u = t /\ kind = "buy" THEN 1 ELSE 0
  BY DEF Count
<1>2. Count(c, i, "sell", n, u) = IF n = m /\ u = t /\ kind = "sell" THEN 1 ELSE 0
  BY DEF Count
<1>3. CASE n = m /\ u = t
  BY <1>1, <1>2, <1>3 DEF Gain
<1>4. CASE ~(n = m /\ u = t)
  BY <1>1, <1>2, <1>4 DEF Gain
<1> QED BY <1>3, <1>4

\* What a Transact adds to the chain.
LEMMA Transacted ==
    ASSUME TypeOK, Transact
    PROVE  \E kind \in {"create", "buy", "sell"}, m \in Mints, t \in Traders :
              /\ chain'[Len(chain) + 1] = [kind |-> kind, mint |-> m, trader |-> t]
              /\ kind = "create" => ~Created(m)
              /\ kind = "buy" => Created(m)
              /\ kind = "sell" => ChainHolds(chain, m, t, Len(chain)) > 0
<1>1. PICK kind \in {"create", "buy", "sell"}, m \in Mints, t \in Traders :
         /\ chain' = Append(chain, [kind |-> kind, mint |-> m, trader |-> t])
         /\ Possible([kind |-> kind, mint |-> m, trader |-> t])
  BY DEF Transact
<1> DEFINE tx == [kind |-> kind, mint |-> m, trader |-> t]
<1>2. tx.kind = kind /\ tx.mint = m /\ tx.trader = t /\ tx \in TxType /\ Possible(tx)
  BY <1>1 DEF TxType
<1>3. chain' = Append(chain, tx) /\ chain \in Seq(TxType)
  BY <1>1, TypeParts DEF FeedOK
<1> HIDE DEF tx
<1>4. chain'[Len(chain) + 1] = tx
  BY <1>2, <1>3
<1>5. kind = "create" => ~Created(m)
  BY <1>2 DEF Possible
<1>6. kind = "buy" => Created(m)
  BY <1>2 DEF Possible
<1>7. kind = "sell" => ChainHolds(chain, m, t, Len(chain)) > 0
  BY <1>2 DEF Possible
<1>8. chain'[Len(chain) + 1] = [kind |-> kind, mint |-> m, trader |-> t]
  BY <1>4 DEF tx
<1> QED BY <1>5, <1>6, <1>7, <1>8

LEMMA ChainStep == TypeOK /\ ChainInv /\ Transact => ChainInv'
<1> SUFFICES ASSUME TypeOK, ChainInv, Transact PROVE ChainInv'
  OBVIOUS
<1> DEFINE L == Len(chain)
           N == L + 1
<1>1. /\ L \in Nat /\ DOMAIN chain = 1..L /\ DOMAIN chain' = 1..N /\ Len(chain') = N
      /\ \A i \in 1..L : chain'[i] = chain[i]
  BY ChainGrows, TypeParts
<1>2. PICK kind \in {"create", "buy", "sell"}, m \in Mints, t \in Traders :
         /\ chain'[N] = [kind |-> kind, mint |-> m, trader |-> t]
         /\ kind = "create" => ~Created(m)
         /\ kind = "buy" => Created(m)
         /\ kind = "sell" => ChainHolds(chain, m, t, L) > 0
  BY Transacted
<1> HIDE DEF L
<1>3. chain'[N].kind = kind /\ chain'[N].mint = m /\ \A i \in 1..N : i \in 1..L \/ i = N
  BY <1>1, <1>2
<1>4. kind # "create" => \E i \in 1..L : chain[i].kind = "create" /\ chain[i].mint = m
  <2>1. CASE kind = "buy"
    BY <1>1, <1>2, <2>1 DEF Created
  <2>2. CASE kind = "sell"
    <3>1. \E i \in 1..L : chain[i].mint = m
      <4> SUFFICES ASSUME \A i \in 1..L : chain[i].mint # m PROVE FALSE
        OBVIOUS
      <4>1. 0 \in Nat /\ 0 <= L /\ \A i \in (0 + 1)..L : chain[i].mint # m
        BY <1>1
      <4>2. ChainHolds(chain, m, t, L) = ChainHolds(chain, m, t, 0)
        BY <1>1, <4>1, HoldsFlat
      <4>3. ChainHolds(chain, m, t, 0) = 0
        BY HoldsRec
      <4> QED BY <1>2, <2>2, <4>2, <4>3
    <3> QED BY <1>1, <3>1 DEF ChainInv
  <2> QED BY <2>1, <2>2
<1>5. \A j \in 1..N : \E i \in 1..N :
         i <= j /\ chain'[i].kind = "create" /\ chain'[i].mint = chain'[j].mint
  <2> SUFFICES ASSUME NEW j \in 1..N
               PROVE  \E i \in 1..N : i <= j /\ chain'[i].kind = "create" /\ chain'[i].mint = chain'[j].mint
    OBVIOUS
  <2>1. CASE j \in 1..L
    <3>1. PICK i \in 1..L : i <= j /\ chain[i].kind = "create" /\ chain[i].mint = chain[j].mint
      BY <1>1, <2>1 DEF ChainInv
    <3>2. i \in 1..N /\ chain'[i] = chain[i] /\ chain'[j] = chain[j]
      BY <1>1, <2>1
    <3> QED BY <3>1, <3>2
  <2>2. CASE j = N /\ kind = "create"
    BY <1>1, <1>3, <2>2
  <2>3. CASE j = N /\ kind # "create"
    <3>1. PICK i \in 1..L : chain[i].kind = "create" /\ chain[i].mint = m
      BY <1>4, <2>3
    <3>2. i \in 1..N /\ i <= N /\ chain'[i] = chain[i]
      BY <1>1
    <3> QED BY <1>3, <2>3, <3>1, <3>2
  <2> QED BY <1>3, <2>1, <2>2, <2>3
<1>6. \A i, j \in 1..N :
         chain'[i].kind = "create" /\ chain'[j].kind = "create" /\ chain'[i].mint = chain'[j].mint => i = j
  <2>1. ASSUME NEW i \in 1..L, chain'[i].kind = "create", chain'[N].kind = "create",
               chain'[i].mint = chain'[N].mint
        PROVE  FALSE
    <3>1. chain[i].kind = "create" /\ chain[i].mint = m /\ kind = "create"
      BY <1>1, <1>3, <2>1
    <3> QED BY <1>1, <1>2, <3>1 DEF Created
  <2>2. ASSUME NEW i \in 1..L, NEW j \in 1..L, chain'[i].kind = "create",
               chain'[j].kind = "create", chain'[i].mint = chain'[j].mint
        PROVE  i = j
    BY <1>1, <2>2 DEF ChainInv
  <2> QED BY <1>3, <2>1, <2>2
<1>7. ASSUME NEW x \in Mints, NEW u \in Traders, NEW n \in 0..N
      PROVE  ChainHolds(chain', x, u, n) >= 0
  <2>1. ASSUME NEW k \in 0..L
        PROVE  ChainHolds(chain', x, u, k) = ChainHolds(chain, x, u, k) /\ ChainHolds(chain, x, u, k) >= 0
    <3>1. k \in Nat /\ \A i \in 1..k : chain'[i] = chain[i]
      BY <1>1
    <3> QED BY <1>1, <3>1, HoldsSame DEF ChainInv, L
  <2>2. CASE n \in 0..L
    BY <2>1, <2>2
  <2>3. CASE n = N
    <3>1. /\ ChainHolds(chain', x, u, L) \in Int
          /\ ChainHolds(chain', x, u, N) = ChainHolds(chain', x, u, L) + Gain(chain', N, x, u)
      BY <1>1, HoldsRec
    <3>2. L \in 0..L
      BY <1>1
    <3>3. ChainHolds(chain', x, u, L) = ChainHolds(chain, x, u, L) /\ ChainHolds(chain, x, u, L) >= 0
      BY <2>1, <3>2
    <3>4. Gain(chain', N, x, u) = IF x = m /\ u = t
                                  THEN IF kind = "buy" THEN 1 ELSE IF kind = "sell" THEN -1 ELSE 0
                                  ELSE 0
      BY <1>2, GainCases
    <3>5. CASE x = m /\ u = t /\ kind = "sell"
      BY <1>2, <2>3, <3>1, <3>3, <3>4, <3>5
    <3>6. CASE ~(x = m /\ u = t /\ kind = "sell")
      <4>1. Gain(chain', N, x, u) \in {0, 1}
        BY <3>4, <3>6
      <4> QED BY <2>3, <3>1, <3>3, <4>1
    <3> QED BY <3>5, <3>6
  <2>4. n \in 0..L \/ n = N
    BY <1>1
  <2> QED BY <2>2, <2>3, <2>4
<1> QED BY <1>1, <1>5, <1>6, <1>7 DEF ChainInv

\* A disturbed mint stays disturbed: what is lost stays lost, and nothing is unapplied.
LEMMA DisturbedStays ==
    ASSUME TypeOK, [Next]_vars, NEW m, ~Disturbed(m)'
    PROVE  ~Disturbed(m)
<1>1. \A i \in DOMAIN chain : i \in DOMAIN chain' /\ chain'[i] = chain[i]
  BY ChainKept
<1>2. lost \subseteq lost'
  BY DEF Next, Provider, FeedStep, Transact, Redeliver, GoSilent, StreamEnds, Watchdog, Reconnect,
         OnJunk, Subscribe, IdleTime, OnMessage, LedgerStep, OnCreate, OnTrade, FeedAside,
         SaveToken, Persist, WorkerTakes, FlushBatch, vars, feedVars
<1>3. \A i \in DOMAIN chain : applied[i] > 1 => applied'[i] > 1
  <2>1. \A i \in DOMAIN chain : i \in 1..MaxTx
    BY ChainDomain
  <2>2. CASE applied' = applied
    BY <2>2
  <2>3. ASSUME NEW e, applied' = [applied EXCEPT ![e] = @ + 1]
        PROVE  \A i \in DOMAIN chain : applied[i] > 1 => applied'[i] > 1
    <3>1. applied \in [1..MaxTx -> Nat]
      BY DEF TypeOK
    <3> QED BY <2>1, <2>3, <3>1
  <2>4. \/ applied' = applied
        \/ \E e : applied' = [applied EXCEPT ![e] = @ + 1]
    BY DEF Next, LedgerStep, OnCreate, OnTrade, SaveToken, Persist, WorkerTakes, FlushBatch,
           vars, ledgerVars
  <2> QED BY <2>2, <2>3, <2>4
<1> QED BY <1>1, <1>2, <1>3 DEF Disturbed

\* The numbers of the transactions of a mint.
LEMMA OfType ==
    ASSUME TypeOK, NEW m
    PROVE  /\ Len(chain) \in Nat /\ DOMAIN chain = 1..Len(chain)
           /\ Of(m) \subseteq 1..Len(chain) /\ Of(m) \subseteq Nat /\ Of(m) \cap JunkSigs = {}
<1>1. chain \in Seq(TxType) /\ Len(chain) <= MaxTx
  BY TypeParts DEF FeedOK
<1>2. Len(chain) \in Nat /\ DOMAIN chain = 1..Len(chain)
  BY <1>1
<1>3. MaxTx \in Nat /\ JunkSigs \cap (1..MaxTx) = {}
  BY FeedAssumption
<1>4. Of(m) \subseteq 1..Len(chain)
  BY <1>2 DEF Of
<1>5. \A i \in 1..Len(chain) : i \in Nat /\ i \in 1..MaxTx
  BY <1>1, <1>2, <1>3
<1> QED BY <1>2, <1>3, <1>4, <1>5

\* A step of the queues alone.
LEMMA OrderFrame ==
    ASSUME NEW m, InOrder(m), UNCHANGED <<chain, applied, holds>>,
           Flow(Of(m), Done, pumprx', stream', seen')
    PROVE  InOrder(m)'
<1>1. Of(m)' = Of(m) /\ Done' = Done
  BY DEF Of, Done
<1>2. Upto(m)'
  BY <1>1 DEF Upto, InOrder
<1> QED BY <1>1, <1>2 DEF InOrder

\* A new transaction goes behind the others, or is lost.
LEMMA OrderTransact ==
    ASSUME TypeOK, AppliedInv, NEW m \in Mints, ~Disturbed(m)', InOrder(m),
           Transact, UNCHANGED ledgerVars
    PROVE  InOrder(m)'
<1> DEFINE L == Len(chain)
           N == L + 1
<1>1. /\ L \in Nat /\ DOMAIN chain = 1..L /\ DOMAIN chain' = 1..N /\ Len(chain') = N
      /\ N <= MaxTx /\ DOMAIN chain \subseteq DOMAIN chain'
      /\ \A i \in 1..L : chain'[i] = chain[i]
  BY ChainGrows, TypeParts
<1>2. UNCHANGED <<applied, holds>> /\ UNCHANGED <<pumprx, seen>>
  BY DEF ledgerVars, Transact
<1> HIDE DEF L
<1>3. /\ MaxTx \in Nat /\ N \in Nat /\ N \in 1..MaxTx /\ N \in 1..N /\ N \notin 1..L
      /\ \A i \in 1..N : i \in 1..L \/ i = N
      /\ \A i \in 1..L : i < N /\ i \in 1..N /\ i \in Nat
  BY <1>1, FeedAssumption
<1> HIDE DEF N
<1>4. applied[N] = 0
  BY <1>1, <1>3 DEF AppliedInv
<1>5. Done' = Done
  <2>1. \A i \in 1..N : applied[i] > 0 => i \in 1..L
    BY <1>3, <1>4
  <2> QED BY <1>1, <1>2, <1>3, <2>1 DEF Done
<1>6. N \notin Done /\ N \notin Range(pumprx) /\ N \notin Range(seen) /\ N \notin Range(stream)
  <2>1. /\ stream \in Seq(DOMAIN chain) /\ pumprx \in Seq(DOMAIN chain)
        /\ seen \in Seq(DOMAIN chain \cup JunkSigs)
    BY DEF TypeOK
  <2>2. Range(stream) \subseteq DOMAIN chain /\ Range(pumprx) \subseteq DOMAIN chain
        /\ Range(seen) \subseteq DOMAIN chain \cup JunkSigs
    BY <2>1 DEF Range
  <2>3. N \notin JunkSigs
    BY <1>3, FeedAssumption
  <2> QED BY <1>1, <1>3, <2>2, <2>3 DEF Done
<1>7. Of(m) \subseteq 1..L
  BY <1>1 DEF Of
<1>8. stream \in Seq(DOMAIN chain')
  BY <1>1, SeqMonotonic DEF TypeOK
<1>9. Flow(Of(m), Done, pumprx, stream, seen) /\ Upto(m)
  BY DEF InOrder
<1>10. Of(m)' \subseteq Of(m) \cup {N} /\ Flow(Of(m)', Done, pumprx, stream', seen)
  <2>1. CASE chain'[N].mint = m
    <3>1. Of(m)' = Of(m) \cup {N}
      BY <1>1, <1>3, <2>1 DEF Of
    <3>2. link = "up"
      BY <1>1, <1>3, <2>1 DEF Disturbed, Transact
    <3>3. stream' = Append(stream, N)
      BY <1>1, <3>2 DEF Transact
    <3>4. Of(m) \subseteq Nat /\ \A i \in Of(m) : i < N
      BY <1>3, <1>7
    <3>5. Flow(Of(m) \cup {N}, Done, pumprx, Append(stream, N), seen)
      <4> DEFINE S == DOMAIN chain'
                 M == Of(m)
                 D == Done
      <4>1. N \in S /\ stream \in Seq(S)
        BY <1>1, <1>3, <1>8
      <4>2. M \subseteq Nat /\ (\A i \in M : i < N) /\ Flow(M, D, pumprx, stream, seen) /\ N \notin D
        BY <1>6, <1>9, <3>4
      <4> HIDE DEF S, M, D
      <4>3. Flow(M \cup {N}, D, pumprx, Append(stream, N), seen)
        BY <1>3, <1>6, <4>1, <4>2, FlowNew
      <4> QED BY <4>3 DEF M, D
    <3> QED BY <3>1, <3>3, <3>5
  <2>2. CASE chain'[N].mint # m
    <3>1. Of(m)' = Of(m)
      BY <1>1, <1>3, <2>2 DEF Of
    <3>2. stream' = stream \/ stream' = Append(stream, N)
      BY <1>1 DEF Transact
    <3>3. Flow(Of(m), Done, pumprx, Append(stream, N), seen)
      <4> DEFINE S == DOMAIN chain'
                 M == Of(m)
                 D == Done
      <4>1. N \in S /\ stream \in Seq(S) /\ Flow(M, D, pumprx, stream, seen)
        BY <1>1, <1>3, <1>8, <1>9
      <4> HIDE DEF S, M, D
      <4>3. Flow(M, D, pumprx, Append(stream, N), seen)
        BY <4>1, FlowAgain
      <4> QED BY <4>3 DEF M, D
    <3> QED BY <1>9, <3>1, <3>2, <3>3
  <2> QED BY <2>1, <2>2
<1>11. Upto(m)'
  <2>1. Of(m) \subseteq Of(m)'
    BY <1>1, <1>3 DEF Of
  <2>2. CASE holds[m] = NoBucket
    <3>1. Of(m)' \cap Done' = {}
      BY <1>5, <1>6, <1>9, <1>10, <2>2 DEF Upto
    <3> QED BY <1>2, <2>2, <3>1 DEF Upto
  <2>3. CASE holds[m] # NoBucket
    <3>1. PICK n \in 0..L : /\ \A i \in Of(m) : i \in Done <=> i <= n
                            /\ \A t \in Traders : holds[m][t] = ChainHolds(chain, m, t, n)
      BY <1>9, <2>3 DEF Upto, L
    <3>2. n \in 0..N /\ ~(N <= n) /\ n \in Nat /\ \A i \in 1..n : i \in 1..L
      BY <1>1, <3>1 DEF N
    <3>3. \A t \in Traders : ChainHolds(chain', m, t, n) = ChainHolds(chain, m, t, n)
      BY <1>1, <3>2, HoldsSame
    <3>4. \A i \in Of(m)' : i \in Done' <=> i <= n
      BY <1>5, <1>6, <1>10, <3>1, <3>2
    <3>5. \A t \in Traders : holds'[m][t] = ChainHolds(chain', m, t, n)
      BY <1>2, <3>1, <3>3
    <3>6. n \in 0..Len(chain')
      BY <1>1, <3>2
    <3> QED BY <1>2, <2>3, <3>4, <3>5, <3>6 DEF Upto
  <2> QED BY <2>2, <2>3
<1> QED BY <1>2, <1>5, <1>10, <1>11 DEF InOrder

\* What the subscription does to the messages keeps their order.
LEMMA OrderFeed ==
    ASSUME TypeOK, AppliedInv, NEW m \in Mints, ~Disturbed(m)', InOrder(m),
           Provider \/ FeedStep, UNCHANGED ledgerVars
    PROVE  InOrder(m)'
<1> DEFINE S == DOMAIN chain
           M == Of(m)
           D == Done
<1>1. /\ stream \in Seq(S) /\ pumprx \in Seq(S) /\ seen \in Seq(S \cup JunkSigs)
      /\ Flow(M, D, pumprx, stream, seen) /\ M \cap JunkSigs = {}
  BY OfType DEF TypeOK, InOrder
<1>2. ASSUME chain' = chain, Flow(M, D, pumprx', stream', seen') PROVE InOrder(m)'
  <2>1. UNCHANGED <<chain, applied, holds>>
    BY <1>2 DEF ledgerVars
  <2> QED BY <1>2, <2>1, OrderFrame
<1>3. ASSUME UNCHANGED <<chain, pumprx, stream, seen>> PROVE InOrder(m)'
  BY <1>1, <1>2, <1>3
<1>4. FeedOK
  BY TypeParts
<1> HIDE DEF M, D
<1>5. CASE Transact
  BY <1>5, OrderTransact
<1>6. CASE Redeliver
  <2>1. PICK i \in S : stream' = Append(stream, i)
    BY <1>6 DEF Redeliver
  <2>2. UNCHANGED <<chain, pumprx, seen>>
    BY <1>6 DEF Redeliver
  <2> HIDE DEF S
  <2>3. Flow(M, D, pumprx, Append(stream, i), seen)
    BY <1>1, FlowAgain
  <2> QED BY <1>2, <2>1, <2>2, <2>3
<1>7. CASE GoSilent \/ Subscribe \/ IdleTime
  BY <1>3, <1>7 DEF GoSilent, Subscribe, IdleTime
<1>8. CASE StreamEnds \/ Watchdog
  <2>1. /\ stream' = <<>> /\ lost' = lost \cup Range(stream)
        /\ UNCHANGED <<chain, pumprx, seen>>
    BY <1>8 DEF StreamEnds, Watchdog, Reconnect
  <2>2. Range(stream) \cap M = {}
    BY <2>1 DEF M, Of, Disturbed
  <2>3. Flow(M, D, pumprx, <<>>, seen)
    BY <1>1, <2>2, FlowOver
  <2> QED BY <1>2, <2>1, <2>3
<1>9. CASE OnJunk
  <2>1. UNCHANGED <<chain, pumprx, stream>>
    BY <1>9 DEF OnJunk
  <2>2. CASE UNCHANGED seen
    BY <1>3, <2>1, <2>2
  <2>3. ASSUME NEW j \in JunkSigs, Remember(j) PROVE InOrder(m)'
    <3>1. Range(seen') \subseteq Range(seen) \cup {j}
      BY <1>4, <2>3, RememberType
    <3>2. Range(seen') \cap M \subseteq Range(seen)
      BY <1>1, <3>1
    <3>3. Flow(M, D, pumprx, stream, seen')
      BY <1>1, <3>2, FlowFrame
    <3> QED BY <1>2, <2>1, <3>3
  <2> QED BY <1>9, <2>2, <2>3 DEF OnJunk
<1>10. CASE OnMessage
  <2>1. stream # <<>> /\ stream' = Tail(stream) /\ chain' = chain
    BY <1>10 DEF OnMessage
  <2>2. Head(stream) \in S
    BY <1>1, <2>1, QueueTake
  <2>3. CASE Seen(Head(stream))
    <3>1. UNCHANGED <<pumprx, seen>>
      BY <1>10, <2>3 DEF OnMessage
    <3>2. Head(stream) \in Range(seen)
      BY <1>1, <2>3 DEF Seen, Contains, Range
    <3>3. Flow(M, D, pumprx, Tail(stream), seen)
      <4> HIDE DEF S
      <4> QED BY <1>1, <2>1, <3>2, FlowKnown
    <3> QED BY <1>2, <2>1, <3>1, <3>3
  <2>4. CASE ~Seen(Head(stream))
    <3>1. Remember(Head(stream)) /\ pumprx' = Append(pumprx, Head(stream))
      BY <1>10, <2>4 DEF OnMessage
    <3>2. Range(seen') \subseteq Range(seen) \cup {Head(stream)}
      BY <1>4, <2>2, <3>1, RememberType
    <3>3. Flow(M, D, Append(pumprx, Head(stream)), Tail(stream), seen')
      <4> HIDE DEF S
      <4> QED BY <1>1, <2>1, <3>2, FlowForward
    <3> QED BY <1>2, <2>1, <3>1, <3>3
  <2> QED BY <2>3, <2>4
<1> QED BY <1>5, <1>6, <1>7, <1>8, <1>9, <1>10 DEF Provider, FeedStep

\* An event of another mint.
LEMMA OrderOther ==
    ASSUME TypeOK, NEW m, InOrder(m), pumprx # <<>>, Consumed, FeedAside,
           chain[Head(pumprx)].mint # m, holds'[m] = holds[m],
           \A i \in DOMAIN chain \ {Head(pumprx)} : applied'[i] = applied[i]
    PROVE  InOrder(m)'
<1> DEFINE S == DOMAIN chain
           M == Of(m)
           D == Done
           E == Done'
           e == Head(pumprx)
<1>1. /\ pumprx \in Seq(S) /\ Flow(M, D, pumprx, stream, seen) /\ e \notin M
      /\ pumprx' = Tail(pumprx) /\ UNCHANGED <<chain, stream, seen>>
  BY DEF TypeOK, InOrder, Of, Consumed, FeedAside
<1>2. Of(m)' = M /\ M \subseteq S
  BY <1>1 DEF Of
<1>3. (D \cup {e}) \cap M = E \cap M /\ D \cap M = E \cap M
  BY <1>1, <1>2 DEF Done
<1>4. Upto(m)'
  <2>1. \A i \in M : i \in D <=> i \in E
    BY <1>3
  <2>2. Upto(m)
    BY DEF InOrder
  <2> QED BY <1>1, <1>2, <2>1, <2>2 DEF Upto
<1> HIDE DEF S, M, D, E, e
<1>5. Flow(M, D \cup {e}, Tail(pumprx), stream, seen)
  BY <1>1, FlowApply DEF e
<1>6. Flow(M, E, Tail(pumprx), stream, seen)
  BY <1>3, <1>5, FlowFrame
<1>7. Flow(Of(m)', Done', pumprx', stream', seen')
  BY <1>1, <1>2, <1>6 DEF E
<1> QED BY <1>4, <1>7 DEF InOrder

\* An event of m that is applied for the first time: it is the next one of m.
LEMMA OrderNext ==
    ASSUME TypeOK, NEW m, InOrder(m), pumprx # <<>>, Consumed, FeedAside,
           chain[Head(pumprx)].mint = m, applied[Head(pumprx)] = 0,
           applied' = [applied EXCEPT ![Head(pumprx)] = @ + 1]
    PROVE  /\ Flow(Of(m)', Done', pumprx', stream', seen') /\ Of(m)' = Of(m)
           /\ \A j \in Of(m) : (j \in Done' <=> j <= Head(pumprx)) /\ (j \in Done <=> j < Head(pumprx))
<1> DEFINE S == DOMAIN chain
           M == Of(m)
           D == Done
           e == Head(pumprx)
<1>1. /\ pumprx \in Seq(S) /\ Flow(M, D, pumprx, stream, seen)
      /\ pumprx' = Tail(pumprx) /\ UNCHANGED <<chain, stream, seen>>
  BY DEF TypeOK, InOrder, Consumed, FeedAside
<1>2. e \in S /\ e \in 1..MaxTx
  BY ConsumeType, TypeParts
<1>3. Of(m)' = M /\ e \in M /\ e \notin D /\ M \subseteq Nat
  <2>1. M \subseteq Nat
    BY OfType
  <2>2. Of(m)' = M /\ e \in M
    BY <1>1, <1>2 DEF Of
  <2>3. e \notin D
    BY DEF Done
  <2> QED BY <2>1, <2>2, <2>3
<1>4. Done' = D \cup {e}
  <2>1. \A i \in S : i \in 1..MaxTx
    BY ChainDomain
  <2>2. applied \in [1..MaxTx -> Nat]
    BY DEF TypeOK
  <2>3. \A i \in S : applied'[i] > 0 <=> applied[i] > 0 \/ i = e
    BY <1>2, <2>1, <2>2
  <2>4. S = DOMAIN chain'
    BY <1>1
  <2> QED BY <1>2, <2>3, <2>4 DEF Done
<1> HIDE DEF S, M, D
<1>5. /\ Flow(M, D \cup {e}, Tail(pumprx), stream, seen)
      /\ \A j \in M : j < e => j \in D
  BY <1>1, <1>3, FlowApply
<1>6. \A j \in M : e < j => j \notin D
  BY <1>1, <1>3 DEF Flow
<1> HIDE DEF e
<1>7. \A j \in M : (j \in D \cup {e} <=> j <= e) /\ (j \in D <=> j < e)
  <2> SUFFICES ASSUME NEW j \in M
               PROVE  (j \in D \cup {e} <=> j <= e) /\ (j \in D <=> j < e)
    OBVIOUS
  <2>1. j \in Nat /\ e \in Nat
    BY <1>3
  <2>2. j < e \/ j = e \/ e < j
    BY <2>1
  <2> QED BY <1>3, <1>5, <1>6, <2>1, <2>2
<1>8. Flow(Of(m)', Done', pumprx', stream', seen')
  BY <1>1, <1>3, <1>4, <1>5
<1> QED BY <1>3, <1>4, <1>7, <1>8 DEF M, D, e

\* A create of m empties the bucket, and nobody held m before.
LEMMA OrderCreate ==
    ASSUME TypeOK, ChainInv, NEW m \in Mints \ Filtered, ~Disturbed(m)', InOrder(m), OnCreate
    PROVE  InOrder(m)'
<1> DEFINE i == Head(pumprx)
<1>1. /\ pumprx # <<>> /\ Consumed /\ FeedAside /\ chain[i].kind = "create"
      /\ UNCHANGED <<chain, lost>>
  BY DEF OnCreate, FeedAside
<1>2. i \in DOMAIN chain /\ i \in 1..MaxTx /\ chain[i] \in TxType
  BY <1>1, ConsumeType, TypeParts
<1>3. /\ applied \in [1..MaxTx -> Nat] /\ holds \in [Mints -> {NoBucket} \cup [Traders -> Int]]
      /\ \A j \in DOMAIN chain : j \in 1..MaxTx
  BY ChainDomain DEF TypeOK
<1>4. CASE chain[i].mint # m
  <2>1. holds'[m] = holds[m]
    BY <1>3, <1>4 DEF OnCreate
  <2>2. \A j \in DOMAIN chain \ {i} : applied'[j] = applied[j]
    BY <1>3 DEF OnCreate
  <2> QED BY <1>1, <1>4, <2>1, <2>2, OrderOther
<1>5. CASE chain[i].mint = m
  <2>1. holds' = [holds EXCEPT ![m] = Empty] /\ applied' = [applied EXCEPT ![i] = @ + 1]
    BY <1>5 DEF OnCreate
  <2>2. applied[i] = 0
    <3>1. applied'[i] = applied[i] + 1 /\ applied[i] \in Nat
      BY <1>2, <1>3, <2>1
    <3>2. ~(applied'[i] > 1)
      BY <1>1, <1>2, <1>5 DEF Disturbed
    <3> QED BY <3>1, <3>2
  <2>3. /\ Flow(Of(m)', Done', pumprx', stream', seen') /\ Of(m)' = Of(m)
        /\ \A j \in Of(m) : j \in Done' <=> j <= i
    BY <1>1, <1>5, <2>1, <2>2, OrderNext
  <2>4. Len(chain) \in Nat /\ DOMAIN chain = 1..Len(chain) /\ i \in 1..Len(chain)
    BY <1>2, OfType
  <2>5. ASSUME NEW t \in Traders PROVE holds'[m][t] = ChainHolds(chain, m, t, i)
    <3>1. holds'[m][t] = 0
      BY <1>3, <2>1 DEF Empty
    <3>2. i - 1 \in Nat /\ 0 <= i - 1 /\ (i - 1) + 1 = i /\ \A j \in (0 + 1)..(i - 1) : j \in 1..Len(chain) /\ ~(i <= j)
      BY <2>4
    <3>3. \A j \in (0 + 1)..(i - 1) : chain[j].mint # m
      <4> SUFFICES ASSUME NEW j \in (0 + 1)..(i - 1), chain[j].mint = m PROVE FALSE
        OBVIOUS
      <4>1. PICK c \in DOMAIN chain : c <= j /\ chain[c].kind = "create" /\ chain[c].mint = m
        BY <2>4, <3>2 DEF ChainInv
      <4>2. c = i
        BY <1>1, <1>2, <1>5, <4>1 DEF ChainInv
      <4> QED BY <3>2, <4>1, <4>2
    <3>4. ChainHolds(chain, m, t, i - 1) = 0
      <4>1. ChainHolds(chain, m, t, i - 1) = ChainHolds(chain, m, t, 0)
        <5> DEFINE n == i - 1
        <5>1. n \in Nat /\ 0 <= n /\ 0 \in Nat /\ \A j \in (0 + 1)..n : chain[j].mint # m
          BY <3>2, <3>3
        <5> HIDE DEF n
        <5>2. ChainHolds(chain, m, t, n) = ChainHolds(chain, m, t, 0)
          BY <5>1, HoldsFlat
        <5> QED BY <5>2 DEF n
      <4> QED BY <4>1, HoldsRec
    <3>5. ChainHolds(chain, m, t, (i - 1) + 1) = ChainHolds(chain, m, t, i - 1) + Gain(chain, (i - 1) + 1, m, t)
      BY <3>2, HoldsRec
    <3>6. Gain(chain, i, m, t) = 0
      <4>1. chain[i] = [kind |-> chain[i].kind, mint |-> chain[i].mint, trader |-> chain[i].trader]
        BY <1>2 DEF TxType
      <4> QED BY <1>1, <4>1, GainCases
    <3> QED BY <3>1, <3>2, <3>4, <3>5, <3>6
  <2>6. Upto(m)'
    <3>1. holds'[m] = Empty
      BY <1>3, <2>1
    <3>2. Empty # NoBucket
      <4>1. DOMAIN Empty = Traders /\ chain[i].trader \in Traders
        BY <1>2 DEF Empty, TxType
      <4> QED BY <4>1 DEF NoBucket
    <3>3. i \in 0..Len(chain')
      BY <1>1, <2>4
    <3>4. \A t \in Traders : holds'[m][t] = ChainHolds(chain', m, t, i)
      BY <1>1, <2>5
    <3> HIDE DEF i
    <3> QED BY <2>3, <3>1, <3>2, <3>3, <3>4 DEF Upto
  <2> QED BY <2>3, <2>6 DEF InOrder
<1> QED BY <1>4, <1>5

\* A trade of m moves the bucket from the prefix before it to the one that ends with it.
LEMMA OrderTrade ==
    ASSUME TypeOK, ChainInv, NEW m \in Mints, ~Disturbed(m)', InOrder(m), OnTrade
    PROVE  InOrder(m)'
<1> DEFINE i == Head(pumprx)
<1>1. /\ pumprx # <<>> /\ Consumed /\ FeedAside /\ chain[i].kind # "create"
      /\ UNCHANGED <<chain, lost>>
  BY DEF OnTrade, FeedAside
<1>2. i \in DOMAIN chain /\ i \in 1..MaxTx /\ chain[i] \in TxType
  BY <1>1, ConsumeType, TypeParts
<1>3. /\ applied \in [1..MaxTx -> Nat] /\ holds \in [Mints -> {NoBucket} \cup [Traders -> Int]]
      /\ \A j \in DOMAIN chain : j \in 1..MaxTx
  BY ChainDomain DEF TypeOK
<1>4. CASE chain[i].mint # m
  <2>1. holds'[m] = holds[m]
    BY <1>3, <1>4 DEF OnTrade
  <2>2. \A j \in DOMAIN chain \ {i} : applied'[j] = applied[j]
    BY <1>3 DEF OnTrade
  <2> QED BY <1>1, <1>4, <2>1, <2>2, OrderOther
<1>5. CASE chain[i].mint = m
  <2>1. Len(chain) \in Nat /\ DOMAIN chain = 1..Len(chain) /\ i \in 1..Len(chain)
    BY <1>2, OfType
  <2>2. holds[m] # NoBucket
    \* The create was forwarded before the trade, so it has been applied.
    <3>1. PICK c \in DOMAIN chain : c <= i /\ chain[c].kind = "create" /\ chain[c].mint = m
      BY <1>2, <1>5 DEF ChainInv
    <3>2. c # i /\ c < i
      BY <1>1, <2>1, <3>1
    <3>3. c \in Of(m) /\ i \in Of(m)
      BY <1>2, <1>5, <3>1 DEF Of
    <3>4. c \in Done
      <4> DEFINE S == DOMAIN chain
                 M == Of(m)
                 D == Done
      <4>1. pumprx \in Seq(S) /\ Flow(M, D, pumprx, stream, seen)
        BY DEF TypeOK, InOrder
      <4>2. c \in M /\ i \in M
        BY <3>3
      <4> HIDE DEF S, M, D
      <4>3. c \in D
        BY <1>1, <3>2, <4>1, <4>2, FlowApply
      <4> QED BY <4>3 DEF D
    <3> QED BY <3>3, <3>4 DEF InOrder, Upto
  <2>3. /\ holds' = [holds EXCEPT ![m] = UpdateSwarm(holds[m], chain[i])]
        /\ applied' = [applied EXCEPT ![i] = @ + 1]
    BY <1>5, <2>2 DEF OnTrade
  <2>4. applied[i] = 0
    <3>1. applied'[i] = applied[i] + 1 /\ applied[i] \in Nat
      BY <1>2, <1>3, <2>3
    <3>2. ~(applied'[i] > 1)
      BY <1>1, <1>2, <1>5 DEF Disturbed
    <3> QED BY <3>1, <3>2
  <2>5. /\ Flow(Of(m)', Done', pumprx', stream', seen') /\ Of(m)' = Of(m)
        /\ \A j \in Of(m) : (j \in Done' <=> j <= i) /\ (j \in Done <=> j < i)
    BY <1>1, <1>5, <2>3, <2>4, OrderNext
  <2>6. PICK n \in 0..Len(chain) : /\ \A j \in Of(m) : j \in Done <=> j <= n
                                   /\ \A t \in Traders : holds[m][t] = ChainHolds(chain, m, t, n)
    BY <2>2 DEF InOrder, Upto
  <2>7. i \in Of(m) /\ i \in Nat /\ n \in Nat /\ n < i
    <3>1. i \in Of(m)
      BY <1>2, <1>5 DEF Of
    <3>2. ~(i < i)
      BY <2>1
    <3>3. ~(i <= n)
      BY <2>5, <2>6, <3>1, <3>2
    <3> QED BY <2>1, <3>1, <3>3
  <2> DEFINE kind == chain[i].kind
             u == chain[i].trader
  <2>8. u \in Traders /\ kind \in {"buy", "sell"} /\ chain[i] = [kind |-> kind, mint |-> m, trader |-> u]
    BY <1>1, <1>2, <1>5 DEF TxType
  <2>9. /\ holds[m] \in [Traders -> Int]
        /\ holds'[m] = [holds[m] EXCEPT ![u] = @ + (IF kind = "buy" THEN 1 ELSE -1)]
    BY <1>3, <2>2, <2>3 DEF UpdateSwarm
  <2> HIDE DEF kind, u
  <2>10. ASSUME NEW t \in Traders PROVE holds'[m][t] = ChainHolds(chain, m, t, i)
    <3> DEFINE k == i - 1
    <3>1. k \in Nat /\ n <= k /\ k + 1 = i /\ \A j \in (n + 1)..k : j \in 1..Len(chain) /\ j < i /\ ~(j <= n)
      BY <2>1, <2>7
    <3>2. \A j \in (n + 1)..k : chain[j].mint # m
      <4> SUFFICES ASSUME NEW j \in (n + 1)..k, chain[j].mint = m PROVE FALSE
        OBVIOUS
      <4>1. j \in Of(m) /\ j < i /\ ~(j <= n)
        BY <2>1, <3>1 DEF Of
      <4> QED BY <2>5, <2>6, <4>1
    <3> HIDE DEF k
    <3>3. ChainHolds(chain, m, t, k) = ChainHolds(chain, m, t, n)
      BY <2>7, <3>1, <3>2, HoldsFlat
    <3>4. ChainHolds(chain, m, t, i) = ChainHolds(chain, m, t, k) + Gain(chain, i, m, t)
      <4>1. ChainHolds(chain, m, t, k + 1) = ChainHolds(chain, m, t, k) + Gain(chain, k + 1, m, t)
        BY <3>1, HoldsRec
      <4> QED BY <3>1, <4>1
    <3>5. Gain(chain, i, m, t) = IF t = u THEN IF kind = "buy" THEN 1 ELSE -1 ELSE 0
      <4> HIDE DEF i
      <4>1. chain[i] = [kind |-> kind, mint |-> m, trader |-> u]
        BY <2>8
      <4>2. ASSUME NEW x
            PROVE  Gain(chain, i, x, t) = IF x = m /\ t = u
                                          THEN IF kind = "buy" THEN 1 ELSE IF kind = "sell" THEN -1 ELSE 0
                                          ELSE 0
        BY <4>1, GainCases
      <4> QED BY <2>8, <4>2
    <3>6. holds[m][t] = ChainHolds(chain, m, t, n) /\ holds[m][t] \in Int
      BY <2>6, <2>9
    <3>7. CASE t = u
      <4>1. holds'[m][t] = holds[m][t] + (IF kind = "buy" THEN 1 ELSE -1)
        BY <2>8, <2>9, <3>7
      <4> QED BY <3>3, <3>4, <3>5, <3>6, <3>7, <4>1
    <3>8. CASE t # u
      <4>1. holds'[m][t] = holds[m][t]
        BY <2>9, <3>8
      <4> QED BY <3>3, <3>4, <3>5, <3>6, <3>8, <4>1
    <3> QED BY <3>7, <3>8
  <2>11. Upto(m)'
    <3>1. holds'[m] # NoBucket
      <4>1. DOMAIN holds'[m] = Traders /\ u \in Traders
        BY <2>8, <2>9
      <4> QED BY <4>1 DEF NoBucket
    <3>2. i \in 0..Len(chain')
      BY <1>1, <2>1
    <3>3. \A t \in Traders : holds'[m][t] = ChainHolds(chain', m, t, i)
      BY <1>1, <2>10
    <3> HIDE DEF i
    <3> QED BY <2>5, <3>1, <3>2, <3>3 DEF Upto
  <2> QED BY <2>5, <2>11 DEF InOrder
<1> QED BY <1>4, <1>5

LEMMA HoldStep == TypeOK /\ PlaceInv /\ HoldInv /\ [Next]_vars => HoldInv'
<1> SUFFICES ASSUME TypeOK, PlaceInv, HoldInv, [Next]_vars PROVE HoldInv'
  OBVIOUS
<1>0. AppliedInv /\ ChainInv /\ \A m \in Filtered : m \in Mints /\ holds[m] = NoBucket
  BY LedgerAssumption DEF PlaceInv, HoldInv
<1>1. ChainInv'
  <2>1. CASE Transact
    BY <1>0, <2>1, ChainStep
  <2>2. CASE UNCHANGED chain
    BY <1>0, <2>2 DEF ChainInv
  <2> QED BY <2>1, <2>2
          DEF Next, Provider, FeedStep, Redeliver, GoSilent, StreamEnds, Watchdog, Reconnect,
              OnJunk, Subscribe, IdleTime, OnMessage, LedgerStep, OnCreate, OnTrade, FeedAside,
              SaveToken, Persist, WorkerTakes, FlushBatch, vars, feedVars
<1>2. \A m \in Filtered : holds'[m] = NoBucket
  <2> SUFFICES ASSUME NEW m \in Filtered PROVE holds'[m] = NoBucket
    OBVIOUS
  <2>1. holds[m] = NoBucket /\ holds \in [Mints -> {NoBucket} \cup [Traders -> Int]]
    BY <1>0 DEF TypeOK
  <2> DEFINE x == chain[Head(pumprx)].mint
  <2>2. CASE OnCreate
    <3>1. holds' = holds \/ (x \notin Filtered /\ holds' = [holds EXCEPT ![x] = Empty])
      BY <2>2 DEF OnCreate
    <3> HIDE DEF x
    <3> QED BY <1>0, <2>1, <3>1
  <2>3. CASE OnTrade
    <3>1. \/ holds' = holds
          \/ /\ holds[x] # NoBucket
             /\ holds' = [holds EXCEPT ![x] = UpdateSwarm(holds[x], chain[Head(pumprx)])]
      BY <2>3 DEF OnTrade
    <3> HIDE DEF x
    <3> QED BY <1>0, <2>1, <3>1
  <2>4. CASE UNCHANGED holds
    BY <2>1, <2>4
  <2> QED BY <2>2, <2>3, <2>4
          DEF Next, LedgerStep, SaveToken, Persist, WorkerTakes, FlushBatch, vars, ledgerVars
<1>3. ASSUME NEW m \in Mints \ Filtered, ~Disturbed(m)' PROVE InOrder(m)'
  <2>1. InOrder(m)
    BY <1>3, DisturbedStays DEF HoldInv
  <2>2. CASE (Provider \/ FeedStep) /\ UNCHANGED ledgerVars
    BY <1>0, <1>3, <2>1, <2>2, OrderFeed
  <2>3. CASE OnCreate
    BY <1>0, <1>3, <2>1, <2>3, OrderCreate
  <2>4. CASE OnTrade
    BY <1>0, <1>3, <2>1, <2>4, OrderTrade
  <2>5. CASE UNCHANGED <<feedVars, holds, applied>>
    <3>1. UNCHANGED <<chain, applied, holds, pumprx, stream, seen>>
      BY <2>5 DEF feedVars
    <3>2. Flow(Of(m), Done, pumprx', stream', seen')
      BY <2>1, <3>1 DEF InOrder
    <3> QED BY <2>1, <3>1, <3>2, OrderFrame
  <2> QED BY <2>2, <2>3, <2>4, <2>5
          DEF Next, LedgerStep, SaveToken, Persist, WorkerTakes, FlushBatch, vars, ledgerVars
<1> QED BY <1>1, <1>2, <1>3 DEF HoldInv

\* HoldingsExact: without a lost or doubly applied transaction, a swarm is never below zero,
\* and equals the holdings on chain once nothing of its mint is on its way.
THEOREM HoldingsStayExact == Spec => []HoldingsExact
<1>1. Init => HoldInv
  <2> SUFFICES ASSUME Init PROVE HoldInv
    OBVIOUS
  <2>1. chain = <<>> /\ holds = [m \in Mints |-> NoBucket]
    BY DEF Init, FeedInit
  <2>2. DOMAIN chain = {} /\ Len(chain) = 0
    BY <2>1
  <2>3. ChainInv
    <3>1. \A n \in 0..Len(chain) : n = 0
      BY <2>2
    <3>2. \A m \in Mints, t \in Traders, n \in 0..Len(chain) : ChainHolds(chain, m, t, n) = 0
      BY <3>1, HoldsRec
    <3> QED BY <2>2, <3>2 DEF ChainInv
  <2>4. \A m : Of(m) = {}
    BY <2>2 DEF Of
  <2>5. \A m \in Mints : InOrder(m)
    BY <2>1, <2>4 DEF InOrder, Flow, Upto
  <2> QED BY <2>1, <2>3, <2>5, LedgerAssumption DEF HoldInv
<1>2. TypeOK /\ HoldInv => HoldingsExact
  <2> SUFFICES ASSUME TypeOK, HoldInv, NEW m \in Mints, holds[m] # NoBucket, ~Disturbed(m),
                      NEW t \in Traders
               PROVE  /\ holds[m][t] >= 0
                      /\ ~OnItsWay(m) => holds[m][t] = ChainHolds(chain, m, t, Len(chain))
    BY DEF HoldingsExact
  <2>1. InOrder(m)
    BY DEF HoldInv
  <2>2. PICK n \in 0..Len(chain) : /\ \A i \in Of(m) : i \in Done <=> i <= n
                                   /\ holds[m][t] = ChainHolds(chain, m, t, n)
    BY <2>1 DEF InOrder, Upto
  <2>3. holds[m][t] >= 0
    BY <2>2 DEF HoldInv, ChainInv
  <2>4. ASSUME ~OnItsWay(m) PROVE holds[m][t] = ChainHolds(chain, m, t, Len(chain))
    <3>1. Of(m) \subseteq Done
      BY <2>1, <2>4 DEF InOrder, Flow, OnItsWay, Of
    <3>2. Len(chain) \in Nat /\ DOMAIN chain = 1..Len(chain)
      BY OfType
    <3>3. n \in Nat /\ n <= Len(chain) /\ \A i \in (n + 1)..Len(chain) : i \in 1..Len(chain) /\ ~(i <= n)
      BY <3>2
    <3>4. \A i \in (n + 1)..Len(chain) : chain[i].mint # m
      BY <2>2, <3>1, <3>2, <3>3 DEF Of
    <3>5. ChainHolds(chain, m, t, Len(chain)) = ChainHolds(chain, m, t, n)
      BY <3>2, <3>3, <3>4, HoldsFlat
    <3> QED BY <2>2, <3>5
  <2> QED BY <2>3, <2>4
<1> QED BY <1>1, <1>2, PlaceInit, PlaceStep, HoldStep, TypeCorrect, PTL DEF Spec
=============================================================================
