----------------------------- MODULE BrokerProofs -----------------------------
(***************************************************************************)
(* Proofs about the live broker, for any fill, any limits on retries,      *)
(* chunks, slippage steps and drain legs, and any number of calls, faults  *)
(* and transactions in the network.                                        *)
(***************************************************************************)
EXTENDS Broker, FiniteSetTheorems, SequenceTheorems, TLAPS

Notes == {"lied", "short", "unsure", "rechunked", "quoted"}
Results == {"none", "ok", "err", "exhausted"}

-----------------------------------------------------------------------------
(***************************************************************************)
(* The state of a call.                                                    *)
(***************************************************************************)
OnLeg(o) == o.pc \in {"send", "wait", "confirm"}

\* The call works off a list of Jupiter chunks.
Routed(o) == o.pc \in {"quote", "jread"} \/ (OnLeg(o) /\ o.leg.kind \in {"jsell", "jclose"})

\* A partial sell neither closes nor drains, and until Jupiter is tried again it has one
\* leg or one chunk, of no more than it was asked for.
Partial(o, want) ==
    /\ o.pc \notin {"jread", "drain", "rem"} /\ ~o.draining /\ o.size <= want
    /\ OnLeg(o) => /\ o.leg.kind \in {"sell", "jsell"} /\ ~o.leg.close
                   /\ o.leg.kind = "sell" \/ o.parts = 1 => o.leg.amount <= want
    /\ Routed(o) => /\ ~o.jclose
                    /\ o.parts = 1 => Len(o.chunks) = 1 /\ o.chunks[1] <= want

\* What the place of a call says about its leg.
Shape(o, want) ==
    /\ o.pc \in {"prepare", "jquote", "fill"} => o.call = "buy"
    /\ o.pc \in {"size", "route", "quote", "confirm", "jread", "drain", "rem"} => o.call = "sell"
    /\ o.pc \in {"send", "wait"} => o.call = IF o.leg.kind \in {"buy", "jbuy"} THEN "buy" ELSE "sell"
    /\ OnLeg(o) => o.leg.kind # "none"
    /\ o.pc = "confirm" => o.leg.kind \notin {"buy", "jbuy", "jclose"}
    /\ OnLeg(o) /\ o.leg.kind = "drain" => o.legs < MaxLegs
    /\ Routed(o) => o.chunks # <<>> /\ o.parts \in {1, 2}
    /\ o.call = "sell" /\ ~o.full => Partial(o, want)

\* p continues the call o.
Continues(p, o, want) == p \in OpType /\ Shape(p, want) /\ p.call = o.call /\ p.full = o.full

LEMMA IdleType == IdleOp \in OpType
<1>1. <<>> \in Seq(Nat)
  OBVIOUS
<1>2. /\ 0 \in 0..(MaxTries - 1) /\ 0 \in 0..(MaxLive + 1) /\ 0 \in 0..2
      /\ 0 \in 0..SlipSteps /\ 0 \in 0..MaxLegs
  BY BrokerAssumption
<1>3. NoLeg \in LegType
  BY DEF NoLeg, LegType
<1> QED BY <1>1, <1>2, <1>3 DEF IdleOp, OpType

\* A step that ends the call.
LEMMA DoneGood ==
    ASSUME NEW want \in Nat, NEW o \in OpType, Shape(o, want), NEW res \in Results
    PROVE  /\ Continues(Done(o, res), o, want)
           /\ Done(o, res).pc = "return" /\ Done(o, res).parts = 0
<1> DEFINE p == Done(o, res)
<1>1. /\ p.pc = "return" /\ p.call = o.call /\ p.full = o.full /\ p.size = o.size
      /\ p.parts = 0 /\ p.draining = FALSE
  BY DEF Done, IdleOp
<1>2. p \in OpType
  <2>1. IdleOp \in OpType
    BY IdleType
  <2> QED BY <2>1 DEF Done, OpType, Results
<1> HIDE DEF p
<1>3. Shape(p, want)
  BY <1>1 DEF Shape, Partial, Routed, OnLeg, OpType
<1> QED BY <1>1, <1>2, <1>3 DEF p, Continues

\* A step that sends a leg.
LEMMA SendLegFields ==
    ASSUME NEW o \in OpType, NEW kind, NEW amount \in Nat, NEW close \in BOOLEAN,
           kind \in {"buy", "jbuy", "sell", "drain", "dclose", "jsell", "jclose"}
    PROVE  LET p == SendLeg(o, kind, amount, close)
           IN  /\ p \in OpType
               /\ p.pc = "send" /\ p.call = o.call /\ p.full = o.full /\ p.size = o.size
               /\ p.clamped = o.clamped /\ p.pre = o.pre /\ p.parts = o.parts
               /\ p.chunks = o.chunks /\ p.jamt = o.jamt /\ p.jpre = o.jpre /\ p.cpre = o.cpre
               /\ p.jclose = o.jclose /\ p.draining = o.draining /\ p.legs = o.legs
               /\ p.leg.kind = kind /\ p.leg.amount = amount /\ p.leg.close = close
<1> DEFINE leg == [kind |-> kind, amount |-> amount, close |-> close]
           p == SendLeg(o, kind, amount, close)
<1>1. leg \in LegType /\ leg.kind = kind /\ leg.amount = amount /\ leg.close = close
  BY DEF LegType
<1>2. p = [o EXCEPT !.pc = "send", !.tries = 0, !.tx = 0, !.leg = leg]
  BY DEF SendLeg
<1> HIDE DEF leg, p
<1>3. 0 \in 0..(MaxTries - 1) /\ 0 \in 0..(MaxLive + 1)
  BY BrokerAssumption
<1>4. p \in OpType
  BY <1>1, <1>2, <1>3 DEF OpType
<1>5. /\ p.pc = "send" /\ p.call = o.call /\ p.full = o.full /\ p.size = o.size
      /\ p.clamped = o.clamped /\ p.pre = o.pre /\ p.parts = o.parts
      /\ p.chunks = o.chunks /\ p.jamt = o.jamt /\ p.jpre = o.jpre /\ p.cpre = o.cpre
      /\ p.jclose = o.jclose /\ p.draining = o.draining /\ p.legs = o.legs /\ p.leg = leg
  BY <1>2 DEF OpType
<1> QED BY <1>1, <1>4, <1>5 DEF p

\* The chunks add up to the amount: all but the last are equal, and the last takes the rest.
LEMMA ChunksCover ==
    ASSUME NEW total \in Nat, NEW parts \in Nat \ {0}
    PROVE  LET c == ChunkAmounts(total, parts)
               n == Len(c)
               q == total \div parts
           IN  /\ c \in Seq(Nat) /\ n \in Nat \ {0}
               /\ \A i \in 1..(n - 1) : c[i] = q
               /\ total <= (n - 1) * q + c[n]
               /\ parts = 1 => n = 1 /\ c[1] = total
<1> DEFINE c == ChunkAmounts(total, parts)
           q == total \div parts
<1>1. q \in Nat /\ q * parts <= total
  OBVIOUS
<1>2. CASE parts <= 1 \/ total < parts * MinChunk
  <2>1. c = <<total>>
    BY <1>2 DEF ChunkAmounts
  <2>2. c \in Seq(Nat) /\ Len(c) = 1 /\ c[1] = total
    BY <2>1
  <2> HIDE DEF c, q
  <2>3. total <= (1 - 1) * q + total /\ 1..(1 - 1) = {}
    BY <1>1
  <2> QED BY <2>2, <2>3 DEF c, q
<1>3. CASE ~(parts <= 1 \/ total < parts * MinChunk)
  <2>1. c = [i \in 1..parts |-> IF i < parts THEN q ELSE total - q * (parts - 1)]
    BY <1>3 DEF ChunkAmounts
  <2> HIDE DEF c, q
  <2>2. q * (parts - 1) = q * parts - q /\ q * (parts - 1) \in Int /\ q * parts \in Int
    BY <1>1
  <2>3. total - q * (parts - 1) \in Nat
    BY <1>1, <2>2
  <2>4. c \in [1..parts -> Nat]
    BY <1>1, <2>1, <2>3
  <2>5. c \in Seq(Nat) /\ Len(c) = parts
    BY <2>4
  <2>6. c[parts] = total - q * (parts - 1) /\ \A i \in 1..(parts - 1) : c[i] = q
    BY <2>1
  <2>7. (parts - 1) * q = q * (parts - 1)
    BY <1>1
  <2>8. total <= (parts - 1) * q + c[parts]
    BY <1>1, <2>2, <2>6, <2>7
  <2> QED BY <1>3, <2>5, <2>6, <2>8 DEF c, q
<1> QED BY <1>2, <1>3

\* The balance before the next chunk is covered by the chunks that are left.
Covered(o) ==
    LET n == Len(o.chunks)
        q == o.jamt \div ChunkParts
    IN  /\ \A i \in 1..(n - 1) : o.chunks[i] = q
        /\ o.cpre <= (n - 1) * q + o.chunks[n]

LEMMA QuotingFields ==
    ASSUME NEW o \in OpType
    PROVE  LET p == Quoting(o)
           IN  /\ p \in OpType
               /\ p.pc = "quote" /\ p.call = o.call /\ p.full = o.full /\ p.size = o.size
               /\ p.clamped = o.clamped /\ p.parts = o.parts /\ p.chunks = o.chunks
               /\ p.jamt = o.jamt /\ p.jpre = o.jpre /\ p.cpre = o.cpre
               /\ p.jclose = o.jclose /\ p.draining = o.draining
<1> DEFINE p == Quoting(o)
<1>1. /\ 0 \in 0..(MaxTries - 1) /\ 0 \in 0..(MaxLive + 1) /\ 0 \in 0..SlipSteps
      /\ NoLeg \in LegType
  BY BrokerAssumption DEF NoLeg, LegType
<1>2. p \in OpType
  BY <1>1 DEF Quoting, OpType
<1>3. /\ p.pc = "quote" /\ p.call = o.call /\ p.full = o.full /\ p.size = o.size
      /\ p.clamped = o.clamped /\ p.parts = o.parts /\ p.chunks = o.chunks
      /\ p.jamt = o.jamt /\ p.jpre = o.jpre /\ p.cpre = o.cpre
      /\ p.jclose = o.jclose /\ p.draining = o.draining
  BY DEF Quoting, OpType
<1> QED BY <1>2, <1>3

\* Jupiter takes over with one chunk.
LEMMA StartJupiterGood ==
    ASSUME NEW want \in Nat, NEW o \in OpType, o.call = "sell",
           NEW pre \in Nat, NEW amount \in Nat, NEW close \in BOOLEAN,
           ~o.full => ~o.draining /\ o.size <= want /\ amount <= want /\ ~close
    PROVE  LET p == StartJupiter(o, pre, amount, close)
           IN  /\ Continues(p, o, want)
               /\ p.pc = "quote" /\ p.parts = 1 /\ p.draining = o.draining /\ p.clamped = o.clamped
               /\ p.jclose = close /\ p.jpre = pre /\ p.jamt = amount
               /\ pre <= amount => Covered(p)
<1> DEFINE c == ChunkAmounts(amount, 1)
           x == [o EXCEPT !.parts = 1, !.chunks = c, !.jamt = amount,
                          !.jpre = pre, !.cpre = pre, !.jclose = close]
           p == Quoting(x)
<1>1. StartJupiter(o, pre, amount, close) = p
  BY DEF StartJupiter
<1>2. c \in Seq(Nat) /\ Len(c) = 1 /\ c[1] = amount /\ c # <<>>
  BY ChunksCover
<1> HIDE DEF c
<1>3. x \in OpType
  <2>1. 1 \in 0..2
    OBVIOUS
  <2> QED BY <1>2, <2>1 DEF OpType
<1>4. /\ x.call = o.call /\ x.full = o.full /\ x.size = o.size /\ x.clamped = o.clamped
      /\ x.parts = 1 /\ x.chunks = c /\ x.jamt = amount /\ x.jpre = pre /\ x.cpre = pre
      /\ x.jclose = close /\ x.draining = o.draining
  BY DEF OpType
<1> HIDE DEF x
<1>5. /\ p \in OpType /\ p.pc = "quote" /\ p.call = o.call /\ p.full = o.full /\ p.size = o.size
      /\ p.clamped = o.clamped /\ p.parts = 1 /\ p.chunks = c /\ p.jamt = amount /\ p.jpre = pre
      /\ p.cpre = pre /\ p.jclose = close /\ p.draining = o.draining
  BY <1>3, <1>4, QuotingFields
<1> HIDE DEF p
<1>6. Shape(p, want)
  BY <1>2, <1>5 DEF Shape, Partial, Routed, OnLeg
<1>7. ASSUME pre <= amount PROVE Covered(p)
  <2> DEFINE q == amount \div ChunkParts
  <2>1. q \in Nat
    BY BrokerAssumption
  <2> HIDE DEF q
  <2>2. (1 - 1) * q = 0 /\ 1..(1 - 1) = {}
    BY <2>1
  <2>3. pre <= (1 - 1) * q + amount
    BY <1>7, <2>2
  <2> QED BY <1>2, <1>5, <2>2, <2>3 DEF Covered, q
<1> QED BY <1>1, <1>5, <1>6, <1>7 DEF Continues

\* What the place of a full exit says about the balance a of the ATA, as long as nothing
\* has cut the exit short.
ExitShape(o, a) ==
    /\ o.pc = "return" /\ o.res = "ok" => a <= 0
    /\ o.pc = "route" => a <= o.size
    /\ OnLeg(o) /\ o.leg.kind = "sell" /\ ~o.clamped => o.leg.close /\ o.pre <= o.leg.amount
    /\ OnLeg(o) /\ o.leg.kind \in {"drain", "dclose"} => o.draining
    /\ o.pc \in {"drain", "rem"} => o.draining
    /\ Routed(o) /\ ~o.draining =>
         /\ o.jclose /\ o.jpre <= o.jamt /\ Covered(o)
         /\ OnLeg(o) /\ o.leg.kind = "jsell" => o.leg.amount = o.chunks[1]
         /\ o.pc = "jread" \/ (OnLeg(o) /\ o.leg.kind = "jclose") => a <= 0 /\ Len(o.chunks) = 1

\* A chunk fails: everything again in chunks, or the call fails.
LEMMA ChunkFailedGood ==
    ASSUME NEW want \in Nat, NEW o \in OpType, Shape(o, want), Routed(o), o.call = "sell"
    PROVE  LET p == ChunkFailed(o)
           IN  /\ Continues(p, o, want)
               /\ IF o.parts = 1 THEN p.pc = "quote" /\ p.parts = 2 ELSE p.pc = "return" /\ p.parts = 0
               /\ \A a \in Int : o.full /\ ExitShape(o, a) => ExitShape(p, a)
<1> DEFINE p == ChunkFailed(o)
<1>1. CASE o.parts = 1
  <2> DEFINE c == ChunkAmounts(o.jamt, ChunkParts)
             x == [o EXCEPT !.parts = 2, !.chunks = c, !.cpre = o.jpre]
             n == Len(c)
             q == o.jamt \div ChunkParts
  <2>1. p = Quoting(x)
    BY <1>1 DEF ChunkFailed
  <2>2. o.jamt \in Nat /\ o.jpre \in Nat /\ ChunkParts \in Nat \ {0}
    BY BrokerAssumption DEF OpType
  <2>3. /\ c \in Seq(Nat) /\ n \in Nat \ {0}
        /\ \A i \in 1..(n - 1) : c[i] = q
        /\ o.jamt <= (n - 1) * q + c[n]
    BY <2>2, ChunksCover
  <2>4. c # <<>>
    BY <2>3
  <2>5. q \in Nat /\ (n - 1) * q \in Nat /\ c[n] \in Nat
    <3>1. q \in Nat
      BY <2>2
    <3>2. c[n] \in Nat
      BY <2>3
    <3> HIDE DEF q, n
    <3>3. n - 1 \in Nat
      BY <2>3
    <3> QED BY <3>1, <3>2, <3>3
  <2> HIDE DEF c
  <2>6. x \in OpType
    <3>1. 2 \in 0..2
      OBVIOUS
    <3> QED BY <2>2, <2>3, <3>1 DEF OpType
  <2>7. /\ x.call = o.call /\ x.full = o.full /\ x.size = o.size /\ x.clamped = o.clamped
        /\ x.parts = 2 /\ x.chunks = c /\ x.jamt = o.jamt /\ x.jpre = o.jpre /\ x.cpre = o.jpre
        /\ x.jclose = o.jclose /\ x.draining = o.draining
    BY DEF OpType
  <2> HIDE DEF x
  <2>8. /\ p \in OpType /\ p.pc = "quote" /\ p.call = o.call /\ p.full = o.full /\ p.size = o.size
        /\ p.clamped = o.clamped /\ p.parts = 2 /\ p.chunks = c /\ p.jamt = o.jamt /\ p.jpre = o.jpre
        /\ p.cpre = o.jpre /\ p.jclose = o.jclose /\ p.draining = o.draining
    BY <2>1, <2>6, <2>7, QuotingFields
  <2> HIDE DEF p
  <2>9. Shape(p, want)
    BY <2>4, <2>8 DEF Shape, Partial, Routed, OnLeg
  <2>10. o.jpre <= o.jamt => Covered(p)
    <3>1. o.jpre <= o.jamt => o.jpre <= (n - 1) * q + c[n]
      <4> HIDE DEF n, q
      <4> QED BY <2>2, <2>3, <2>5
    <3> QED BY <2>3, <2>8, <3>1 DEF Covered
  <2>11. \A a \in Int : o.full /\ ExitShape(o, a) => ExitShape(p, a)
    BY <2>8, <2>10 DEF ExitShape, Routed, OnLeg
  <2> QED BY <1>1, <2>8, <2>9, <2>11 DEF p, Continues
<1>2. CASE o.parts # 1
  <2>1. p = Done(o, "exhausted")
    BY <1>2 DEF ChunkFailed
  <2>2. Continues(p, o, want) /\ p.pc = "return" /\ p.parts = 0
    BY <2>1, DoneGood DEF Results
  <2>3. p.res = "exhausted"
    BY <2>1 DEF Done, IdleOp
  <2> HIDE DEF p
  <2>4. \A a \in Int : ExitShape(p, a)
    BY <2>2, <2>3 DEF ExitShape, Routed, OnLeg
  <2> QED BY <1>2, <2>2, <2>4 DEF p
<1> QED BY <1>1, <1>2

\* A chunk is done: the next one, or the end of the sale.
LEMMA ChunkDoneGood ==
    ASSUME NEW want \in Nat, NEW o \in OpType, Shape(o, want), Routed(o), o.call = "sell"
    PROVE  LET p == ChunkDone(o)
           IN  /\ Continues(p, o, want)
               /\ p.pc \in {"quote", "rem", "return"} /\ p.parts \in {o.parts, 0}
               /\ p.pc = "quote" => Len(o.chunks) # 1
               /\ \A a \in Int : /\ o.full /\ ExitShape(o, a)
                                 /\ Len(o.chunks) = 1 => a <= 0 \/ o.draining
                                 => ExitShape(p, a)
<1> DEFINE p == ChunkDone(o)
           h == Head(o.chunks)
           t == Tail(o.chunks)
           cp == IF o.cpre > h THEN o.cpre - h ELSE 0
           x == [o EXCEPT !.chunks = t, !.cpre = cp]
           n == Len(o.chunks)
<1>1. /\ o.chunks \in Seq(Nat) /\ o.chunks # <<>> /\ o.cpre \in Nat /\ o.parts \in {1, 2}
      /\ o.jamt \in Nat
  BY DEF OpType, Shape
<1>2. /\ h \in Nat /\ h = o.chunks[1] /\ t \in Seq(Nat) /\ n \in Nat \ {0} /\ Len(t) = n - 1
      /\ t = <<>> <=> n = 1
      /\ \A i \in 1..(n - 1) : t[i] = o.chunks[i + 1]
  <2> DEFINE c == o.chunks
  <2>1. c \in Seq(Nat) /\ c # <<>>
    BY <1>1
  <2> HIDE DEF c
  <2>2. Head(c) \in Nat /\ Head(c) = c[1] /\ Tail(c) \in Seq(Nat) /\ Len(c) \in Nat \ {0}
    BY <2>1
  <2>3. Len(Tail(c)) = Len(c) - 1 /\ \A i \in 1..(Len(c) - 1) : Tail(c)[i] = c[i + 1]
    BY <2>1
  <2>4. Tail(c) = <<>> <=> Len(c) = 1
    <3>1. \A s \in Seq(Nat) : s = <<>> <=> Len(s) = 0
      OBVIOUS
    <3>2. Tail(c) = <<>> <=> Len(Tail(c)) = 0
      BY <2>2, <3>1
    <3> QED BY <2>2, <2>3, <3>2
  <2> QED BY <2>2, <2>3, <2>4 DEF c
<1>3. p = IF x.chunks # <<>> THEN Quoting(x)
          ELSE IF x.draining THEN [x EXCEPT !.pc = "rem", !.tx = 0] ELSE Done(x, "ok")
  BY DEF ChunkDone
<1>4. cp \in Nat
  BY <1>1, <1>2
<1> HIDE DEF h, t, n, cp
<1>5. x \in OpType
  BY <1>2, <1>4 DEF OpType
<1>6. /\ x.call = o.call /\ x.full = o.full /\ x.size = o.size /\ x.clamped = o.clamped
      /\ x.parts = o.parts /\ x.chunks = t /\ x.jamt = o.jamt /\ x.jpre = o.jpre /\ x.cpre = cp
      /\ x.jclose = o.jclose /\ x.draining = o.draining /\ x.pc = o.pc /\ x.leg = o.leg
  BY DEF OpType
<1> HIDE DEF x
<1>7. CASE t # <<>>
  <2>1. p = Quoting(x)
    <3>1. x.chunks # <<>>
      BY <1>6, <1>7
    <3> HIDE DEF p
    <3> QED BY <1>3, <3>1
  <2>2. /\ p \in OpType /\ p.pc = "quote" /\ p.call = o.call /\ p.full = o.full /\ p.size = o.size
        /\ p.clamped = o.clamped /\ p.parts = o.parts /\ p.chunks = t /\ p.jamt = o.jamt
        /\ p.jpre = o.jpre /\ p.cpre = cp /\ p.jclose = o.jclose /\ p.draining = o.draining
    BY <1>5, <1>6, <2>1, QuotingFields
  <2> HIDE DEF p
  <2>3. n # 1
    BY <1>2, <1>7
  <2>4. Shape(p, want)
    BY <1>1, <1>7, <2>2, <2>3 DEF Shape, Partial, Routed, OnLeg, n
  <2>5. Covered(o) => Covered(p)
    <3> DEFINE q == o.jamt \div ChunkParts
    <3>1. q \in Nat
      <4>1. o.jamt \in Nat /\ ChunkParts \in Nat \ {0}
        BY <1>1, BrokerAssumption
      <4> QED BY <4>1
    <3> HIDE DEF q
    <3>2. n - 1 \in Nat \ {0} /\ n \in 1..n /\ n - 1 \in 1..(n - 1) /\ (n - 1) + 1 = n
      BY <1>2, <2>3
    <3>3. t[n - 1] = o.chunks[n] /\ o.chunks[n] \in Nat
      <4>1. t[n - 1] = o.chunks[(n - 1) + 1]
        BY <1>2, <3>2
      <4>2. o.chunks[n] \in Nat
        BY <1>1, <3>2 DEF n
      <4> QED BY <3>2, <4>1, <4>2
    <3>4. (n - 1) * q = ((n - 1) - 1) * q + q /\ ((n - 1) - 1) * q \in Nat
      <4> DEFINE m == n - 1
      <4>1. m \in Nat \ {0}
        BY <3>2
      <4> HIDE DEF m
      <4>2. m * q = (m - 1) * q + q /\ (m - 1) * q \in Nat
        BY <3>1, <4>1
      <4> QED BY <4>2 DEF m
    <3> SUFFICES ASSUME /\ \A i \in 1..(n - 1) : o.chunks[i] = q
                        /\ o.cpre <= (n - 1) * q + o.chunks[n]
                 PROVE  /\ \A i \in 1..((n - 1) - 1) : t[i] = q
                        /\ cp <= ((n - 1) - 1) * q + t[n - 1]
      BY <1>2, <2>2 DEF Covered, q, n
    <3>5. h = q
      BY <1>2, <3>2
    <3>6. \A i \in 1..((n - 1) - 1) : i \in 1..(n - 1) /\ i + 1 \in 1..(n - 1)
      BY <1>2
    <3>7. cp <= ((n - 1) - 1) * q + t[n - 1]
      <4> DEFINE r == ((n - 1) - 1) * q
                 l == o.chunks[n]
      <4>1. r \in Nat /\ l \in Nat /\ o.cpre \in Nat /\ o.cpre <= (r + q) + l /\ t[n - 1] = l
        BY <1>1, <3>3, <3>4
      <4> HIDE DEF r, l
      <4>2. cp <= r + l
        BY <3>1, <3>5, <4>1 DEF cp
      <4> QED BY <4>1, <4>2 DEF r
    <3> QED BY <1>2, <3>6, <3>7
  <2>6. \A a \in Int : o.full /\ ExitShape(o, a) => ExitShape(p, a)
    BY <2>2, <2>5 DEF ExitShape, Routed, OnLeg
  <2> QED BY <2>2, <2>3, <2>4, <2>6 DEF p, n, Continues
<1>8. CASE t = <<>> /\ o.draining
  <2>1. p = [x EXCEPT !.pc = "rem", !.tx = 0]
    BY <1>3, <1>6, <1>8
  <2>2. /\ p.pc = "rem" /\ p.call = o.call /\ p.full = o.full /\ p.parts = o.parts
        /\ p.draining = o.draining
    BY <1>5, <1>6, <2>1 DEF OpType
  <2>3. p \in OpType
    <3>1. 0 \in 0..(MaxLive + 1)
      BY BrokerAssumption
    <3> QED BY <1>5, <2>1, <3>1 DEF OpType
  <2> HIDE DEF p
  <2>4. Shape(p, want)
    BY <1>8, <2>2 DEF Shape, Partial, Routed, OnLeg
  <2>5. \A a \in Int : ExitShape(p, a)
    BY <1>8, <2>2 DEF ExitShape, Routed, OnLeg
  <2> QED BY <2>2, <2>3, <2>4, <2>5 DEF p, Continues
<1>9. CASE t = <<>> /\ ~o.draining
  <2>1. p = Done(x, "ok")
    BY <1>3, <1>6, <1>9
  <2>2. /\ p.pc = "return" /\ p.call = o.call /\ p.full = o.full /\ p.size = o.size
        /\ p.parts = 0 /\ p.draining = FALSE
    BY <1>6, <2>1 DEF Done, IdleOp
  <2>3. p \in OpType
    <3>1. IdleOp \in OpType
      BY IdleType
    <3> QED BY <1>5, <2>1, <3>1 DEF Done, OpType
  <2> HIDE DEF p
  <2>4. Shape(p, want)
    BY <2>2 DEF Shape, Partial, Routed, OnLeg
  <2>5. \A a \in Int : (n = 1 => a <= 0) => ExitShape(p, a)
    BY <1>2, <1>9, <2>2 DEF ExitShape, Routed, OnLeg
  <2> QED BY <1>9, <2>2, <2>3, <2>4, <2>5 DEF p, n, Continues
<1> QED BY <1>7, <1>8, <1>9

\* A step that only moves on to the next place of the call.
LEMMA MoveFields ==
    ASSUME NEW o \in OpType, NEW pc \in {"jquote", "fill", "confirm"}
    PROVE  LET p == [o EXCEPT !.pc = pc, !.tx = 0]
           IN  /\ p \in OpType /\ p.pc = pc
               /\ p.call = o.call /\ p.full = o.full /\ p.size = o.size /\ p.clamped = o.clamped
               /\ p.pre = o.pre /\ p.leg = o.leg /\ p.parts = o.parts /\ p.chunks = o.chunks
               /\ p.jamt = o.jamt /\ p.jpre = o.jpre /\ p.cpre = o.cpre /\ p.jclose = o.jclose
               /\ p.draining = o.draining /\ p.legs = o.legs
<1> DEFINE p == [o EXCEPT !.pc = pc, !.tx = 0]
<1>1. p \in OpType
  <2>1. 0 \in 0..(MaxLive + 1)
    BY BrokerAssumption
  <2> QED BY <2>1 DEF OpType
<1>2. /\ p.pc = pc
      /\ p.call = o.call /\ p.full = o.full /\ p.size = o.size /\ p.clamped = o.clamped
      /\ p.pre = o.pre /\ p.leg = o.leg /\ p.parts = o.parts /\ p.chunks = o.chunks
      /\ p.jamt = o.jamt /\ p.jpre = o.jpre /\ p.cpre = o.cpre /\ p.jclose = o.jclose
      /\ p.draining = o.draining /\ p.legs = o.legs
  BY DEF OpType
<1> QED BY <1>1, <1>2

\* Places of a buy or a partial sell from which it may still send.
Unsent == {"prepare", "jquote", "send", "size", "route", "quote"}

\* A leg was sent and is not awaited any longer.
LEMMA OnSentGood ==
    ASSUME NEW want \in Nat, NEW o \in OpType, Shape(o, want), o.pc \in {"send", "wait"}
    PROVE  LET p == OnSent(o)
           IN  /\ Continues(p, o, want)
               /\ p.pc \in {"fill", "confirm", "quote", "rem", "return"} /\ p.parts \in {o.parts, 0}
               /\ o.call = "buy" \/ ~o.full => p.pc \notin Unsent
               /\ \A a \in Int : o.call = "sell" /\ o.full /\ ExitShape(o, a) => ExitShape(p, a)
<1> DEFINE p == OnSent(o)
<1>1. CASE o.leg.kind \in {"buy", "jbuy"}
  <2>1. p = [o EXCEPT !.pc = "fill", !.tx = 0]
    BY <1>1 DEF OnSent
  <2> HIDE DEF p
  <2>2. /\ p \in OpType /\ p.pc = "fill" /\ p.call = o.call /\ p.full = o.full /\ p.parts = o.parts
    BY <2>1, MoveFields
  <2>3. o.call = "buy"
    BY <1>1 DEF Shape
  <2>4. Shape(p, want)
    BY <2>2, <2>3 DEF Shape, Routed, OnLeg
  <2> QED BY <2>2, <2>3, <2>4 DEF p, Continues, Unsent
<1>2. CASE o.leg.kind = "jclose"
  <2>1. p = ChunkDone(o)
    BY <1>2 DEF OnSent
  <2>2. Routed(o) /\ o.call = "sell" /\ o.full
    BY <1>2 DEF Shape, Routed, OnLeg, Partial, OpType
  <2>3. \A a \in Int : ExitShape(o, a) => o.draining \/ (a <= 0 /\ Len(o.chunks) = 1)
    BY <1>2, <2>2 DEF ExitShape, OnLeg, OpType
  <2> HIDE DEF p
  <2> QED BY <2>1, <2>2, <2>3, ChunkDoneGood DEF p
<1>3. CASE o.leg.kind \notin {"buy", "jbuy", "jclose"}
  <2>1. p = [o EXCEPT !.pc = "confirm", !.tx = 0]
    BY <1>3 DEF OnSent
  <2> HIDE DEF p
  <2>2. /\ p \in OpType /\ p.pc = "confirm" /\ p.call = o.call /\ p.full = o.full /\ p.size = o.size
        /\ p.clamped = o.clamped /\ p.pre = o.pre /\ p.leg = o.leg /\ p.parts = o.parts
        /\ p.chunks = o.chunks /\ p.jamt = o.jamt /\ p.jpre = o.jpre /\ p.cpre = o.cpre
        /\ p.jclose = o.jclose /\ p.draining = o.draining /\ p.legs = o.legs
    BY <2>1, MoveFields
  <2>3. Shape(p, want)
    BY <1>3, <2>2 DEF Shape, Partial, Routed, OnLeg
  <2>4. \A a \in Int : ExitShape(o, a) => ExitShape(p, a)
    BY <1>3, <2>2 DEF ExitShape, Covered, Routed, OnLeg
  <2> QED BY <2>2, <2>3, <2>4 DEF p, Continues, Unsent
<1> QED BY <1>1, <1>2, <1>3

\* A leg failed with an error of class e.
LEMMA OnFailedGood ==
    ASSUME NEW want \in Nat, NEW o \in OpType, Shape(o, want), o.pc \in {"send", "wait"}, NEW e
    PROVE  LET p == OnFailed(o, e)
           IN  /\ Continues(p, o, want)
               /\ p.pc \in {"jquote", "quote", "rem", "return"}
               /\ p.parts = 2 => o.parts = 2 \/ "rechunked" \in Rerouted(o, p)
               /\ /\ o.call = "buy" \/ ~o.full
                  /\ p.pc \in Unsent
                  => e \in {"6005", "slip"} \/ "rechunked" \in Rerouted(o, p)
               /\ \A a \in Int : /\ o.call = "sell" /\ o.full /\ ExitShape(o, a)
                                 /\ "short" \notin Rerouted(o, p)
                                 => ExitShape(p, a)
<1> DEFINE p == OnFailed(o, e)
\* What is left to show, once p is known to be q.
<1> DEFINE Goal(q) ==
             /\ Continues(q, o, want)
             /\ q.pc \in {"jquote", "quote", "rem", "return"}
             /\ q.parts = 2 => o.parts = 2 \/ "rechunked" \in Rerouted(o, q)
             /\ /\ o.call = "buy" \/ ~o.full
                /\ q.pc \in Unsent
                => e \in {"6005", "slip"} \/ "rechunked" \in Rerouted(o, q)
             /\ \A a \in Int : /\ o.call = "sell" /\ o.full /\ ExitShape(o, a)
                               /\ "short" \notin Rerouted(o, q)
                               => ExitShape(q, a)
<1>1. Goal(Done(o, "err"))
  <2> DEFINE q == Done(o, "err")
  <2>1. Continues(q, o, want) /\ q.pc = "return" /\ q.parts = 0
    BY DoneGood DEF Results
  <2>2. q.res = "err"
    BY DEF Done, IdleOp
  <2> HIDE DEF q
  <2>3. \A a \in Int : ExitShape(q, a)
    BY <2>1, <2>2 DEF ExitShape, Routed, OnLeg
  <2> QED BY <2>1, <2>3 DEF q, Unsent
<1>2. CASE o.leg.kind = "buy"
  <2>1. p = IF e = "6005" THEN [o EXCEPT !.pc = "jquote", !.tx = 0] ELSE Done(o, "err")
    BY <1>2 DEF OnFailed
  <2>2. CASE e = "6005"
    <3> DEFINE q == [o EXCEPT !.pc = "jquote", !.tx = 0]
    <3>1. q \in OpType /\ q.pc = "jquote" /\ q.call = o.call /\ q.full = o.full /\ q.parts = o.parts
      BY MoveFields
    <3>2. o.call = "buy"
      BY <1>2 DEF Shape
    <3>3. p = q
      BY <2>1, <2>2
    <3> HIDE DEF q, p
    <3>4. Shape(q, want)
      BY <3>1, <3>2 DEF Shape, Routed, OnLeg
    <3>5. Goal(q)
      BY <2>2, <3>1, <3>2, <3>4 DEF Continues
    <3> QED BY <3>3, <3>5 DEF p
  <2>3. CASE e # "6005"
    BY <1>1, <2>1, <2>3
  <2> QED BY <2>2, <2>3
<1>3. CASE o.leg.kind = "sell"
  <2>1. p = IF e = "6005" /\ o.leg.amount > 0
            THEN StartJupiter(o, o.pre, o.leg.amount, o.leg.close) ELSE Done(o, "err")
    BY <1>3 DEF OnFailed
  <2>2. CASE e = "6005" /\ o.leg.amount > 0
    <3> DEFINE q == StartJupiter(o, o.pre, o.leg.amount, o.leg.close)
    <3>1. /\ o.call = "sell" /\ o.pre \in Nat /\ o.leg.amount \in Nat /\ o.leg.close \in BOOLEAN
          /\ ~o.full => ~o.draining /\ o.size <= want /\ o.leg.amount <= want /\ ~o.leg.close
      BY <1>3 DEF Shape, Partial, OnLeg, OpType, LegType
    <3>2. /\ Continues(q, o, want) /\ q.pc = "quote" /\ q.parts = 1 /\ q.draining = o.draining
          /\ q.jclose = o.leg.close /\ q.jpre = o.pre /\ q.jamt = o.leg.amount
          /\ o.pre <= o.leg.amount => Covered(q)
      BY <3>1, StartJupiterGood
    <3>3. p = q
      BY <2>1, <2>2
    <3> HIDE DEF q, p
    <3>4. ASSUME NEW a \in Int, o.full, ExitShape(o, a), "short" \notin Rerouted(o, q)
          PROVE  ExitShape(q, a)
      <4>1. ~o.clamped
        BY <1>3, <3>2, <3>4 DEF Rerouted
      <4> QED BY <1>3, <3>2, <3>4, <4>1 DEF ExitShape, Routed, OnLeg
    <3>5. Goal(q)
      BY <2>2, <3>2, <3>4
    <3> QED BY <3>3, <3>5 DEF p
  <2>3. CASE ~(e = "6005" /\ o.leg.amount > 0)
    BY <1>1, <2>1, <2>3
  <2> QED BY <2>2, <2>3
<1>4. CASE o.leg.kind = "drain"
  <2>1. p = IF e = "6005" THEN StartJupiter(o, o.pre, o.pre, TRUE) ELSE Done(o, "err")
    BY <1>4 DEF OnFailed
  <2>2. CASE e = "6005"
    <3> DEFINE q == StartJupiter(o, o.pre, o.pre, TRUE)
    <3>1. o.call = "sell" /\ o.full /\ o.pre \in Nat /\ TRUE \in BOOLEAN
      BY <1>4 DEF Shape, Partial, OnLeg, OpType
    <3>2. Continues(q, o, want) /\ q.pc = "quote" /\ q.parts = 1 /\ q.draining = o.draining
      <4> DEFINE yes == TRUE
      <4>1. yes \in BOOLEAN /\ q = StartJupiter(o, o.pre, o.pre, yes)
        OBVIOUS
      <4> HIDE DEF yes, q
      <4> QED BY <3>1, <4>1, StartJupiterGood
    <3>3. p = q
      BY <2>1, <2>2
    <3> HIDE DEF q, p
    <3>4. ASSUME NEW a \in Int, ExitShape(o, a) PROVE ExitShape(q, a)
      BY <1>4, <3>2, <3>4 DEF ExitShape, Routed, OnLeg
    <3>5. Goal(q)
      BY <2>2, <3>2, <3>4
    <3> QED BY <3>3, <3>5 DEF p
  <2>3. CASE e # "6005"
    BY <1>1, <2>1, <2>3
  <2> QED BY <2>2, <2>3
<1>5. CASE o.leg.kind = "jsell"
  <2>0. Routed(o) /\ o.call = "sell" /\ o.parts \in {1, 2} /\ o.chunks # <<>>
    BY <1>5 DEF Shape, Routed, OnLeg
  <2>1. p = CASE e = "6005" /\ ~o.rebuilt -> [o EXCEPT !.pc = "quote", !.rebuilt = TRUE, !.tx = 0]
              [] e = "slip" /\ o.slip < SlipSteps ->
                    [o EXCEPT !.pc = "quote", !.slip = @ + 1, !.rebuilt = FALSE, !.tx = 0]
              [] OTHER -> ChunkFailed(o)
    BY <1>5 DEF OnFailed
  <2>2. ASSUME NEW q \in OpType, q.pc = "quote", q.call = o.call, q.full = o.full, q.size = o.size,
               q.clamped = o.clamped, q.parts = o.parts, q.chunks = o.chunks, q.jamt = o.jamt,
               q.jpre = o.jpre, q.cpre = o.cpre, q.jclose = o.jclose, q.draining = o.draining,
               e \in {"6005", "slip"}
        PROVE  Goal(q)
    <3>1. Shape(q, want)
      BY <1>5, <2>0, <2>2 DEF Shape, Partial, Routed, OnLeg
    <3>2. \A a \in Int : ExitShape(o, a) => ExitShape(q, a)
      BY <1>5, <2>0, <2>2 DEF ExitShape, Covered, Routed, OnLeg
    <3> QED BY <2>2, <3>1, <3>2 DEF Continues
  <2>3. CASE e = "6005" /\ ~o.rebuilt
    <3> DEFINE q == [o EXCEPT !.pc = "quote", !.rebuilt = TRUE, !.tx = 0]
    <3>1. p = q
      BY <2>1, <2>3
    <3>2. q \in OpType
      <4>1. 0 \in 0..(MaxLive + 1)
        BY BrokerAssumption
      <4> QED BY <4>1 DEF OpType
    <3>3. /\ q.pc = "quote" /\ q.call = o.call /\ q.full = o.full /\ q.size = o.size
          /\ q.clamped = o.clamped /\ q.parts = o.parts /\ q.chunks = o.chunks /\ q.jamt = o.jamt
          /\ q.jpre = o.jpre /\ q.cpre = o.cpre /\ q.jclose = o.jclose /\ q.draining = o.draining
      BY DEF OpType
    <3> HIDE DEF q, p
    <3>4. Goal(q)
      BY <2>2, <2>3, <3>2, <3>3
    <3> QED BY <3>1, <3>4 DEF p
  <2>4. CASE e = "slip" /\ o.slip < SlipSteps
    <3> DEFINE q == [o EXCEPT !.pc = "quote", !.slip = @ + 1, !.rebuilt = FALSE, !.tx = 0]
    <3>1. p = q
      BY <2>1, <2>4
    <3>2. q \in OpType
      <4>1. 0 \in 0..(MaxLive + 1)
        BY BrokerAssumption
      <4>2. o.slip + 1 \in 0..SlipSteps
        BY <2>4, BrokerAssumption DEF OpType
      <4> QED BY <4>1, <4>2 DEF OpType
    <3>3. /\ q.pc = "quote" /\ q.call = o.call /\ q.full = o.full /\ q.size = o.size
          /\ q.clamped = o.clamped /\ q.parts = o.parts /\ q.chunks = o.chunks /\ q.jamt = o.jamt
          /\ q.jpre = o.jpre /\ q.cpre = o.cpre /\ q.jclose = o.jclose /\ q.draining = o.draining
      BY DEF OpType
    <3> HIDE DEF q, p
    <3>4. Goal(q)
      BY <2>2, <2>4, <3>2, <3>3
    <3> QED BY <3>1, <3>4 DEF p
  <2>5. CASE ~(e = "6005" /\ ~o.rebuilt) /\ ~(e = "slip" /\ o.slip < SlipSteps)
    <3> DEFINE q == ChunkFailed(o)
    <3>1. p = q
      BY <2>1, <2>5
    <3>2. /\ Continues(q, o, want)
          /\ IF o.parts = 1 THEN q.pc = "quote" /\ q.parts = 2 ELSE q.pc = "return" /\ q.parts = 0
          /\ \A a \in Int : o.full /\ ExitShape(o, a) => ExitShape(q, a)
      BY <2>0, ChunkFailedGood
    <3> HIDE DEF q, p
    <3>3. Goal(q)
      BY <2>0, <3>2 DEF Rerouted, Unsent
    <3> QED BY <3>1, <3>3 DEF p
  <2> QED BY <2>3, <2>4, <2>5
<1>6. CASE o.leg.kind = "jclose"
  <2> DEFINE q == ChunkDone(o)
  <2>1. p = q
    BY <1>6 DEF OnFailed
  <2>2. Routed(o) /\ o.call = "sell" /\ o.full
    BY <1>6 DEF Shape, Routed, OnLeg, Partial, OpType
  <2>3. \A a \in Int : ExitShape(o, a) => o.draining \/ (a <= 0 /\ Len(o.chunks) = 1)
    BY <1>6, <2>2 DEF ExitShape, OnLeg, OpType
  <2>4. /\ Continues(q, o, want)
        /\ q.pc \in {"quote", "rem", "return"} /\ q.parts \in {o.parts, 0}
        /\ \A a \in Int : /\ o.full /\ ExitShape(o, a)
                          /\ Len(o.chunks) = 1 => a <= 0 \/ o.draining
                          => ExitShape(q, a)
    BY <2>2, ChunkDoneGood
  <2> HIDE DEF q, p
  <2>5. Goal(q)
    BY <2>2, <2>3, <2>4
  <2> QED BY <2>1, <2>5 DEF p
<1>7. CASE o.leg.kind \notin {"buy", "sell", "drain", "jsell", "jclose"}
  <2>1. p = Done(o, "err")
    BY <1>7 DEF OnFailed
  <2> QED BY <1>1, <2>1
<1> QED BY <1>2, <1>3, <1>4, <1>5, <1>6, <1>7

\* The token account shows that the leg was executed.
Confirms(o, a) ==
    IF o.leg.close \/ o.leg.kind = "dclose" THEN a = Absent
    ELSE o.leg.kind = "jsell" => o.cpre - a >= o.leg.amount

\* A sell leg is confirmed.
LEMMA SellConfirmedGood ==
    ASSUME NEW want \in Nat, NEW o \in OpType, Shape(o, want), o.pc = "confirm"
    PROVE  LET p == SellConfirmed(o)
           IN  /\ Continues(p, o, want)
               /\ p.pc \in {"drain", "jread", "quote", "rem", "return"} /\ p.parts \in {o.parts, 0}
               /\ ~o.full /\ o.parts # 2 => p.pc = "return"
               /\ \A a \in Int : o.full /\ ExitShape(o, a) /\ Confirms(o, a) => ExitShape(p, a)
<1> DEFINE p == SellConfirmed(o)
           Goal(q) ==
               /\ Continues(q, o, want)
               /\ q.pc \in {"drain", "jread", "quote", "rem", "return"} /\ q.parts \in {o.parts, 0}
               /\ ~o.full /\ o.parts # 2 => q.pc = "return"
               /\ \A a \in Int : o.full /\ ExitShape(o, a) /\ Confirms(o, a) => ExitShape(q, a)
<1>0. o.call = "sell" /\ OnLeg(o) /\ o.leg \in LegType
  BY DEF Shape, OnLeg, OpType
<1>1. ASSUME \A a \in Int : o.full /\ ExitShape(o, a) /\ Confirms(o, a) => a <= 0
      PROVE  Goal(Done(o, "ok"))
  <2> DEFINE q == Done(o, "ok")
  <2>1. Continues(q, o, want) /\ q.pc = "return" /\ q.parts = 0
    BY DoneGood DEF Results
  <2> HIDE DEF q
  <2>2. \A a \in Int : a <= 0 => ExitShape(q, a)
    BY <2>1 DEF ExitShape, Routed, OnLeg
  <2> QED BY <1>1, <2>1, <2>2 DEF q
<1>2. ASSUME NEW q \in OpType, q.pc = "drain", q.draining, q.call = o.call, q.full = o.full,
             q.parts = o.parts, o.full
      PROVE  Goal(q)
  <2>1. Shape(q, want)
    BY <1>0, <1>2 DEF Shape, Routed, OnLeg
  <2>2. \A a \in Int : ExitShape(q, a)
    BY <1>2 DEF ExitShape, Routed, OnLeg
  <2> QED BY <1>2, <2>1, <2>2 DEF Continues
<1>3. CASE o.leg.kind = "sell"
  <2>1. p = IF o.full /\ o.clamped THEN [o EXCEPT !.pc = "drain", !.draining = TRUE] ELSE Done(o, "ok")
    BY <1>3 DEF SellConfirmed
  <2>2. CASE o.full /\ o.clamped
    <3> DEFINE q == [o EXCEPT !.pc = "drain", !.draining = TRUE]
    <3>1. q \in OpType /\ q.pc = "drain" /\ q.draining /\ q.call = o.call /\ q.full = o.full
          /\ q.parts = o.parts
      BY DEF OpType
    <3>2. p = q
      BY <2>1, <2>2
    <3> HIDE DEF q, p
    <3>3. Goal(q)
      BY <1>2, <2>2, <3>1
    <3> QED BY <3>2, <3>3 DEF p
  <2>3. CASE ~(o.full /\ o.clamped)
    <3>1. \A a \in Int : o.full /\ ExitShape(o, a) /\ Confirms(o, a) => a <= 0
      BY <1>0, <1>3, <2>3 DEF ExitShape, Confirms, Absent
    <3> QED BY <1>1, <2>1, <2>3, <3>1
  <2> QED BY <2>2, <2>3
<1>4. CASE o.leg.kind = "drain"
  <2> DEFINE q == [o EXCEPT !.pc = "drain", !.legs = @ + 1]
  <2>1. p = q
    BY <1>4 DEF SellConfirmed
  <2>2. o.full
    BY <1>0, <1>4 DEF Shape, Partial, OpType
  <2>3. o.legs + 1 \in 0..MaxLegs
    BY <1>0, <1>4, BrokerAssumption DEF Shape, OpType
  <2>4. q \in OpType
    BY <2>3 DEF OpType
  <2>5. /\ q.pc = "drain" /\ q.draining = o.draining /\ q.call = o.call /\ q.full = o.full
        /\ q.parts = o.parts
    BY DEF OpType
  <2> HIDE DEF q, p
  <2>6. Shape(q, want)
    BY <1>0, <2>2, <2>5 DEF Shape, Routed, OnLeg
  <2>7. \A a \in Int : ExitShape(o, a) => ExitShape(q, a)
    BY <1>0, <1>4, <2>5 DEF ExitShape, Routed, OnLeg
  <2>8. Goal(q)
    BY <2>2, <2>4, <2>5, <2>6, <2>7 DEF Continues
  <2> QED BY <2>1, <2>8 DEF p
<1>5. CASE o.leg.kind = "dclose"
  <2>1. p = Done(o, "ok")
    BY <1>5 DEF SellConfirmed
  <2>2. \A a \in Int : Confirms(o, a) => a <= 0
    BY <1>5 DEF Confirms, Absent
  <2> QED BY <1>1, <2>1, <2>2
<1>6. CASE o.leg.kind = "jsell"
  <2>0. p = IF o.jclose /\ Len(o.chunks) = 1 THEN [o EXCEPT !.pc = "jread"] ELSE ChunkDone(o)
    BY <1>6 DEF SellConfirmed
  <2>1. Routed(o) /\ o.parts \in {1, 2} /\ o.chunks # <<>>
    BY <1>0, <1>6 DEF Shape, Routed
  <2>2. ASSUME NEW a \in Int, ExitShape(o, a), Confirms(o, a), Len(o.chunks) = 1, ~o.draining
        PROVE  a <= 0
    <3> DEFINE q == o.jamt \div ChunkParts
    <3>1. o.cpre <= (1 - 1) * q + o.chunks[1] /\ o.leg.amount = o.chunks[1]
      BY <1>0, <1>6, <2>1, <2>2 DEF ExitShape, Covered
    <3>2. q \in Nat
      <4>1. o.jamt \in Nat /\ ChunkParts \in Nat \ {0}
        BY BrokerAssumption DEF OpType
      <4> QED BY <4>1
    <3> HIDE DEF q
    <3>3. (1 - 1) * q = 0 /\ o.leg.amount \in Nat /\ o.cpre \in Nat
      BY <1>0, <3>2 DEF LegType, OpType
    <3>4. o.cpre <= o.leg.amount
      BY <3>1, <3>3
    <3> QED BY <1>6, <2>2, <3>3, <3>4 DEF Confirms, Absent
  <2>3. CASE o.jclose /\ Len(o.chunks) = 1
    <3> DEFINE q == [o EXCEPT !.pc = "jread"]
    <3>1. p = q
      BY <2>0, <2>3
    <3>2. /\ q \in OpType /\ q.pc = "jread" /\ q.call = o.call /\ q.full = o.full /\ q.size = o.size
          /\ q.parts = o.parts /\ q.chunks = o.chunks /\ q.jamt = o.jamt /\ q.jpre = o.jpre
          /\ q.cpre = o.cpre /\ q.jclose = o.jclose /\ q.draining = o.draining
      BY DEF OpType
    <3>3. o.full
      BY <1>0, <2>1, <2>3 DEF Shape, Partial, OpType
    <3> HIDE DEF q, p
    <3>4. Shape(q, want)
      BY <1>0, <2>1, <3>2, <3>3 DEF Shape, Routed, OnLeg
    <3>5. \A a \in Int : ExitShape(o, a) /\ Confirms(o, a) => ExitShape(q, a)
      BY <2>1, <2>2, <2>3, <3>2 DEF ExitShape, Covered, Routed, OnLeg
    <3>6. Goal(q)
      BY <3>2, <3>3, <3>4, <3>5 DEF Continues
    <3> QED BY <3>1, <3>6 DEF p
  <2>4. CASE ~(o.jclose /\ Len(o.chunks) = 1)
    <3> DEFINE q == ChunkDone(o)
    <3>1. p = q
      BY <2>0, <2>4
    <3>2. /\ Continues(q, o, want)
          /\ q.pc \in {"quote", "rem", "return"} /\ q.parts \in {o.parts, 0}
          /\ q.pc = "quote" => Len(o.chunks) # 1
          /\ \A a \in Int : /\ o.full /\ ExitShape(o, a)
                            /\ Len(o.chunks) = 1 => a <= 0 \/ o.draining
                            => ExitShape(q, a)
      BY <1>0, <2>1, ChunkDoneGood
    <3> HIDE DEF q, p
    <3>3. ~o.full /\ o.parts # 2 => q.pc = "return"
      <4> SUFFICES ASSUME ~o.full, o.parts # 2 PROVE q.pc = "return"
        OBVIOUS
      <4>1. Len(o.chunks) = 1
        BY <1>0, <2>1 DEF Shape, Partial
      <4>2. q.pc # "rem"
        BY <1>0, <3>2 DEF Continues, Shape, Partial
      <4> QED BY <3>2, <4>1, <4>2
    <3>4. Goal(q)
      BY <2>2, <3>2, <3>3
    <3> QED BY <3>1, <3>4 DEF p
  <2> QED BY <2>3, <2>4
<1> QED BY <1>0, <1>3, <1>4, <1>5, <1>6 DEF Shape, LegType

-----------------------------------------------------------------------------
(***************************************************************************)
(* The invariants.                                                         *)
(***************************************************************************)
LastCall == calls[Len(calls)]
InFlight(t) == t.st \in {"sent", "processed"}

\* The running call, its entry in the ledger and its row fit together, and the transaction
\* it waits for is its own.
CallInv ==
    /\ op.pc # "idle" =>
         /\ calls # <<>> /\ LastCall.kind = op.call /\ LastCall.full = op.full
         /\ Shape(op, LastCall.want)
         /\ op.parts = 2 => "rechunked" \in LastCall.flags
         /\ op.call = "sell" /\ ~op.full => LastCall.want <= row.hold
    /\ op.pc = "wait" => \A t \in net : Own(t) => t.call = Len(calls)
    /\ \A c \in DOMAIN calls : calls[c].kind = "buy" => calls[c].want = Fill

\* A buy or a partial sell none of whose sends lied and which did not start over.
Plain(c) ==
    /\ calls[c].kind = "buy" \/ ~calls[c].full
    /\ calls[c].flags \cap {"lied", "rechunked"} = {}

\* Such a call has at most one transaction in flight, and none once one has landed; it
\* sends only after the one before is known to have failed.
MovesOnce(c) ==
    /\ calls[c].landed <= calls[c].want
    /\ \A t \in net : t.call = c /\ InFlight(t) =>
          /\ calls[c].landed = 0 /\ MovedBy(t) <= calls[c].want
          /\ \A s \in net : s.call = c /\ InFlight(s) => s = t
    /\ c = Len(calls) /\ op.pc \in Unsent =>
          calls[c].landed = 0 /\ \A t \in net : t.call = c => ~InFlight(t)
    /\ c = Len(calls) /\ op.pc = "wait" =>
          \A t \in net : /\ t.call = c /\ InFlight(t) => Own(t)
                         /\ Own(t) /\ t.st # "ok" => calls[c].landed = 0

OnceInv == \A c \in DOMAIN calls : Plain(c) => MovesOnce(c)

\* A full exit that nothing has cut short.
ExitInv ==
    op.pc # "idle" /\ op.call = "sell" /\ op.full /\ "short" \notin LastCall.flags
        => ExitShape(op, ata)

-----------------------------------------------------------------------------
(***************************************************************************)
(* A step of a running call that sends nothing.                            *)
(***************************************************************************)
Annotated(notes) ==
    /\ calls' \in Seq(CallType) /\ Len(calls') = Len(calls) /\ DOMAIN calls' = DOMAIN calls
    /\ \A c \in DOMAIN calls :
         /\ calls'[c].kind = calls[c].kind /\ calls'[c].full = calls[c].full
         /\ calls'[c].want = calls[c].want /\ calls'[c].landed = calls[c].landed
         /\ calls'[c].flags = calls[c].flags \cup (IF c = Len(calls) THEN notes ELSE {})

\* The call moves on: it may send again only if nothing of it can still land.
Advances(notes) ==
    /\ op.pc # "idle" /\ op'.pc \notin {"idle", "wait"} /\ Continues(op', op, LastCall.want)
    /\ Annotated(notes) /\ net' \subseteq net
    /\ UNCHANGED <<curve, ata, row>> /\ faults' \in Nat
    /\ op'.parts = 2 => op.parts = 2 \/ "rechunked" \in notes
    /\ /\ op.call = "buy" \/ ~op.full
       /\ op'.pc \in Unsent /\ op.parts # 2 /\ notes \cap {"lied", "rechunked"} = {}
       => \/ op.pc \in Unsent
          \/ op.pc = "wait" /\ \E t \in net : Own(t) /\ t.st \notin {"sent", "processed", "ok"}
    /\ op.call = "sell" /\ op.full /\ "short" \notin notes /\ ExitShape(op, ata)
       => ExitShape(op', ata)

\* The last call is one of the calls.
LEMMA LastOne ==
    ASSUME TypeOK, calls # <<>>
    PROVE  /\ Len(calls) \in Nat \ {0} /\ DOMAIN calls = 1..Len(calls) /\ Len(calls) \in DOMAIN calls
           /\ LastCall \in CallType /\ LastCall.want \in Nat
<1>1. calls \in Seq(CallType)
  BY DEF TypeOK
<1>2. Len(calls) \in Nat \ {0} /\ DOMAIN calls = 1..Len(calls)
  BY <1>1
<1>3. Len(calls) \in DOMAIN calls
  BY <1>2
<1>4. LastCall \in CallType
  BY <1>1, <1>3 DEF LastCall
<1> QED BY <1>2, <1>3, <1>4 DEF CallType

LEMMA AdvanceCall ==
    ASSUME TypeOK, CallInv, NEW notes, Advances(notes)
    PROVE  TypeOK' /\ CallInv'
<1>0. calls # <<>>
  BY DEF CallInv, Advances
<1>1. Len(calls) \in Nat \ {0} /\ DOMAIN calls = 1..Len(calls) /\ Len(calls) \in DOMAIN calls
  BY <1>0, LastOne
<1>2. /\ calls' \in Seq(CallType) /\ Len(calls') = Len(calls) /\ DOMAIN calls' = DOMAIN calls
      /\ \A c \in DOMAIN calls :
           /\ calls'[c].kind = calls[c].kind /\ calls'[c].full = calls[c].full
           /\ calls'[c].want = calls[c].want
           /\ calls'[c].flags = calls[c].flags \cup (IF c = Len(calls) THEN notes ELSE {})
  BY DEF Advances, Annotated
<1>3. TypeOK'
  <2>1. TxType' = TxType
    BY <1>2 DEF TxType
  <2>2. net' \subseteq TxType' /\ IsFiniteSet(net')
    BY <2>1, FS_Subset DEF Advances, TypeOK
  <2>3. op' \in OpType' /\ op'.pc # "wait"
    BY DEF Advances, Continues, OpType
  <2>4. \A s, t \in net' : s.id = t.id => s = t
    BY DEF Advances, TypeOK
  <2> QED BY <1>2, <2>2, <2>3, <2>4 DEF Advances, TypeOK, CallType
<1>4. CallInv'
  <2>1. /\ calls' # <<>>
        /\ LastCall'.kind = LastCall.kind /\ LastCall'.full = LastCall.full
        /\ LastCall'.want = LastCall.want /\ LastCall'.flags = LastCall.flags \cup notes
    BY <1>1, <1>2 DEF LastCall
  <2>2. /\ LastCall.kind = op.call /\ LastCall.full = op.full
        /\ op.parts = 2 => "rechunked" \in LastCall.flags
        /\ op.call = "sell" /\ ~op.full => LastCall.want <= row.hold
    BY DEF CallInv, Advances
  <2>3. Shape(op, LastCall.want)' /\ op'.call = op.call /\ op'.full = op.full
    <3>1. Shape(op, LastCall.want)' <=> Shape(op', LastCall.want)
      BY <2>1 DEF Shape, Partial, Routed, OnLeg
    <3> QED BY <3>1 DEF Advances, Continues
  <2>4. \A c \in DOMAIN calls' : calls'[c].kind = "buy" => calls'[c].want = Fill
    BY <1>2 DEF CallInv
  <2> QED BY <2>1, <2>2, <2>3, <2>4 DEF CallInv, Advances
<1> QED BY <1>3, <1>4

LEMMA AdvanceOnce ==
    ASSUME TypeOK, CallInv, OnceInv, NEW notes, Advances(notes)
    PROVE  OnceInv'
<1> SUFFICES ASSUME NEW c \in DOMAIN calls', Plain(c)' PROVE MovesOnce(c)'
  BY DEF OnceInv
<1>0. calls # <<>>
  BY DEF CallInv, Advances
<1>1. Len(calls) \in DOMAIN calls /\ Len(calls') = Len(calls)
  BY <1>0, LastOne DEF Advances, Annotated
<1>2. /\ c \in DOMAIN calls
      /\ calls'[c].kind = calls[c].kind /\ calls'[c].full = calls[c].full
      /\ calls'[c].want = calls[c].want /\ calls'[c].landed = calls[c].landed
      /\ calls'[c].flags = calls[c].flags \cup (IF c = Len(calls) THEN notes ELSE {})
  BY DEF Advances, Annotated
<1>3. Plain(c) /\ (c = Len(calls) => notes \cap {"lied", "rechunked"} = {})
  BY <1>2 DEF Plain
<1>4. MovesOnce(c)
  BY <1>2, <1>3 DEF OnceInv
<1>5. ASSUME c = Len(calls), op'.pc \in Unsent
      PROVE  calls[c].landed = 0 /\ \A t \in net : t.call = c => ~InFlight(t)
  <2>1. op.call = "buy" \/ ~op.full
    BY <1>3, <1>5 DEF Plain, CallInv, Advances, LastCall
  <2>2. op.parts # 2
    BY <1>3, <1>5 DEF Plain, CallInv, Advances, LastCall
  <2>3. \/ op.pc \in Unsent
        \/ op.pc = "wait" /\ \E t \in net : Own(t) /\ t.st \notin {"sent", "processed", "ok"}
    BY <1>3, <1>5, <2>1, <2>2 DEF Advances
  <2>4. CASE op.pc \in Unsent
    BY <1>4, <1>5, <2>4 DEF MovesOnce
  <2>5. CASE op.pc = "wait" /\ \E t \in net : Own(t) /\ t.st \notin {"sent", "processed", "ok"}
    <3>1. PICK t \in net : Own(t) /\ t.st \notin {"sent", "processed", "ok"}
      BY <2>5
    <3>2. calls[c].landed = 0
      BY <1>4, <1>5, <2>5, <3>1 DEF MovesOnce
    <3>3. ASSUME NEW s \in net, s.call = c, InFlight(s) PROVE FALSE
      <4>1. Own(s)
        BY <1>4, <1>5, <2>5, <3>3 DEF MovesOnce
      <4>2. s = t
        BY <3>1, <4>1 DEF TypeOK, Own
      <4> QED BY <3>1, <3>3, <4>2 DEF InFlight
    <3> QED BY <3>2, <3>3
  <2> QED BY <2>3, <2>4, <2>5
<1>6. net' \subseteq net /\ op'.pc # "wait"
  BY DEF Advances
<1> QED BY <1>1, <1>2, <1>4, <1>5, <1>6 DEF MovesOnce, MovedBy, InFlight

LEMMA AdvanceExit ==
    ASSUME TypeOK, CallInv, ExitInv, NEW notes, Advances(notes)
    PROVE  ExitInv'
<1> SUFFICES ASSUME op'.call = "sell", op'.full, "short" \notin LastCall'.flags
             PROVE  ExitShape(op', ata)
  <2>1. ata' = ata
    BY DEF Advances
  <2> QED BY <2>1 DEF ExitInv, ExitShape, Covered, Routed, OnLeg
<1>0. calls # <<>> /\ op.call = "sell" /\ op.full
  BY DEF CallInv, Advances, Continues
<1>1. Len(calls) \in DOMAIN calls /\ Len(calls') = Len(calls)
  BY <1>0, LastOne DEF Advances, Annotated
<1>2. LastCall'.flags = LastCall.flags \cup notes
  BY <1>1 DEF Advances, Annotated, LastCall
<1>3. ExitShape(op, ata)
  BY <1>0, <1>2 DEF ExitInv, Advances
<1> QED BY <1>0, <1>2, <1>3 DEF Advances

\* A note in the ledger.
LEMMA FlagsGrow ==
    ASSUME TypeOK, NEW n \in DOMAIN calls, NEW s \in SUBSET Notes,
           calls' = [calls EXCEPT ![n].flags = @ \cup s]
    PROVE  /\ calls' \in Seq(CallType) /\ Len(calls') = Len(calls) /\ DOMAIN calls' = DOMAIN calls
           /\ \A c \in DOMAIN calls :
                /\ calls'[c].kind = calls[c].kind /\ calls'[c].full = calls[c].full
                /\ calls'[c].want = calls[c].want /\ calls'[c].landed = calls[c].landed
                /\ calls'[c].flags = calls[c].flags \cup (IF c = n THEN s ELSE {})
<1> DEFINE e == [calls[n] EXCEPT !.flags = @ \cup s]
<1>1. calls \in Seq(CallType) /\ calls[n] \in CallType
  BY DEF TypeOK
<1>2. e \in CallType
  BY <1>1 DEF CallType, Notes
<1>3. /\ e.kind = calls[n].kind /\ e.full = calls[n].full /\ e.want = calls[n].want
      /\ e.landed = calls[n].landed /\ e.flags = calls[n].flags \cup s
  BY <1>1 DEF CallType
<1>4. calls' = [calls EXCEPT ![n] = e]
  OBVIOUS
<1> HIDE DEF e
<1>5. calls' \in Seq(CallType) /\ Len(calls') = Len(calls) /\ DOMAIN calls' = DOMAIN calls
  <2>1. n \in 1..Len(calls) /\ DOMAIN calls = 1..Len(calls)
    BY <1>1
  <2>2. calls' \in Seq(CallType) /\ Len(calls') = Len(calls)
    <3>1. /\ [calls EXCEPT ![n] = e] \in Seq(CallType)
          /\ Len([calls EXCEPT ![n] = e]) = Len(calls)
      BY <1>1, <1>2, <2>1, ExceptSeq
    <3> QED BY <1>4, <3>1
  <2>3. DOMAIN calls' = DOMAIN calls
    BY <1>4
  <2> QED BY <2>2, <2>3
<1>6. calls'[n] = e /\ \A c \in DOMAIN calls : c # n => calls'[c] = calls[c]
  BY <1>4
<1> QED BY <1>3, <1>5, <1>6

LEMMA NotedAnnotates ==
    ASSUME TypeOK, calls # <<>>, NEW s \in SUBSET Notes, Noted(s)
    PROVE  Annotated(s)
<1>1. Len(calls) \in DOMAIN calls
  BY LastOne
<1> QED BY <1>1, FlagsGrow DEF Noted, Annotated

LEMMA SameAnnotates ==
    ASSUME TypeOK, UNCHANGED calls
    PROVE  Annotated({})
BY DEF TypeOK, Annotated

-----------------------------------------------------------------------------
(***************************************************************************)
(* A step that sends.                                                      *)
(***************************************************************************)

\* The new transaction has an id of its own: the network is never full of them.
LEMMA FreshTx ==
    ASSUME TypeOK, CallInv, op.pc = "send", Room
    PROVE  LET t == NewTx("sent")
           IN  /\ t \in TxType /\ \A s \in net : s.id # t.id
               /\ t.call = Len(calls) /\ t.kind = op.leg.kind /\ t.amount = op.leg.amount
               /\ t.st = "sent"
<1> DEFINE I == 1..(MaxLive + 1)
           Free(i) == \A t \in net : t.id # i
           id == CHOOSE i \in I : Free(i)
<1>1. \E i \in I : Free(i)
  <2> SUFFICES ASSUME \A i \in I : \E t \in net : t.id = i PROVE FALSE
    OBVIOUS
  <2> DEFINE f == [i \in I |-> CHOOSE t \in net : t.id = i]
  <2>1. f \in [I -> net] /\ \A i \in I : f[i].id = i
    OBVIOUS
  <2>2. MaxLive \in Nat
    BY BrokerAssumption
  <2>3. IsFiniteSet(I) /\ Cardinality(I) = MaxLive + 1
    BY <2>2, FS_Interval
  <2>4. IsFiniteSet(net) /\ Cardinality(net) \in Nat /\ Cardinality(net) < MaxLive
    BY FS_CardinalityType DEF TypeOK, Room
  <2>5. Cardinality(net) < Cardinality(I)
    BY <2>2, <2>3, <2>4
  <2> HIDE DEF f, I
  <2>6. \E i, j \in I : i # j /\ f[i] = f[j]
    BY <2>1, <2>3, <2>4, <2>5, FS_PigeonHole
  <2> QED BY <2>1, <2>6
<1>2. id \in I /\ Free(id)
  BY <1>1
<1> DEFINE t == NewTx("sent")
<1>3. /\ t = [id |-> id, call |-> Len(calls), kind |-> op.leg.kind, amount |-> op.leg.amount,
              close |-> op.leg.close, st |-> "sent"]
  BY DEF NewTx
<1>4. calls # <<>> /\ op.leg.kind # "none" /\ op.leg \in LegType
  BY DEF CallInv, Shape, OnLeg, TypeOK, OpType
<1>5. Len(calls) \in DOMAIN calls
  BY <1>4, LastOne
<1> HIDE DEF id, t
<1>6. /\ t.id = id /\ t.call = Len(calls) /\ t.kind = op.leg.kind /\ t.amount = op.leg.amount
      /\ t.st = "sent"
  BY <1>3
<1>7. t \in TxType
  BY <1>2, <1>3, <1>4, <1>5 DEF TxType, LegType
<1> QED BY <1>2, <1>6, <1>7 DEF t

\* How much the leg of a buy or a partial sell moves.
LEMMA LegWithin ==
    ASSUME TypeOK, CallInv, op.pc = "send", op.call = "buy" \/ ~op.full, op.parts # 2,
           NEW t, t.kind = op.leg.kind, t.amount = op.leg.amount
    PROVE  MovedBy(t) <= LastCall.want
<1>0. calls # <<>> /\ Shape(op, LastCall.want) /\ LastCall.kind = op.call
  BY DEF CallInv
<1>1. Fill \in Nat /\ Len(calls) \in DOMAIN calls
  BY <1>0, LastOne, BrokerAssumption
<1>2. CASE op.call = "buy"
  <2>1. t.kind \in {"buy", "jbuy"}
    BY <1>0, <1>2 DEF Shape
  <2>2. LastCall.want = Fill
    BY <1>0, <1>1, <1>2 DEF CallInv, LastCall
  <2> QED BY <1>1, <2>1, <2>2 DEF MovedBy
<1>3. CASE op.call # "buy"
  <2>1. op.call = "sell" /\ ~op.full
    BY <1>0, <1>3 DEF Shape
  <2>2. op.leg.kind \in {"sell", "jsell"} /\ (op.leg.kind = "sell" \/ op.parts = 1 => op.leg.amount <= LastCall.want)
    BY <1>0, <2>1 DEF Shape, Partial, OnLeg
  <2>3. op.leg.kind = "jsell" => op.parts \in {1, 2}
    BY <1>0 DEF Shape, Routed, OnLeg
  <2> QED BY <2>2, <2>3 DEF MovedBy
<1> QED BY <1>2, <1>3

\* The RPC accepts the transaction.
LEMMA AcceptInv ==
    ASSUME TypeOK, CallInv, SendAccepted
    PROVE  TypeOK' /\ CallInv' /\ (OnceInv => OnceInv') /\ (ExitInv => ExitInv')
<1> DEFINE t == NewTx("sent")
<1>0. op.pc = "send" /\ Room
  BY DEF SendAccepted, Sending
<1>1. /\ t \in TxType /\ \A s \in net : s.id # t.id
      /\ t.call = Len(calls) /\ t.kind = op.leg.kind /\ t.amount = op.leg.amount /\ t.st = "sent"
  BY <1>0, FreshTx
<1>2. net' = net \cup {t} /\ op' = [op EXCEPT !.pc = "wait", !.tx = t.id]
  BY DEF SendAccepted
<1>3. UNCHANGED <<curve, ata, row, calls, faults>>
  BY DEF SendAccepted, Sending
<1> HIDE DEF t
<1>4. op \in OpType /\ t.id \in 0..(MaxLive + 1)
  BY <1>1, BrokerAssumption DEF TypeOK, TxType
<1>5. op' \in OpType
  BY <1>2, <1>4 DEF OpType
<1>6. /\ op'.pc = "wait" /\ op'.tx = t.id /\ op'.call = op.call /\ op'.full = op.full
      /\ op'.size = op.size /\ op'.clamped = op.clamped /\ op'.pre = op.pre /\ op'.leg = op.leg
      /\ op'.parts = op.parts /\ op'.chunks = op.chunks /\ op'.jamt = op.jamt
      /\ op'.jpre = op.jpre /\ op'.cpre = op.cpre /\ op'.jclose = op.jclose
      /\ op'.draining = op.draining /\ op'.legs = op.legs
  BY <1>2, <1>4 DEF OpType
<1>7. \A s \in net' : Own(s)' <=> s = t
  BY <1>1, <1>2, <1>6 DEF Own
<1>8. TypeOK'
  <2>1. net' \subseteq TxType' /\ IsFiniteSet(net')
    BY <1>1, <1>2, <1>3, FS_AddElement DEF TypeOK, TxType
  <2>2. \A s, u \in net' : s.id = u.id => s = u
    BY <1>1, <1>2 DEF TypeOK
  <2>3. \E s \in net' : Own(s)'
    BY <1>2, <1>7
  <2>4. op' \in OpType' /\ calls' \in Seq(CallType')
    BY <1>3, <1>5 DEF TypeOK
  <2> QED BY <1>3, <2>1, <2>2, <2>3, <2>4 DEF TypeOK
<1>9. CallInv'
  <2>1. /\ calls # <<>> /\ LastCall.kind = op.call /\ LastCall.full = op.full
        /\ Shape(op, LastCall.want)
        /\ op.parts = 2 => "rechunked" \in LastCall.flags
        /\ op.call = "sell" /\ ~op.full => LastCall.want <= row.hold
    BY <1>0 DEF CallInv
  <2>2. Shape(op, LastCall.want)'
    BY <1>0, <1>3, <1>6, <2>1 DEF Shape, Partial, Routed, OnLeg, LastCall
  <2>3. \A s \in net' : Own(s)' => s.call = Len(calls')
    BY <1>1, <1>3, <1>7
  <2>4. \A c \in DOMAIN calls' : calls'[c].kind = "buy" => calls'[c].want = Fill
    BY <1>3 DEF CallInv
  <2> QED BY <1>3, <1>6, <2>1, <2>2, <2>3, <2>4 DEF CallInv, LastCall
<1>10. ASSUME OnceInv PROVE OnceInv'
  <2> SUFFICES ASSUME NEW c \in DOMAIN calls, Plain(c) PROVE MovesOnce(c)'
    BY <1>3 DEF OnceInv, Plain
  <2>1. MovesOnce(c)
    BY <1>10 DEF OnceInv
  <2>2. CASE c # Len(calls)
    BY <1>1, <1>2, <1>3, <2>1, <2>2 DEF MovesOnce, InFlight, MovedBy
  <2>3. CASE c = Len(calls)
    <3>1. calls[c].landed = 0 /\ \A s \in net : s.call = c => ~InFlight(s)
      BY <1>0, <2>1, <2>3 DEF MovesOnce, Unsent
    <3>2. MovedBy(t) <= calls[c].want
      <4>1. op.call = "buy" \/ ~op.full
        BY <1>0, <2>3 DEF Plain, CallInv, LastCall
      <4>2. op.parts # 2
        BY <1>0, <2>3 DEF Plain, CallInv, LastCall
      <4> QED BY <1>0, <1>1, <2>3, <4>1, <4>2, LegWithin DEF LastCall
    <3>3. op'.pc \notin Unsent
      BY <1>6 DEF Unsent
    <3> QED BY <1>2, <1>3, <1>7, <2>1, <3>1, <3>2, <3>3 DEF MovesOnce, InFlight, MovedBy
  <2> QED BY <2>2, <2>3
<1>11. ASSUME ExitInv PROVE ExitInv'
  <2> SUFFICES ASSUME op.call = "sell", op.full, "short" \notin LastCall.flags
               PROVE  ExitShape(op', ata)
    BY <1>3, <1>6 DEF ExitInv, LastCall, ExitShape, Covered, Routed, OnLeg
  <2>1. ExitShape(op, ata)
    BY <1>0, <1>11 DEF ExitInv
  <2> QED BY <1>0, <1>6, <2>1 DEF ExitShape, Covered, Routed, OnLeg
<1> QED BY <1>8, <1>9, <1>10, <1>11

\* A send that reports an error and has reached the cluster: the call moves on and the
\* transaction stays behind.
LEMMA LiedInv ==
    ASSUME TypeOK, CallInv, op.pc = "send", Room, NEW notes, "lied" \in notes,
           op'.pc \notin {"idle", "wait"}, Continues(op', op, LastCall.want),
           Annotated(notes), net' = net \cup {NewTx("sent")},
           UNCHANGED <<curve, ata, row>>, faults' \in Nat,
           op'.parts = 2 => op.parts = 2 \/ "rechunked" \in notes,
           op.call = "sell" /\ op.full /\ "short" \notin notes /\ ExitShape(op, ata)
               => ExitShape(op', ata)
    PROVE  TypeOK' /\ CallInv' /\ (OnceInv => OnceInv') /\ (ExitInv => ExitInv')
<1> DEFINE t == NewTx("sent")
<1>0. calls # <<>>
  BY DEF CallInv
<1>1. /\ t \in TxType /\ \A s \in net : s.id # t.id
      /\ t.call = Len(calls) /\ t.kind = op.leg.kind /\ t.amount = op.leg.amount /\ t.st = "sent"
  BY FreshTx
<1> HIDE DEF t
<1>2. Len(calls) \in DOMAIN calls
  BY <1>0, LastOne
<1>3. /\ calls' \in Seq(CallType) /\ Len(calls') = Len(calls) /\ DOMAIN calls' = DOMAIN calls
      /\ \A c \in DOMAIN calls :
           /\ calls'[c].kind = calls[c].kind /\ calls'[c].full = calls[c].full
           /\ calls'[c].want = calls[c].want /\ calls'[c].landed = calls[c].landed
           /\ calls'[c].flags = calls[c].flags \cup (IF c = Len(calls) THEN notes ELSE {})
  BY DEF Annotated
<1>4. TypeOK'
  <2>1. TxType' = TxType
    BY <1>3 DEF TxType
  <2>2. net' \subseteq TxType' /\ IsFiniteSet(net')
    BY <1>1, <2>1, FS_AddElement DEF TypeOK, t
  <2>3. op' \in OpType' /\ op'.pc # "wait"
    BY DEF Continues, OpType
  <2>4. \A s, u \in net' : s.id = u.id => s = u
    BY <1>1 DEF TypeOK, t
  <2> QED BY <1>3, <2>2, <2>3, <2>4 DEF TypeOK, CallType
<1>5. /\ calls' # <<>>
      /\ LastCall'.kind = LastCall.kind /\ LastCall'.full = LastCall.full
      /\ LastCall'.want = LastCall.want /\ LastCall'.flags = LastCall.flags \cup notes
  BY <1>2, <1>3 DEF LastCall
<1>6. CallInv'
  <2>1. /\ LastCall.kind = op.call /\ LastCall.full = op.full
        /\ op.parts = 2 => "rechunked" \in LastCall.flags
        /\ op.call = "sell" /\ ~op.full => LastCall.want <= row.hold
    BY DEF CallInv
  <2>2. Shape(op, LastCall.want)' /\ op'.call = op.call /\ op'.full = op.full
    <3>1. Shape(op, LastCall.want)' <=> Shape(op', LastCall.want)
      BY <1>5 DEF Shape, Partial, Routed, OnLeg
    <3> QED BY <3>1 DEF Continues
  <2>3. \A c \in DOMAIN calls' : calls'[c].kind = "buy" => calls'[c].want = Fill
    BY <1>3 DEF CallInv
  <2> QED BY <1>5, <2>1, <2>2, <2>3 DEF CallInv
<1>7. ASSUME OnceInv PROVE OnceInv'
  <2> SUFFICES ASSUME NEW c \in DOMAIN calls, Plain(c)' PROVE MovesOnce(c)'
    BY <1>3 DEF OnceInv
  <2>1. c # Len(calls) /\ Plain(c)
    BY <1>3 DEF Plain
  <2>2. MovesOnce(c)
    BY <1>7, <2>1 DEF OnceInv
  <2>3. net' = net \cup {t}
    BY DEF t
  <2> QED BY <1>1, <1>3, <2>1, <2>2, <2>3 DEF MovesOnce, InFlight, MovedBy
<1>8. ASSUME ExitInv PROVE ExitInv'
  <2> SUFFICES ASSUME op'.call = "sell", op'.full, "short" \notin LastCall'.flags
               PROVE  ExitShape(op', ata)
    BY DEF ExitInv, ExitShape, Covered, Routed, OnLeg
  <2>1. op.call = "sell" /\ op.full
    BY DEF Continues
  <2>2. ExitShape(op, ata)
    BY <1>5, <1>8, <2>1 DEF ExitInv
  <2> QED BY <1>5, <2>1, <2>2
<1> QED BY <1>4, <1>6, <1>7, <1>8

-----------------------------------------------------------------------------
(***************************************************************************)
(* The network.                                                            *)
(***************************************************************************)

\* A transaction changes its status, or is resolved and forgotten.
Restates(t, st) ==
    \/ net' = (net \ {t}) \cup {[t EXCEPT !.st = st]}
    \/ net' = net \ {t} /\ ~Own(t)

\* The ledger only grows.
LedgerGrows ==
    /\ calls' \in Seq(CallType) /\ Len(calls') = Len(calls) /\ DOMAIN calls' = DOMAIN calls
    /\ \A c \in DOMAIN calls :
         /\ calls'[c].kind = calls[c].kind /\ calls'[c].full = calls[c].full
         /\ calls'[c].want = calls[c].want /\ calls[c].flags \subseteq calls'[c].flags

LEMMA RestateCall ==
    ASSUME TypeOK, CallInv, NEW t \in net, LedgerGrows,
           NEW st \in {"processed", "ok", "err", "6005", "slip", "gone"}, Restates(t, st),
           UNCHANGED <<curve, op, row>>, ata' \in Nat \cup {Absent}, faults' \in Nat
    PROVE  TypeOK' /\ CallInv'
<1> DEFINE u == [t EXCEPT !.st = st]
<1>1. t \in TxType
  BY DEF TypeOK
<1>2. u \in TxType /\ u.id = t.id /\ u.call = t.call
  BY <1>1 DEF TxType
<1>3. net' = (net \ {t}) \cup {u} \/ (net' = net \ {t} /\ ~Own(t))
  BY DEF Restates
<1> HIDE DEF u
<1>4. TxType' = TxType
  BY DEF TxType, LedgerGrows
<1>5. \A s : Own(s)' <=> Own(s)
  BY DEF Own
<1>6. TypeOK'
  <2>1. net' \subseteq TxType'
    BY <1>2, <1>3, <1>4 DEF TypeOK
  <2>2. IsFiniteSet(net')
    <3>1. IsFiniteSet(net \ {t})
      BY FS_RemoveElement DEF TypeOK
    <3>2. IsFiniteSet((net \ {t}) \cup {u})
      BY <3>1, FS_AddElement
    <3> QED BY <1>3, <3>1, <3>2
  <2>3. \A s, v \in net' : s.id = v.id => s = v
    BY <1>2, <1>3 DEF TypeOK
  <2>4. op'.pc = "wait" => \E s \in net' : Own(s)'
    BY <1>2, <1>3, <1>5 DEF TypeOK, Own
  <2> QED BY <2>1, <2>2, <2>3, <2>4 DEF TypeOK, LedgerGrows, CallType, OpType
<1>7. CallInv'
  <2>1. op.pc = "wait" => \A s \in net' : Own(s)' => s.call = Len(calls')
    BY <1>2, <1>3, <1>5 DEF CallInv, LedgerGrows, Own
  <2>2. \A c \in DOMAIN calls' : calls'[c].kind = "buy" => calls'[c].want = Fill
    BY DEF CallInv, LedgerGrows
  <2>3. CASE op.pc = "idle"
    BY <2>1, <2>2, <2>3 DEF CallInv
  <2>4. CASE op.pc # "idle"
    <3>1. Len(calls) \in DOMAIN calls
      BY <2>4, LastOne DEF CallInv
    <3>2. /\ calls' # <<>>
          /\ LastCall'.kind = LastCall.kind /\ LastCall'.full = LastCall.full
          /\ LastCall'.want = LastCall.want /\ LastCall.flags \subseteq LastCall'.flags
      BY <3>1 DEF LastCall, LedgerGrows
    <3>3. Shape(op, LastCall.want)' <=> Shape(op, LastCall.want)
      BY <3>2 DEF Shape, Partial, Routed, OnLeg
    <3> QED BY <2>1, <2>2, <2>4, <3>2, <3>3 DEF CallInv
  <2> QED BY <2>3, <2>4
<1> QED BY <1>6, <1>7

\* As long as nothing lands, a change of status leaves OnceInv true.
LEMMA RestateOnce ==
    ASSUME TypeOK, CallInv, OnceInv, NEW t \in net, LedgerGrows,
           NEW st \in {"processed", "err", "6005", "slip", "gone"}, Restates(t, st), InFlight(t),
           UNCHANGED op, \A c \in DOMAIN calls : calls'[c].landed = calls[c].landed
    PROVE  OnceInv'
<1> DEFINE u == [t EXCEPT !.st = st]
<1>1. t \in TxType
  BY DEF TypeOK
<1>2. u.id = t.id /\ u.call = t.call /\ u.kind = t.kind /\ u.amount = t.amount /\ u.st = st
  BY <1>1 DEF TxType
<1>3. net' \subseteq (net \ {t}) \cup {u}
  BY DEF Restates
<1> HIDE DEF u
<1>4. \A s : Own(s)' <=> Own(s)
  BY DEF Own
<1> SUFFICES ASSUME NEW c \in DOMAIN calls, Plain(c)' PROVE MovesOnce(c)'
  BY DEF OnceInv, LedgerGrows
<1>5. Plain(c) /\ Len(calls') = Len(calls)
  BY DEF Plain, LedgerGrows
<1>6. MovesOnce(c)
  BY <1>5 DEF OnceInv
<1>7. MovedBy(u) = MovedBy(t)
  BY <1>2 DEF MovedBy
<1>8. /\ calls'[c].landed = calls[c].landed /\ calls'[c].want = calls[c].want
      /\ calls'[c].landed <= calls'[c].want
  BY <1>6 DEF LedgerGrows, MovesOnce
<1>9. ASSUME NEW x \in net', x.call = c, InFlight(x)
      PROVE  /\ calls'[c].landed = 0 /\ MovedBy(x) <= calls'[c].want
             /\ \A s \in net' : s.call = c /\ InFlight(s) => s = x
  <2>1. \A s \in net' : s.call = c /\ InFlight(s) =>
           \E y \in net : y.call = c /\ InFlight(y) /\ MovedBy(y) = MovedBy(s) /\ (s = y \/ (s = u /\ y = t))
    BY <1>2, <1>3, <1>7
  <2>2. calls[c].landed = 0 /\ MovedBy(x) <= calls[c].want
    BY <1>6, <1>9, <2>1 DEF MovesOnce
  <2>3. ASSUME NEW s \in net', s.call = c, InFlight(s) PROVE s = x
    <3>1. PICK y \in net : y.call = c /\ InFlight(y) /\ (s = y \/ (s = u /\ y = t))
      BY <2>1, <2>3
    <3>2. PICK z \in net : z.call = c /\ InFlight(z) /\ (x = z \/ (x = u /\ z = t))
      BY <1>9, <2>1
    <3>3. y = z
      BY <1>6, <3>1, <3>2 DEF MovesOnce
    <3> QED BY <1>3, <3>1, <3>2, <3>3
  <2> QED BY <1>8, <2>2, <2>3
<1>10. ASSUME c = Len(calls), op.pc \in Unsent
       PROVE  calls'[c].landed = 0 /\ \A s \in net' : s.call = c => ~InFlight(s)
  BY <1>2, <1>3, <1>6, <1>8, <1>10 DEF MovesOnce
<1>11. ASSUME c = Len(calls), op.pc = "wait", NEW s \in net'
       PROVE  /\ s.call = c /\ InFlight(s) => Own(s)
              /\ Own(s) /\ s.st # "ok" => calls'[c].landed = 0
  <2>1. /\ t.call = c => Own(t)
        /\ Own(t) => calls[c].landed = 0
    BY <1>6, <1>11 DEF MovesOnce, InFlight
  <2>2. Own(u) <=> Own(t)
    BY <1>2 DEF Own
  <2> QED BY <1>2, <1>3, <1>6, <1>8, <1>11, <2>1, <2>2 DEF MovesOnce
<1>12. \A s : InFlight(s)' <=> InFlight(s)
  BY DEF InFlight
<1>13. \A s : MovedBy(s)' = MovedBy(s)
  BY DEF MovedBy
<1> QED BY <1>4, <1>5, <1>8, <1>9, <1>10, <1>11, <1>12, <1>13 DEF MovesOnce

\* A lower balance keeps what a full exit has shown.
LEMMA ExitLower ==
    ASSUME NEW o \in OpType, NEW a \in Int, NEW b \in Int, b <= a, ExitShape(o, a)
    PROVE  ExitShape(o, b)
BY DEF ExitShape, OpType

\* A step of the network that leaves the call and the balance alone.
LEMMA ExitFrame ==
    ASSUME TypeOK, CallInv, ExitInv, UNCHANGED <<op, ata>>, LedgerGrows
    PROVE  ExitInv'
<1> SUFFICES ASSUME op.pc # "idle", op.call = "sell", op.full, "short" \notin LastCall'.flags
             PROVE  ExitShape(op, ata)
  BY DEF ExitInv, ExitShape, Covered, Routed, OnLeg
<1>1. Len(calls) \in DOMAIN calls
  BY LastOne DEF CallInv
<1>2. LastCall.flags \subseteq LastCall'.flags
  BY <1>1 DEF LedgerGrows, LastCall
<1> QED BY <1>2 DEF ExitInv

\* The ledger when a transaction lands.
LEMMA ConfirmLedger ==
    ASSUME TypeOK, NEW t \in net, Confirm(t)
    PROVE  /\ LedgerGrows
           /\ \A c \in DOMAIN calls :
                /\ calls'[c].landed = IF c = t.call THEN calls[c].landed + MovedBy(t) ELSE calls[c].landed
                /\ c = Len(calls) /\ op.call = "sell" /\ t.kind \in {"buy", "jbuy"}
                   => "short" \in calls'[c].flags
                /\ calls'[c].flags \subseteq calls[c].flags \cup {"short"}
<1>1. calls \in Seq(CallType) /\ t \in TxType /\ Fill \in Nat
  BY BrokerAssumption DEF TypeOK
<1>2. MovedBy(t) \in Nat
  BY <1>1 DEF MovedBy, TxType
<1> DEFINE landed(c) == IF c = t.call THEN calls[c].landed + MovedBy(t) ELSE calls[c].landed
           flags(c) == IF c = Len(calls) /\ op.call = "sell" /\ t.kind \in {"buy", "jbuy"}
                       THEN calls[c].flags \cup {"short"} ELSE calls[c].flags
           e(c) == [calls[c] EXCEPT !.landed = landed(c), !.flags = flags(c)]
<1>3. calls' = [c \in DOMAIN calls |-> e(c)]
  BY DEF Confirm
<1>4. \A c \in DOMAIN calls : calls[c] \in CallType
  BY <1>1
<1>5. \A c \in DOMAIN calls : /\ landed(c) \in Nat /\ calls[c].flags \subseteq flags(c)
                              /\ flags(c) \in SUBSET {"lied", "short", "unsure", "rechunked", "quoted"}
  BY <1>2, <1>4 DEF CallType
<1>6. \A c \in DOMAIN calls :
         /\ c = Len(calls) /\ op.call = "sell" /\ t.kind \in {"buy", "jbuy"} => "short" \in flags(c)
         /\ flags(c) \subseteq calls[c].flags \cup {"short"}
  OBVIOUS
<1> HIDE DEF landed, flags
<1>7. ASSUME NEW c \in DOMAIN calls
      PROVE  /\ e(c) \in CallType
             /\ e(c).kind = calls[c].kind /\ e(c).full = calls[c].full /\ e(c).want = calls[c].want
             /\ e(c).landed = landed(c) /\ e(c).flags = flags(c)
  <2> DEFINE r == calls[c]
             l == landed(c)
             f == flags(c)
  <2>1. r \in CallType /\ l \in Nat /\ f \in SUBSET {"lied", "short", "unsure", "rechunked", "quoted"}
    BY <1>4, <1>5
  <2> HIDE DEF r, l, f
  <2>2. [r EXCEPT !.landed = l, !.flags = f] \in CallType
    BY <2>1 DEF CallType
  <2>3. LET x == [r EXCEPT !.landed = l, !.flags = f]
        IN  /\ x.kind = r.kind /\ x.full = r.full /\ x.want = r.want
            /\ x.landed = l /\ x.flags = f
    BY <2>1 DEF CallType
  <2> QED BY <2>2, <2>3 DEF r, l, f
<1> HIDE DEF e
<1>8. DOMAIN calls' = DOMAIN calls /\ \A c \in DOMAIN calls : calls'[c] = e(c)
  BY <1>3
<1>9. calls' \in Seq(CallType) /\ Len(calls') = Len(calls)
  <2>1. DOMAIN calls = 1..Len(calls) /\ Len(calls) \in Nat
    BY <1>1
  <2>2. calls' \in [1..Len(calls) -> CallType]
    BY <1>3, <1>7, <2>1
  <2> QED BY <2>1, <2>2
<1> QED BY <1>5, <1>6, <1>7, <1>8, <1>9 DEF LedgerGrows, landed

\* What a landing transaction does to the balance: only a buy raises it.
LEMMA ConfirmAta ==
    ASSUME TypeOK, NEW t \in net, Confirm(t)
    PROVE  /\ ata' \in Nat \cup {Absent} /\ ata \in Int /\ ata' \in Int
           /\ t.kind \notin {"buy", "jbuy"} => ata' <= ata
<1>1. t \in TxType /\ ata \in Nat \cup {Absent} /\ Fill \in Nat /\ Absent = -1
  BY BrokerAssumption DEF TypeOK, Absent
<1>2. t.amount \in Nat /\ t.kind \in {"buy", "jbuy", "sell", "drain", "dclose", "jsell", "jclose"}
  BY <1>1 DEF TxType
<1>3. Executable(t) /\ ata' = AtaAfter(t)
  BY DEF Confirm
<1>4. CASE t.kind \in {"buy", "jbuy"}
  BY <1>1, <1>3, <1>4 DEF AtaAfter
<1>5. CASE t.kind \in {"sell", "drain", "jsell"}
  <2>1. ata >= t.amount
    BY <1>3, <1>5 DEF Executable
  <2>2. ata' = Absent \/ ata' = ata - t.amount
    BY <1>3, <1>5 DEF AtaAfter
  <2> QED BY <1>1, <1>2, <2>1, <2>2
<1>6. CASE t.kind \in {"dclose", "jclose"}
  <2>1. ata = 0 /\ ata' = Absent
    BY <1>3, <1>6 DEF Executable, AtaAfter
  <2> QED BY <1>1, <2>1
<1> QED BY <1>2, <1>4, <1>5, <1>6

\* A transaction lands.
LEMMA ConfirmInv ==
    ASSUME TypeOK, CallInv, NEW t \in net, Confirm(t)
    PROVE  TypeOK' /\ CallInv' /\ (OnceInv => OnceInv') /\ (ExitInv => ExitInv')
<1> DEFINE u == [t EXCEPT !.st = "ok"]
<1>1. t \in TxType /\ t.st = "processed"
  BY DEF TypeOK, Confirm
<1>2. u.id = t.id /\ u.call = t.call /\ u.st = "ok"
  BY <1>1 DEF TxType
<1>3. net' \subseteq (net \ {t}) \cup {u} /\ Restates(t, "ok")
  BY DEF Restates, Confirm, Resolved
<1> HIDE DEF u
<1>4. LedgerGrows /\ UNCHANGED <<curve, op, row, faults>>
  BY ConfirmLedger DEF Confirm
<1>5. \A c \in DOMAIN calls :
        /\ calls'[c].landed = IF c = t.call THEN calls[c].landed + MovedBy(t) ELSE calls[c].landed
        /\ c = Len(calls) /\ op.call = "sell" /\ t.kind \in {"buy", "jbuy"}
           => "short" \in calls'[c].flags
  BY ConfirmLedger
<1>6. /\ ata' \in Nat \cup {Absent} /\ ata \in Int /\ ata' \in Int
      /\ t.kind \notin {"buy", "jbuy"} => ata' <= ata
  BY ConfirmAta
<1>7. TypeOK' /\ CallInv'
  <2>1. faults' \in Nat
    BY <1>4 DEF TypeOK
  <2> QED BY <1>3, <1>4, <1>6, <2>1, RestateCall
<1>8. ASSUME OnceInv PROVE OnceInv'
  <2> SUFFICES ASSUME NEW c \in DOMAIN calls, Plain(c)' PROVE MovesOnce(c)'
    BY <1>4 DEF OnceInv, LedgerGrows
  <2>1. Plain(c) /\ Len(calls') = Len(calls) /\ calls'[c].want = calls[c].want
    BY <1>4 DEF Plain, LedgerGrows
  <2>2. MovesOnce(c) /\ InFlight(t) /\ ~InFlight(u)
    BY <1>1, <1>2, <1>8, <2>1 DEF OnceInv, InFlight
  <2>3. \A s : (Own(s)' <=> Own(s)) /\ MovedBy(s)' = MovedBy(s)
    BY <1>4 DEF Own, MovedBy
  <2>4. \A s : InFlight(s)' <=> InFlight(s)
    BY DEF InFlight
  <2>5. CASE c # t.call
    <3>1. calls'[c].landed = calls[c].landed
      BY <1>5, <2>5
    <3>2. ASSUME c = Len(calls), op.pc = "wait" PROVE ~Own(t)
      BY <2>5, <3>2 DEF CallInv
    <3>3. Own(u) => Own(t)
      BY <1>2 DEF Own
    <3> QED BY <1>2, <1>3, <1>4, <2>1, <2>2, <2>3, <2>4, <2>5, <3>1, <3>2, <3>3 DEF MovesOnce
  <2>6. CASE c = t.call
    <3>1. calls[c].landed = 0 /\ MovedBy(t) <= calls[c].want /\ MovedBy(t) \in Nat
      BY <1>1, <2>2, <2>6, BrokerAssumption DEF MovesOnce, MovedBy, TxType
    <3>2. calls'[c].landed <= calls[c].want
      BY <1>5, <2>6, <3>1
    <3>3. \A s \in net' : s.call = c => ~InFlight(s)
      BY <1>3, <2>2, <2>6 DEF MovesOnce
    <3>4. c = Len(calls) => op.pc \notin Unsent
      BY <2>2, <2>6 DEF MovesOnce
    <3>5. ASSUME c = Len(calls), op.pc = "wait", NEW s \in net', Own(s) PROVE s.st = "ok"
      <4>1. Own(t)
        BY <2>2, <2>6, <3>5 DEF MovesOnce
      <4>2. s # u => s = t
        BY <1>3, <3>5, <4>1 DEF Own, TypeOK
      <4> QED BY <1>2, <1>3, <3>5, <4>2
    <3> QED BY <1>4, <2>1, <2>3, <2>4, <3>2, <3>3, <3>4, <3>5 DEF MovesOnce
  <2> QED BY <2>5, <2>6
<1>9. ASSUME ExitInv PROVE ExitInv'
  <2> SUFFICES ASSUME op.pc # "idle", op.call = "sell", op.full, "short" \notin LastCall'.flags
               PROVE  ExitShape(op, ata')
    BY <1>4 DEF ExitInv, ExitShape, Covered, Routed, OnLeg
  <2>1. Len(calls) \in DOMAIN calls
    BY LastOne DEF CallInv
  <2>2. LastCall.flags \subseteq LastCall'.flags /\ t.kind \notin {"buy", "jbuy"}
    BY <1>4, <1>5, <2>1 DEF LedgerGrows, LastCall
  <2>3. ExitShape(op, ata) /\ op \in OpType
    BY <1>9, <2>2 DEF ExitInv, TypeOK
  <2> QED BY <1>6, <2>2, <2>3, ExitLower
<1> QED BY <1>7, <1>8, <1>9

\* A transaction is processed, fails or is dropped.
LEMMA UnlandedInv ==
    ASSUME TypeOK, CallInv, NEW t \in net, Process(t) \/ Reject(t) \/ Drop(t)
    PROVE  TypeOK' /\ CallInv' /\ (OnceInv => OnceInv') /\ (ExitInv => ExitInv')
<1>1. /\ InFlight(t) /\ UNCHANGED <<curve, ata, op, row>> /\ ata' \in Nat \cup {Absent}
      /\ t \in TxType
  BY DEF Process, Reject, Drop, InFlight, TypeOK
<1>2. faults' \in Nat
  BY DEF Process, Reject, Drop, Affordable, Costs, TypeOK
<1>3. \E st \in {"processed", "err", "6005", "slip", "gone"} : Restates(t, st)
  BY DEF Process, Reject, Drop, RejectCodes, Resolved, Restates
<1>4. LedgerGrows /\ \A c \in DOMAIN calls : calls'[c].landed = calls[c].landed
  <2>1. CASE calls' = calls
    BY <2>1 DEF LedgerGrows, TypeOK
  <2>2. CASE calls' = [calls EXCEPT ![t.call].flags = @ \cup {"unsure"}]
    <3> DEFINE s == {"unsure"}
               n == t.call
    <3>1. n \in DOMAIN calls /\ s \in SUBSET Notes /\ calls' = [calls EXCEPT ![n].flags = @ \cup s]
      BY <1>1, <2>2 DEF TxType, Notes
    <3> HIDE DEF s, n
    <3>2. /\ calls' \in Seq(CallType) /\ Len(calls') = Len(calls) /\ DOMAIN calls' = DOMAIN calls
          /\ \A c \in DOMAIN calls :
               /\ calls'[c].kind = calls[c].kind /\ calls'[c].full = calls[c].full
               /\ calls'[c].want = calls[c].want /\ calls'[c].landed = calls[c].landed
               /\ calls'[c].flags = calls[c].flags \cup (IF c = n THEN s ELSE {})
      BY <3>1, FlagsGrow
    <3> QED BY <3>2 DEF LedgerGrows
  <2> QED BY <2>1, <2>2 DEF Process, Reject, Drop
<1>5. PICK st \in {"processed", "err", "6005", "slip", "gone"} : Restates(t, st)
  BY <1>3
<1>6. TypeOK' /\ CallInv'
  BY <1>1, <1>2, <1>4, <1>5, RestateCall
<1>7. OnceInv => OnceInv'
  BY <1>1, <1>4, <1>5, RestateOnce
<1>8. ExitInv => ExitInv'
  BY <1>1, <1>4, ExitFrame
<1> QED BY <1>6, <1>7, <1>8

-----------------------------------------------------------------------------
(***************************************************************************)
(* The steps of a running call, one by one.                                *)
(***************************************************************************)

\* What every step of a running call may use.
LEMMA Running1 ==
    ASSUME TypeOK, CallInv, op.pc # "idle"
    PROVE  /\ calls # <<>> /\ LastCall.want \in Nat /\ op \in OpType /\ Shape(op, LastCall.want)
           /\ faults \in Nat /\ ata \in Int
<1>1. calls # <<>> /\ Shape(op, LastCall.want)
  BY DEF CallInv
<1>2. ata \in Int
  BY DEF TypeOK, Absent
<1> QED BY <1>1, <1>2, LastOne DEF TypeOK

LEMMA FaultsType ==
    ASSUME TypeOK, NEW b \in BOOLEAN, Costs(b), Affordable(b)
    PROVE  faults' \in Nat
BY DEF TypeOK, Costs, Affordable

\* A step to p that leaves the network, the ledger and the balance alone.
LEMMA StepQuiet ==
    ASSUME TypeOK, CallInv, op.pc # "idle", UNCHANGED <<curve, ata, net, row, calls>>, faults' \in Nat,
           NEW p, op' = p, Continues(p, op, LastCall.want), p.pc \notin {"idle", "wait"},
           p.parts = 2 => op.parts = 2,
           /\ op.call = "buy" \/ ~op.full
           /\ p.pc \in Unsent /\ op.parts # 2
           => op.pc \in Unsent,
           op.call = "sell" /\ op.full /\ ExitShape(op, ata) => ExitShape(p, ata)
    PROVE  Advances({})
<1>1. Annotated({})
  BY SameAnnotates
<1> QED BY <1>1 DEF Advances

\* The end of a call in an error.
LEMMA StepErr ==
    ASSUME TypeOK, CallInv, op.pc # "idle", UNCHANGED <<curve, ata, net, row, calls>>, faults' \in Nat,
           op' = Done(op, "err")
    PROVE  Advances({})
<1> DEFINE p == Done(op, "err")
<1>0. calls # <<>> /\ LastCall.want \in Nat /\ op \in OpType /\ Shape(op, LastCall.want)
  BY Running1
<1>1. Continues(p, op, LastCall.want) /\ p.pc = "return" /\ p.parts = 0
  BY <1>0, DoneGood DEF Results
<1>2. p.res = "err"
  BY DEF Done, IdleOp
<1>3. op' = p
  OBVIOUS
<1> HIDE DEF p
<1>4. ExitShape(p, ata)
  BY <1>1, <1>2 DEF ExitShape, Routed, OnLeg
<1> QED BY <1>1, <1>3, <1>4, StepQuiet DEF Unsent

\* An error of a leg that left nothing behind it, noted as far as it says so.
LEMMA StepFails ==
    ASSUME TypeOK, CallInv, op.pc \in {"send", "wait"}, NEW e, NEW notes \in SUBSET {"unsure"},
           Fail(e, notes), net' \subseteq net, UNCHANGED <<curve, ata, row>>, faults' \in Nat,
           e \in {"6005", "slip"} =>
              \/ op.pc = "send"
              \/ \E t \in net : Own(t) /\ t.st \notin {"sent", "processed", "ok"}
    PROVE  \E n : Advances(n)
<1> DEFINE p == OnFailed(op, e)
           n == notes \cup Rerouted(op, p)
<1>0. calls # <<>> /\ LastCall.want \in Nat /\ op \in OpType /\ Shape(op, LastCall.want) /\ ata \in Int
  BY Running1
<1>1. op' = p /\ Noted(n)
  BY DEF Fail
<1>2. /\ Continues(p, op, LastCall.want)
      /\ p.pc \in {"jquote", "quote", "rem", "return"}
      /\ p.parts = 2 => op.parts = 2 \/ "rechunked" \in Rerouted(op, p)
      /\ /\ op.call = "buy" \/ ~op.full
         /\ p.pc \in Unsent
         => e \in {"6005", "slip"} \/ "rechunked" \in Rerouted(op, p)
      /\ \A a \in Int : /\ op.call = "sell" /\ op.full /\ ExitShape(op, a)
                        /\ "short" \notin Rerouted(op, p)
                        => ExitShape(p, a)
  BY <1>0, OnFailedGood
<1> HIDE DEF p
<1>3. n \in SUBSET Notes
  BY DEF Rerouted, Notes
<1>4. Annotated(n)
  <2> HIDE DEF n
  <2> QED BY <1>0, <1>1, <1>3, NotedAnnotates
<1>5. Rerouted(op, p) \subseteq n
  OBVIOUS
<1> HIDE DEF n
<1>6. Advances(n)
  BY <1>0, <1>1, <1>2, <1>4, <1>5 DEF Advances, Unsent
<1> QED BY <1>6

LEMMA LegAdvances ==
    ASSUME TypeOK, CallInv,
           BlockhashFails \/ (\E t \in net : WaitOk(t) \/ WaitFails(t) \/ WaitGivesUp(t))
    PROVE  \E n : Advances(n)
<1>1. CASE BlockhashFails
  <2>0. op.pc = "send" /\ UNCHANGED <<curve, ata, row, net>> /\ faults' \in Nat
    BY <1>1 DEF BlockhashFails, Sending, Costs, TypeOK
  <2>1. CASE LastTry \/ Jupiter
    <3>1. Fail("custom", {})
      BY <1>1, <2>1 DEF BlockhashFails
    <3> DEFINE e == "custom"
               s == {}
    <3>2. Fail(e, s) /\ e \notin {"6005", "slip"} /\ s \in SUBSET {"unsure"}
      BY <3>1
    <3> HIDE DEF e, s
    <3> QED BY <2>0, <3>2, StepFails
  <2>2. CASE ~(LastTry \/ Jupiter)
    <3> DEFINE p == [op EXCEPT !.tries = @ + 1]
    <3>0. calls # <<>> /\ LastCall.want \in Nat /\ op \in OpType /\ Shape(op, LastCall.want)
      BY <2>0, Running1
    <3>1. op' = p /\ UNCHANGED calls
      BY <1>1, <2>2 DEF BlockhashFails
    <3>2. op.tries + 1 \in 0..(MaxTries - 1)
      BY <2>2, <3>0, BrokerAssumption DEF LastTry, OpType
    <3>3. p \in OpType
      BY <3>0, <3>2 DEF OpType
    <3>4. /\ p.pc = op.pc /\ p.call = op.call /\ p.full = op.full /\ p.size = op.size
          /\ p.clamped = op.clamped /\ p.pre = op.pre /\ p.leg = op.leg /\ p.parts = op.parts
          /\ p.chunks = op.chunks /\ p.jamt = op.jamt /\ p.jpre = op.jpre /\ p.cpre = op.cpre
          /\ p.jclose = op.jclose /\ p.draining = op.draining /\ p.legs = op.legs
      BY <3>0 DEF OpType
    <3> HIDE DEF p
    <3>5. Continues(p, op, LastCall.want)
      BY <3>0, <3>3, <3>4 DEF Continues, Shape, Partial, Routed, OnLeg
    <3>6. ExitShape(op, ata) => ExitShape(p, ata)
      BY <2>0, <3>4 DEF ExitShape, Covered, Routed, OnLeg
    <3>7. Advances({})
      BY <2>0, <3>1, <3>4, <3>5, <3>6, StepQuiet DEF Unsent
    <3> QED BY <3>7
  <2> QED BY <2>1, <2>2
<1>2. ASSUME NEW t \in net, WaitOk(t) PROVE \E n : Advances(n)
  <2> DEFINE p == OnSent(op)
  <2>1. op.pc = "wait" /\ UNCHANGED <<curve, ata, row, calls, faults>> /\ op' = p /\ net' \subseteq net
    BY <1>2 DEF WaitOk, Waiting, Forget
  <2>2. calls # <<>> /\ LastCall.want \in Nat /\ op \in OpType /\ Shape(op, LastCall.want)
        /\ ata \in Int /\ faults \in Nat
    BY <2>1, Running1
  <2>3. /\ Continues(p, op, LastCall.want)
        /\ p.pc \in {"fill", "confirm", "quote", "rem", "return"} /\ p.parts \in {op.parts, 0}
        /\ op.call = "buy" \/ ~op.full => p.pc \notin Unsent
        /\ \A a \in Int : op.call = "sell" /\ op.full /\ ExitShape(op, a) => ExitShape(p, a)
    BY <2>1, <2>2, OnSentGood
  <2> HIDE DEF p
  <2>4. Annotated({})
    BY <2>1, SameAnnotates
  <2>5. Advances({})
    BY <2>1, <2>2, <2>3, <2>4 DEF Advances
  <2> QED BY <2>5
<1>3. ASSUME NEW t \in net, WaitFails(t) PROVE \E n : Advances(n)
  <2> DEFINE s == {}
  <2>1. /\ op.pc = "wait" /\ UNCHANGED <<curve, ata, row>> /\ faults' \in Nat /\ net' \subseteq net
        /\ Own(t) /\ t.st \notin {"sent", "processed", "ok"}
    BY <1>3 DEF WaitFails, Waiting, Forget, TypeOK
  <2>2. Fail(t.st, s) /\ s \in SUBSET {"unsure"}
    BY <1>3 DEF WaitFails
  <2> HIDE DEF s
  <2> QED BY <2>1, <2>2, StepFails
<1>4. ASSUME NEW t \in net, WaitGivesUp(t) PROVE \E n : Advances(n)
  <2> DEFINE s == IF t.st = "gone" THEN {} ELSE {"unsure"}
             e == "custom"
             b == t.st \notin {"sent", "gone"}
  <2>1. op.pc = "wait" /\ UNCHANGED <<curve, ata, row>> /\ net' \subseteq net
    BY <1>4 DEF WaitGivesUp, Waiting, Forget
  <2>2. b \in BOOLEAN /\ Costs(b) /\ Affordable(b)
    BY <1>4 DEF WaitGivesUp
  <2>3. Fail(e, s) /\ s \in SUBSET {"unsure"} /\ e \notin {"6005", "slip"}
    BY <1>4 DEF WaitGivesUp
  <2> HIDE DEF s, e, b
  <2>4. faults' \in Nat
    BY <2>2, FaultsType
  <2> QED BY <2>1, <2>3, <2>4, StepFails
<1> QED BY <1>1, <1>2, <1>3, <1>4

\* The send reports an error.
LEMMA ErrorsInv ==
    ASSUME TypeOK, CallInv, SendErrors
    PROVE  \/ \E n : Advances(n)
           \/ /\ TypeOK' /\ CallInv' /\ (OnceInv => OnceInv') /\ (ExitInv => ExitInv')
              /\ "lied" \in LastCall'.flags
<1>0. op.pc = "send" /\ UNCHANGED <<curve, ata, row>> /\ Affordable(Room) /\ Costs(Room)
  BY DEF SendErrors, Sending
<1>1. faults' \in Nat
  BY <1>0 DEF Affordable, Costs, TypeOK
<1>2. calls # <<>> /\ LastCall.want \in Nat /\ op \in OpType /\ Shape(op, LastCall.want) /\ ata \in Int
  BY <1>0, Running1
<1>3. PICK reached \in BOOLEAN, e \in RejectCodes(op.leg) :
          /\ reached => Room
          /\ net' = IF reached THEN net \cup {NewTx("sent")} ELSE net
          /\ LET notes == IF reached THEN {"lied"} ELSE {}
             IN IF LastTry THEN Fail(e, notes)
                ELSE op' = [op EXCEPT !.tries = @ + 1] /\ Noted(notes)
  BY DEF SendErrors
<1> DEFINE lie == IF reached THEN {"lied"} ELSE {}
           p == IF LastTry THEN OnFailed(op, e) ELSE [op EXCEPT !.tries = @ + 1]
           n == lie \cup (IF LastTry THEN Rerouted(op, p) ELSE {})
<1>4. op' = p /\ Noted(n)
  BY <1>3 DEF Fail
\* Whether the call goes on or tries again, it may send: nothing of it is in the network
\* unless the send has lied.
<1>5. /\ Continues(p, op, LastCall.want) /\ p.pc \notin {"idle", "wait"}
      /\ p.parts = 2 => op.parts = 2 \/ "rechunked" \in n
      /\ op.call = "sell" /\ op.full /\ "short" \notin n /\ ExitShape(op, ata) => ExitShape(p, ata)
  <2>1. CASE LastTry
    <3> DEFINE q == OnFailed(op, e)
    <3>1. p = q /\ Rerouted(op, q) \subseteq n
      BY <2>1
    <3>2. /\ Continues(q, op, LastCall.want)
          /\ q.pc \in {"jquote", "quote", "rem", "return"}
          /\ q.parts = 2 => op.parts = 2 \/ "rechunked" \in Rerouted(op, q)
          /\ \A a \in Int : /\ op.call = "sell" /\ op.full /\ ExitShape(op, a)
                            /\ "short" \notin Rerouted(op, q)
                            => ExitShape(q, a)
      BY <1>0, <1>2, OnFailedGood
    <3> HIDE DEF q, p, n
    <3> QED BY <1>2, <3>1, <3>2
  <2>2. CASE ~LastTry
    <3> DEFINE q == [op EXCEPT !.tries = @ + 1]
    <3>1. p = q
      BY <2>2
    <3>2. op.tries + 1 \in 0..(MaxTries - 1)
      BY <1>2, <2>2, BrokerAssumption DEF LastTry, OpType
    <3>3. q \in OpType
      BY <1>2, <3>2 DEF OpType
    <3>4. /\ q.pc = op.pc /\ q.call = op.call /\ q.full = op.full /\ q.size = op.size
          /\ q.clamped = op.clamped /\ q.pre = op.pre /\ q.leg = op.leg /\ q.parts = op.parts
          /\ q.chunks = op.chunks /\ q.jamt = op.jamt /\ q.jpre = op.jpre /\ q.cpre = op.cpre
          /\ q.jclose = op.jclose /\ q.draining = op.draining /\ q.legs = op.legs
      BY <1>2 DEF OpType
    <3> HIDE DEF q, p
    <3>5. Continues(q, op, LastCall.want)
      BY <1>2, <3>3, <3>4 DEF Continues, Shape, Partial, Routed, OnLeg
    <3>6. ExitShape(op, ata) => ExitShape(q, ata)
      BY <1>0, <3>4 DEF ExitShape, Covered, Routed, OnLeg
    <3> QED BY <1>0, <3>1, <3>4, <3>5, <3>6
  <2> QED BY <2>1, <2>2
<1>6. n \in SUBSET Notes /\ lie \subseteq n
  BY DEF Rerouted, Notes
<1> HIDE DEF p, n
<1>7. Annotated(n)
  BY <1>2, <1>4, <1>6, NotedAnnotates
<1>8. CASE reached
  <2>1. "lied" \in n /\ Room /\ net' = net \cup {NewTx("sent")}
    BY <1>3, <1>6, <1>8
  <2>2. TypeOK' /\ CallInv' /\ (OnceInv => OnceInv') /\ (ExitInv => ExitInv')
    BY <1>0, <1>1, <1>4, <1>5, <1>7, <2>1, LiedInv
  <2>3. "lied" \in LastCall'.flags
    BY <1>2, <1>7, <2>1, LastOne DEF Annotated, LastCall
  <2> QED BY <2>2, <2>3
<1>9. CASE ~reached
  <2>1. net' = net
    BY <1>3, <1>9
  <2>2. Advances(n)
    BY <1>0, <1>1, <1>4, <1>5, <1>7, <2>1 DEF Advances, Unsent
  <2> QED BY <2>2
<1> QED BY <1>8, <1>9

\* A poll of the token account sees the sell, or does not.
LEMMA PollAdvances ==
    ASSUME TypeOK, CallInv, PollSeesSell \/ PollTimesOut
    PROVE  \E n : Advances(n)
<1>0. op.pc = "confirm" /\ UNCHANGED <<curve, ata, net, row>>
  BY DEF PollSeesSell, PollTimesOut
<1>1. /\ calls # <<>> /\ LastCall.want \in Nat /\ op \in OpType /\ Shape(op, LastCall.want)
      /\ ata \in Int /\ faults \in Nat
  BY <1>0, Running1
<1>2. op.call = "sell" /\ op.pc \notin Unsent
  BY <1>0, <1>1 DEF Shape, Unsent
<1>3. CASE PollSeesSell
  <2> DEFINE o == [op EXCEPT !.moved = TRUE]
             p == SellConfirmed(o)
  <2>1. op' = p /\ UNCHANGED <<calls, faults>> /\ AtaConfirms
    BY <1>3 DEF PollSeesSell
  <2>2. o \in OpType
    BY <1>1 DEF OpType
  <2>3. /\ o.pc = op.pc /\ o.call = op.call /\ o.full = op.full /\ o.size = op.size
        /\ o.clamped = op.clamped /\ o.pre = op.pre /\ o.leg = op.leg /\ o.parts = op.parts
        /\ o.chunks = op.chunks /\ o.jamt = op.jamt /\ o.jpre = op.jpre /\ o.cpre = op.cpre
        /\ o.jclose = op.jclose /\ o.draining = op.draining /\ o.legs = op.legs
    BY <1>1 DEF OpType
  <2> HIDE DEF o
  <2>4. Shape(o, LastCall.want)
    BY <1>1, <2>3 DEF Shape, Partial, Routed, OnLeg
  <2>5. ExitShape(op, ata) => ExitShape(o, ata)
    BY <1>0, <2>3 DEF ExitShape, Covered, Routed, OnLeg
  <2>6. Confirms(o, ata)
    BY <2>1, <2>3 DEF AtaConfirms, ExpectClosed, Confirms
  <2>7. /\ Continues(p, o, LastCall.want)
        /\ p.pc \in {"drain", "jread", "quote", "rem", "return"} /\ p.parts \in {o.parts, 0}
        /\ ~o.full /\ o.parts # 2 => p.pc = "return"
        /\ \A a \in Int : o.full /\ ExitShape(o, a) /\ Confirms(o, a) => ExitShape(p, a)
    BY <1>0, <1>1, <2>2, <2>3, <2>4, SellConfirmedGood
  <2> HIDE DEF p
  <2>8. Continues(p, op, LastCall.want)
    BY <2>3, <2>7 DEF Continues
  <2>9. ~op.full /\ op.parts # 2 => p.pc \notin Unsent
    BY <2>3, <2>7 DEF Unsent
  <2>10. Advances({})
    BY <1>0, <1>1, <1>2, <2>1, <2>3, <2>5, <2>6, <2>7, <2>8, <2>9, StepQuiet
  <2> QED BY <2>10
<1>4. CASE PollTimesOut
  <2> DEFINE p == IF op.leg.kind = "jsell" THEN ChunkFailed(op) ELSE Done(op, "err")
             n == {"unsure"} \cup Rerouted(op, p)
             b == AtaConfirms
  <2>a. op' = p /\ Noted(n) /\ Affordable(b) /\ Costs(b)
    BY <1>4 DEF PollTimesOut
  <2>b. faults' \in Nat
    <3> HIDE DEF b, p, n
    <3> QED BY <1>1, <2>a DEF Affordable, Costs
  <2>1. op' = p /\ Noted(n) /\ faults' \in Nat
    BY <2>a, <2>b
  <2>2. n \in SUBSET Notes
    BY DEF Rerouted, Notes
  <2>3. /\ Continues(p, op, LastCall.want) /\ p.pc \in {"quote", "return"}
        /\ p.parts = 2 => "rechunked" \in n
        /\ p.pc = "quote" => "rechunked" \in n
        /\ op.full /\ ExitShape(op, ata) => ExitShape(p, ata)
    <3>1. CASE op.leg.kind = "jsell"
      <4> DEFINE q == ChunkFailed(op)
      <4>1. p = q
        BY <3>1
      <4>2. Routed(op) /\ op.parts \in {1, 2}
        BY <1>0, <1>1, <3>1 DEF Routed, OnLeg, Shape
      <4>3. /\ Continues(q, op, LastCall.want)
            /\ IF op.parts = 1 THEN q.pc = "quote" /\ q.parts = 2 ELSE q.pc = "return" /\ q.parts = 0
            /\ \A a \in Int : op.full /\ ExitShape(op, a) => ExitShape(q, a)
        BY <1>1, <1>2, <4>2, ChunkFailedGood
      <4> HIDE DEF q, p
      <4> QED BY <1>1, <4>1, <4>2, <4>3 DEF Rerouted
    <3>2. CASE op.leg.kind # "jsell"
      <4> DEFINE q == Done(op, "err")
      <4>1. p = q
        BY <3>2
      <4>2. Continues(q, op, LastCall.want) /\ q.pc = "return" /\ q.parts = 0
        BY <1>1, DoneGood DEF Results
      <4>3. q.res = "err"
        BY DEF Done, IdleOp
      <4> HIDE DEF q, p
      <4>4. ExitShape(q, ata)
        BY <4>2, <4>3 DEF ExitShape, Routed, OnLeg
      <4> QED BY <4>1, <4>2, <4>4
    <3> QED BY <3>1, <3>2
  <2> HIDE DEF p, n
  <2>4. Annotated(n)
    BY <1>1, <2>1, <2>2, NotedAnnotates
  <2>5. Advances(n)
    BY <1>0, <1>2, <2>1, <2>3, <2>4 DEF Advances, Unsent
  <2> QED BY <2>5
<1> QED BY <1>3, <1>4

\* What a read of the token account may return.
LEMMA ReadFacts ==
    ASSUME TypeOK, NEW r \in AtaRead
    PROVE  /\ OrZero(r) \in Nat /\ (OrZero(r) <= ata \/ OrZero(r) = 0)
           /\ r # ReadFailed => r = ata /\ ata \in Nat
           /\ r = 0 => ata = 0
           /\ Misread(r) => faults > 0
           /\ Misread(r) \in BOOLEAN
BY DEF TypeOK, AtaRead, OrZero, ReadFailed, Absent, Misread

\* Jupiter quotes.
LEMMA QuoteAdvances ==
    ASSUME TypeOK, CallInv, QuoteFound \/ QuoteFails \/ CloseAfterJupiter
    PROVE  \E n : Advances(n)
<1>0. op.pc \in {"quote", "jread"} /\ UNCHANGED <<curve, ata, net, row>>
  BY DEF QuoteFound, QuoteFails, CloseAfterJupiter
<1>1. /\ calls # <<>> /\ LastCall.want \in Nat /\ op \in OpType /\ Shape(op, LastCall.want)
      /\ ata \in Int /\ faults \in Nat
  BY <1>0, Running1
<1>2. op.call = "sell" /\ Routed(op) /\ op.chunks # <<>> /\ op.parts \in {1, 2}
  BY <1>0, <1>1 DEF Shape, Routed
<1>3. CASE QuoteFound
  <2>1. PICK v2 \in BOOLEAN :
           op' = [SendLeg(op, "jsell", Head(op.chunks), FALSE) EXCEPT
                    !.tries = IF v2 THEN MaxTries - 1 ELSE 0]
    BY <1>3 DEF QuoteFound, V2Choices
  <2> DEFINE h == Head(op.chunks)
             no == FALSE
             kind == "jsell"
             q == SendLeg(op, kind, h, no)
             k == IF v2 THEN MaxTries - 1 ELSE 0
             p == [q EXCEPT !.tries = k]
  <2>2. h \in Nat /\ h = op.chunks[1]
    BY <1>1, <1>2 DEF OpType
  <2>3. no \in BOOLEAN /\ no = FALSE /\ kind = "jsell" /\ k \in 0..(MaxTries - 1)
    BY BrokerAssumption
  <2>4. op' = p /\ UNCHANGED <<calls, faults>> /\ op.pc = "quote"
    BY <1>3, <2>1 DEF QuoteFound
  <2> HIDE DEF no, kind, h, k
  <2>5. /\ q \in OpType
        /\ q.pc = "send" /\ q.call = op.call /\ q.full = op.full /\ q.size = op.size
        /\ q.clamped = op.clamped /\ q.pre = op.pre /\ q.parts = op.parts
        /\ q.chunks = op.chunks /\ q.jamt = op.jamt /\ q.jpre = op.jpre /\ q.cpre = op.cpre
        /\ q.jclose = op.jclose /\ q.draining = op.draining
        /\ q.leg.kind = "jsell" /\ q.leg.amount = h /\ q.leg.close = FALSE
    BY <1>1, <2>2, <2>3, SendLegFields
  <2> HIDE DEF q
  <2>6. p \in OpType
    BY <2>3, <2>5 DEF OpType
  <2>7. /\ p.pc = "send" /\ p.call = op.call /\ p.full = op.full /\ p.size = op.size
        /\ p.clamped = op.clamped /\ p.pre = op.pre /\ p.parts = op.parts
        /\ p.chunks = op.chunks /\ p.jamt = op.jamt /\ p.jpre = op.jpre /\ p.cpre = op.cpre
        /\ p.jclose = op.jclose /\ p.draining = op.draining
        /\ p.leg.kind = "jsell" /\ p.leg.amount = h /\ p.leg.close = FALSE
    BY <2>5 DEF OpType
  <2> HIDE DEF p
  <2>8. Continues(p, op, LastCall.want)
    BY <1>1, <1>2, <2>2, <2>4, <2>6, <2>7 DEF Continues, Shape, Partial, Routed, OnLeg
  <2>9. ExitShape(op, ata) => ExitShape(p, ata)
    BY <1>2, <2>2, <2>4, <2>7 DEF ExitShape, Covered, Routed, OnLeg
  <2>10. Advances({})
    BY <1>0, <1>1, <2>4, <2>7, <2>8, <2>9, StepQuiet DEF Unsent
  <2> QED BY <2>10
<1>4. CASE QuoteFails
  <2> DEFINE p == ChunkFailed(op)
             n == Rerouted(op, p)
  <2>1. op' = p /\ Noted(n) /\ faults' \in Nat
    BY <1>1, <1>4 DEF QuoteFails, Costs
  <2>2. /\ Continues(p, op, LastCall.want)
        /\ IF op.parts = 1 THEN p.pc = "quote" /\ p.parts = 2 ELSE p.pc = "return" /\ p.parts = 0
        /\ \A a \in Int : op.full /\ ExitShape(op, a) => ExitShape(p, a)
    BY <1>1, <1>2, ChunkFailedGood
  <2> HIDE DEF p
  <2>3. n \in SUBSET Notes /\ (op.parts = 1 => "rechunked" \in n)
    BY <2>2 DEF Rerouted, Notes
  <2> HIDE DEF n
  <2>4. Annotated(n)
    BY <1>1, <2>1, <2>3, NotedAnnotates
  <2>5. Advances(n)
    BY <1>0, <1>1, <1>2, <2>1, <2>2, <2>3, <2>4 DEF Advances, Unsent
  <2> QED BY <2>5
<1>5. CASE CloseAfterJupiter
  <2>0. op.pc = "jread" /\ UNCHANGED calls
    BY <1>5 DEF CloseAfterJupiter
  <2>1. op.full
    BY <1>1, <1>2, <2>0 DEF Shape, Partial, OpType
  <2>2. PICK r \in AtaRead :
          /\ op' = IF r = 0 THEN SendLeg(op, "jclose", 0, FALSE) ELSE ChunkDone(op)
          /\ Costs(Misread(r))
    BY <1>5 DEF CloseAfterJupiter
  <2>3. faults' \in Nat
    BY <1>1, <2>2, ReadFacts DEF Costs
  <2>4. ExitShape(op, ata) => op.draining \/ (ata <= 0 /\ Len(op.chunks) = 1)
    BY <1>1, <1>2, <2>0 DEF ExitShape, OpType
  <2>5. CASE r = 0
    <3> DEFINE no == FALSE
               kind == "jclose"
               p == SendLeg(op, kind, 0, no)
    <3>1. no \in BOOLEAN /\ kind = "jclose" /\ op' = p
      BY <2>2, <2>5
    <3> HIDE DEF no, kind
    <3>2. /\ p \in OpType
          /\ p.pc = "send" /\ p.call = op.call /\ p.full = op.full /\ p.size = op.size
          /\ p.clamped = op.clamped /\ p.pre = op.pre /\ p.parts = op.parts
          /\ p.chunks = op.chunks /\ p.jamt = op.jamt /\ p.jpre = op.jpre /\ p.cpre = op.cpre
          /\ p.jclose = op.jclose /\ p.draining = op.draining /\ p.leg.kind = "jclose"
      BY <1>1, <3>1, SendLegFields
    <3> HIDE DEF p
    <3>3. Continues(p, op, LastCall.want)
      BY <1>2, <2>1, <3>2 DEF Continues, Shape, Routed, OnLeg
    <3>4. ExitShape(op, ata) => ExitShape(p, ata)
      BY <1>2, <2>0, <2>4, <3>2 DEF ExitShape, Covered, Routed, OnLeg
    <3>5. Advances({})
      BY <1>0, <1>2, <2>0, <2>1, <2>3, <3>1, <3>2, <3>3, <3>4, StepQuiet
    <3> QED BY <3>5
  <2>6. CASE r # 0
    <3> DEFINE p == ChunkDone(op)
    <3>1. op' = p
      BY <2>2, <2>6
    <3>2. /\ Continues(p, op, LastCall.want)
          /\ p.pc \in {"quote", "rem", "return"} /\ p.parts \in {op.parts, 0}
          /\ \A a \in Int : /\ op.full /\ ExitShape(op, a)
                            /\ Len(op.chunks) = 1 => a <= 0 \/ op.draining
                            => ExitShape(p, a)
      BY <1>1, <1>2, ChunkDoneGood
    <3> HIDE DEF p
    <3>3. Advances({})
      BY <1>0, <1>1, <1>2, <2>0, <2>1, <2>3, <2>4, <3>1, <3>2, StepQuiet
    <3> QED BY <3>3
  <2> QED BY <2>5, <2>6
<1> QED BY <1>3, <1>4, <1>5

\* The steps of a buy.
LEMMA BuyAdvances ==
    ASSUME TypeOK, CallInv,
           BuyRefused \/ BuyRouted \/ BuyQuoted \/ NoBuyRoute \/ FillMeasured \/ FillFloored
    PROVE  \E n : Advances(n)
<1>0. op.pc \in {"prepare", "jquote", "fill"} /\ UNCHANGED <<curve, ata, net, row, calls>>
  BY DEF BuyRefused, BuyRouted, BuyQuoted, NoBuyRoute, FillMeasured, FillFloored
<1>1. /\ calls # <<>> /\ LastCall.want \in Nat /\ op \in OpType /\ Shape(op, LastCall.want)
      /\ ata \in Int /\ faults \in Nat
  BY <1>0, Running1
<1>2. op.call = "buy" /\ op.pc # "idle"
  BY <1>0, <1>1 DEF Shape
<1>3. CASE BuyRefused \/ NoBuyRoute
  <2>1. op' = Done(op, "err") /\ faults > 0 /\ Costs(TRUE)
    BY <1>3 DEF BuyRefused, NoBuyRoute
  <2>2. faults' \in Nat
    BY <1>1, <2>1 DEF Costs
  <2>3. Advances({})
    BY <1>0, <1>2, <2>1, <2>2, StepErr
  <2> QED BY <2>3
<1>4. CASE BuyRouted
  <2>1. PICK read \in BOOLEAN, r \in AtaRead :
          /\ Affordable(~read \/ Misread(r)) /\ Costs(~read \/ Misread(r))
          /\ op' = IF read /\ curve = "complete" THEN [[op EXCEPT !.pre = OrZero(r)] EXCEPT !.pc = "jquote"]
                   ELSE SendLeg([op EXCEPT !.pre = OrZero(r)], "buy", 0, FALSE)
    BY <1>4 DEF BuyRouted
  <2> DEFINE b == ~read \/ Misread(r)
             z == OrZero(r)
             o == [op EXCEPT !.pre = z]
  <2>2. z \in Nat
    BY ReadFacts
  <2>3. faults' \in Nat
    <3>1. Affordable(b) /\ Costs(b)
      BY <2>1
    <3> HIDE DEF b
    <3> QED BY <1>1, <3>1 DEF Affordable, Costs
  <2>4. op.pc = "prepare"
    BY <1>4 DEF BuyRouted
  <2> HIDE DEF z, b
  <2>5. o \in OpType
    BY <1>1, <2>2 DEF OpType
  <2>6. o.pc = op.pc /\ o.call = op.call /\ o.full = op.full /\ o.parts = op.parts /\ o.legs = op.legs
    BY <1>1 DEF OpType
  <2>7. CASE read /\ curve = "complete"
    <3> DEFINE p == [o EXCEPT !.pc = "jquote"]
    <3>1. op' = p
      BY <2>1, <2>7 DEF z
    <3>2. p \in OpType
      BY <2>5 DEF OpType
    <3>3. p.pc = "jquote" /\ p.call = op.call /\ p.full = op.full /\ p.parts = op.parts
      BY <2>5, <2>6 DEF OpType
    <3> HIDE DEF o, p
    <3>4. Continues(p, op, LastCall.want)
      BY <1>2, <3>2, <3>3 DEF Continues, Shape, Routed, OnLeg
    <3>5. Advances({})
      BY <1>0, <1>2, <2>3, <2>4, <3>1, <3>3, <3>4, StepQuiet DEF Unsent
    <3> QED BY <3>5
  <2>8. CASE ~(read /\ curve = "complete")
    <3> DEFINE no == FALSE
               kind == "buy"
               p == SendLeg(o, kind, 0, no)
    <3>1. no \in BOOLEAN /\ kind = "buy" /\ op' = p
      BY <2>1, <2>8 DEF z
    <3> HIDE DEF no, kind, o
    <3>2. /\ p \in OpType /\ p.pc = "send" /\ p.call = o.call /\ p.full = o.full
          /\ p.parts = o.parts /\ p.leg.kind = "buy"
      BY <2>5, <3>1, SendLegFields
    <3> HIDE DEF p
    <3>3. Continues(p, op, LastCall.want)
      BY <1>2, <2>6, <3>2 DEF Continues, Shape, Routed, OnLeg
    <3>4. Advances({})
      BY <1>0, <1>2, <2>3, <2>4, <2>6, <3>1, <3>2, <3>3, StepQuiet DEF Unsent
    <3> QED BY <3>4
  <2> QED BY <2>7, <2>8
<1>5. CASE BuyQuoted
  <2>1. PICK r \in AtaRead :
          op' = [SendLeg(op, "jbuy", 0, FALSE) EXCEPT !.pre = OrZero(r)] /\ Costs(Misread(r))
    BY <1>5 DEF BuyQuoted
  <2> DEFINE z == OrZero(r)
             no == FALSE
             kind == "jbuy"
             q == SendLeg(op, kind, 0, no)
             p == [q EXCEPT !.pre = z]
  <2>2. z \in Nat /\ no \in BOOLEAN /\ kind = "jbuy" /\ op' = p
    BY <2>1, ReadFacts
  <2>3. faults' \in Nat
    BY <1>1, <2>1, ReadFacts DEF Costs
  <2>4. op.pc = "jquote"
    BY <1>5 DEF BuyQuoted
  <2> HIDE DEF z, no, kind
  <2>5. /\ q \in OpType /\ q.pc = "send" /\ q.call = op.call /\ q.full = op.full
        /\ q.parts = op.parts /\ q.leg.kind = "jbuy"
    BY <1>1, <2>2, SendLegFields
  <2> HIDE DEF q
  <2>6. p \in OpType
    BY <2>2, <2>5 DEF OpType
  <2>7. /\ p.pc = "send" /\ p.call = op.call /\ p.full = op.full
        /\ p.parts = op.parts /\ p.leg.kind = "jbuy"
    BY <2>5 DEF OpType
  <2> HIDE DEF p
  <2>8. Continues(p, op, LastCall.want)
    BY <1>2, <2>6, <2>7 DEF Continues, Shape, Routed, OnLeg
  <2>9. Advances({})
    BY <1>0, <1>2, <2>2, <2>3, <2>4, <2>7, <2>8, StepQuiet DEF Unsent
  <2> QED BY <2>9
<1>6. CASE FillMeasured \/ FillFloored
  <2>1. PICK k \in Nat : op' = [Done(op, "ok") EXCEPT !.size = k]
    <3>1. CASE FillMeasured
      <4>1. op' = [Done(op, "ok") EXCEPT !.size = ata - op.pre] /\ ata > op.pre
        BY <3>1 DEF FillMeasured
      <4>2. op.pre \in Nat
        BY <1>1 DEF OpType
      <4>3. ata - op.pre \in Nat
        BY <1>1, <4>1, <4>2
      <4> QED BY <4>1, <4>3
    <3>2. CASE FillFloored
      <4>1. op' = [Done(op, "ok") EXCEPT !.size = Floor]
        BY <3>2 DEF FillFloored
      <4>2. Floor \in Nat
        BY BrokerAssumption
      <4> QED BY <4>1, <4>2
    <3> QED BY <1>6, <3>1, <3>2
  <2>2. UNCHANGED faults
    BY <1>6 DEF FillMeasured, FillFloored
  <2> DEFINE q == Done(op, "ok")
             p == [q EXCEPT !.size = k]
  <2>3. Continues(q, op, LastCall.want) /\ q.pc = "return" /\ q.parts = 0
    BY <1>1, DoneGood DEF Results
  <2>4. op' = p
    BY <2>1
  <2> HIDE DEF q
  <2>5. q \in OpType /\ q.call = op.call /\ q.full = op.full
    BY <2>3 DEF Continues
  <2>6. p \in OpType
    BY <2>1, <2>5 DEF OpType
  <2>7. p.pc = "return" /\ p.call = op.call /\ p.full = op.full /\ p.parts = 0
    BY <2>3, <2>5 DEF OpType
  <2> HIDE DEF p
  <2>8. Continues(p, op, LastCall.want)
    BY <1>2, <2>6, <2>7 DEF Continues, Shape, Routed, OnLeg
  <2>9. Advances({})
    BY <1>0, <1>1, <1>2, <2>2, <2>4, <2>7, <2>8, StepQuiet DEF Unsent
  <2> QED BY <2>9
<1> QED BY <1>3, <1>4, <1>5, <1>6

\* A fill taken from a Jupiter quote ends the buy with a note.
LEMMA QuotedAdvances ==
    ASSUME TypeOK, CallInv, FillQuoted
    PROVE  Advances({"quoted"})
<1> DEFINE n == {"quoted"}
<1>0. op.pc = "fill" /\ UNCHANGED <<curve, ata, net, row, faults>> /\ Noted(n)
  BY DEF FillQuoted
<1>n. n \in SUBSET Notes
  BY DEF Notes
<1> HIDE DEF n
<1>1. /\ calls # <<>> /\ LastCall.want \in Nat /\ op \in OpType /\ Shape(op, LastCall.want)
      /\ faults \in Nat
  BY <1>0, Running1
<1>2. op.call = "buy" /\ op.pc # "idle"
  BY <1>0, <1>1 DEF Shape
<1>3. PICK k \in Nat : op' = [Done(op, "ok") EXCEPT !.size = k]
  BY BrokerAssumption DEF FillQuoted
<1> DEFINE q == Done(op, "ok")
           p == [q EXCEPT !.size = k]
<1>4. Continues(q, op, LastCall.want) /\ q.pc = "return" /\ q.parts = 0
  BY <1>1, DoneGood DEF Results
<1>5. op' = p
  BY <1>3
<1> HIDE DEF q
<1>6. q \in OpType /\ q.call = op.call /\ q.full = op.full
  BY <1>4 DEF Continues
<1>7. p \in OpType
  BY <1>3, <1>6 DEF OpType
<1>8. p.pc = "return" /\ p.call = op.call /\ p.full = op.full /\ p.parts = 0
  BY <1>4, <1>6 DEF OpType
<1> HIDE DEF p
<1>9. Continues(p, op, LastCall.want)
  BY <1>2, <1>7, <1>8 DEF Continues, Shape, Routed, OnLeg
<1>10. Annotated(n)
  BY <1>0, <1>1, <1>n, NotedAnnotates
<1>11. Advances(n)
  BY <1>0, <1>1, <1>2, <1>5, <1>8, <1>9, <1>10 DEF Advances, Unsent
<1> QED BY <1>11 DEF n

\* The first steps of a sell: its size and its route.
LEMMA SellAdvances ==
    ASSUME TypeOK, CallInv, SellRefused \/ SizeSell \/ RouteSell
    PROVE  \E n : Advances(n)
<1>0. op.pc \in {"size", "route"} /\ UNCHANGED <<curve, ata, net, row>>
  BY DEF SellRefused, SizeSell, RouteSell
<1>1. /\ calls # <<>> /\ LastCall.want \in Nat /\ op \in OpType /\ Shape(op, LastCall.want)
      /\ ata \in Int /\ faults \in Nat
  BY <1>0, Running1
<1>2. op.call = "sell" /\ op.pc # "idle" /\ op.size \in Nat /\ op.full \in BOOLEAN
  BY <1>0, <1>1 DEF Shape, OpType
<1>3. ~op.full => ~op.draining /\ op.size <= LastCall.want
  BY <1>1, <1>2 DEF Shape, Partial
<1>4. CASE SellRefused
  <2>1. op' = Done(op, "err") /\ faults > 0 /\ Costs(TRUE) /\ UNCHANGED calls
    BY <1>4 DEF SellRefused
  <2>2. faults' \in Nat
    BY <1>1, <2>1 DEF Costs
  <2>3. Advances({})
    BY <1>0, <1>2, <2>1, <2>2, StepErr
  <2> QED BY <2>3
<1>5. CASE SizeSell
  <2>1. PICK r \in (IF op.full THEN AtaRead ELSE {ReadFailed}) :
          /\ op' = [op EXCEPT !.pc = "route", !.size = IF r = ReadFailed THEN @ ELSE r]
          /\ Noted(IF op.full /\ r = ReadFailed THEN {"short"} ELSE {})
          /\ Costs(op.full /\ Misread(r))
    BY <1>5 DEF SizeSell
  <2> DEFINE k == IF r = ReadFailed THEN op.size ELSE r
             n == IF op.full /\ r = ReadFailed THEN {"short"} ELSE {}
             b == op.full /\ Misread(r)
             p == [op EXCEPT !.pc = "route", !.size = k]
  <2>2. /\ op.full => (r # ReadFailed => r = ata /\ ata \in Nat) /\ (Misread(r) => faults > 0)
        /\ ~op.full => r = ReadFailed
    BY <2>1, ReadFacts
  <2>3. op' = p /\ Noted(n) /\ Costs(b) /\ op.pc = "size"
    BY <1>5, <2>1 DEF SizeSell
  <2>4. faults' \in Nat
    <3>1. b => faults > 0
      BY <2>2
    <3> HIDE DEF b
    <3> QED BY <1>1, <2>3, <3>1 DEF Costs
  <2>5. /\ k \in Nat /\ n \in SUBSET Notes
        /\ ~op.full => k = op.size
        /\ op.full /\ "short" \notin n => ata <= k
    BY <1>2, <2>2 DEF Notes
  <2> HIDE DEF k, n, b
  <2>6. p \in OpType
    BY <1>1, <2>5 DEF OpType
  <2>7. /\ p.pc = "route" /\ p.call = op.call /\ p.full = op.full /\ p.size = k
        /\ p.parts = op.parts /\ p.draining = op.draining
    BY <1>1 DEF OpType
  <2> HIDE DEF p
  <2>8. Continues(p, op, LastCall.want)
    BY <1>2, <1>3, <2>5, <2>6, <2>7 DEF Continues, Shape, Partial, Routed, OnLeg
  <2>9. op.full /\ "short" \notin n => ExitShape(p, ata)
    BY <2>5, <2>7 DEF ExitShape, Routed, OnLeg
  <2>10. Annotated(n)
    BY <1>1, <2>3, <2>5, NotedAnnotates
  <2>11. Advances(n)
    BY <1>0, <1>2, <2>3, <2>4, <2>7, <2>8, <2>9, <2>10 DEF Advances, Unsent
  <2> QED BY <2>11
<1>6. CASE RouteSell
  <2>0. op.pc = "route"
    BY <1>6 DEF RouteSell
  <2>1. PICK read \in BOOLEAN, high \in BOOLEAN, r \in AtaRead :
        \E s \in IF read THEN Sellable(op.size) ELSE {op.size} :
          LET clamped == s < op.size
              close == op.full /\ ~clamped
              viaJupiter == read /\ (curve = "complete" \/ high) /\ s > 0
              o == [op EXCEPT !.size = s, !.clamped = clamped, !.pre = OrZero(r)]
          IN /\ Affordable(~read \/ Misread(r)) /\ Costs(~read \/ Misread(r))
             /\ op' = CASE viaJupiter -> StartJupiter(o, OrZero(r), s, close)
                        [] ~viaJupiter /\ s = 0 /\ ~close -> Done(o, "err")
                        [] OTHER -> SendLeg(o, "sell", s, close)
             /\ Noted(IF viaJupiter /\ op.full /\ clamped THEN {"short"} ELSE {})
    BY <1>6 DEF RouteSell
  <2>2. PICK s \in (IF read THEN Sellable(op.size) ELSE {op.size}) :
          LET clamped == s < op.size
              close == op.full /\ ~clamped
              viaJupiter == read /\ (curve = "complete" \/ high) /\ s > 0
              o == [op EXCEPT !.size = s, !.clamped = clamped, !.pre = OrZero(r)]
          IN /\ Affordable(~read \/ Misread(r)) /\ Costs(~read \/ Misread(r))
             /\ op' = CASE viaJupiter -> StartJupiter(o, OrZero(r), s, close)
                        [] ~viaJupiter /\ s = 0 /\ ~close -> Done(o, "err")
                        [] OTHER -> SendLeg(o, "sell", s, close)
             /\ Noted(IF viaJupiter /\ op.full /\ clamped THEN {"short"} ELSE {})
    BY <2>1
  <2>3. s \in Nat /\ s <= op.size
    BY <1>2, <2>2 DEF Sellable
  <2> DEFINE z == OrZero(r)
             b == ~read \/ Misread(r)
             clamped == s < op.size
             close == op.full /\ ~clamped
             via == read /\ (curve = "complete" \/ high) /\ s > 0
             o == [op EXCEPT !.size = s, !.clamped = clamped, !.pre = z]
             n == IF via /\ op.full /\ clamped THEN {"short"} ELSE {}
  <2>4. z \in Nat /\ (z <= ata \/ z = 0)
    BY ReadFacts
  <2>5. faults' \in Nat
    <3>1. Affordable(b) /\ Costs(b)
      BY <2>2
    <3> HIDE DEF b
    <3> QED BY <1>1, <3>1 DEF Affordable, Costs
  <2>6. /\ Noted(n)
        /\ op' = CASE via -> StartJupiter(o, z, s, close)
                   [] ~via /\ s = 0 /\ ~close -> Done(o, "err")
                   [] OTHER -> SendLeg(o, "sell", s, close)
    BY <2>2
  <2> HIDE DEF z, b
  <2>7. /\ clamped \in BOOLEAN /\ close \in BOOLEAN /\ via \in BOOLEAN /\ n \in SUBSET Notes
        /\ ~op.full => ~close
        /\ op.full /\ ~clamped => close
        /\ ~clamped => s = op.size
        /\ via /\ op.full /\ "short" \notin n => ~clamped
    BY <1>2, <2>3 DEF Notes
  <2> HIDE DEF clamped, close, via, n
  <2>8. o \in OpType
    BY <1>1, <2>3, <2>4, <2>7 DEF OpType
  <2>9. /\ o.pc = op.pc /\ o.call = op.call /\ o.full = op.full /\ o.size = s
        /\ o.clamped = clamped /\ o.pre = z /\ o.parts = op.parts /\ o.draining = op.draining
        /\ o.legs = op.legs
    BY <1>1 DEF OpType
  <2> HIDE DEF o
  <2>10. ~op.full => s <= LastCall.want
    BY <1>1, <1>2, <1>3, <2>3
  <2>11. ExitShape(op, ata) /\ ~clamped => z <= s
    <3>1. ExitShape(op, ata) => ata <= op.size
      BY <2>0 DEF ExitShape
    <3> QED BY <1>1, <1>2, <2>3, <2>4, <2>7, <3>1
  <2>12. Annotated(n)
    BY <1>1, <2>6, <2>7, NotedAnnotates
  <2>13. CASE via
    <3> DEFINE p == StartJupiter(o, z, s, close)
    <3>1. op' = p
      BY <2>6, <2>13
    <3>2. /\ Continues(p, o, LastCall.want)
          /\ p.pc = "quote" /\ p.parts = 1 /\ p.draining = o.draining /\ p.clamped = o.clamped
          /\ p.jclose = close /\ p.jpre = z /\ p.jamt = s
          /\ z <= s => Covered(p)
      <4> DEFINE want == LastCall.want
      <4>1. want \in Nat /\ o.call = "sell"
        BY <1>1, <1>2, <2>9
      <4>2. ~o.full => ~o.draining /\ o.size <= want /\ s <= want /\ ~close
        BY <1>3, <2>7, <2>9, <2>10
      <4> HIDE DEF want, p
      <4>3. LET y == StartJupiter(o, z, s, close)
            IN  /\ Continues(y, o, want)
                /\ y.pc = "quote" /\ y.parts = 1 /\ y.draining = o.draining /\ y.clamped = o.clamped
                /\ y.jclose = close /\ y.jpre = z /\ y.jamt = s
                /\ z <= s => Covered(y)
        BY <2>3, <2>4, <2>7, <2>8, <4>1, <4>2, StartJupiterGood
      <4> QED BY <4>3 DEF p, want
    <3> HIDE DEF p
    <3>3. Continues(p, op, LastCall.want)
      BY <2>9, <3>2 DEF Continues
    <3>4. op.full /\ "short" \notin n /\ ExitShape(op, ata) => ExitShape(p, ata)
      BY <2>7, <2>11, <2>13, <3>2 DEF ExitShape, Routed, OnLeg
    <3>5. Advances(n)
      BY <1>0, <1>2, <2>5, <2>12, <3>1, <3>2, <3>3, <3>4 DEF Advances, Unsent
    <3> QED BY <3>5
  <2>14. CASE ~via /\ s = 0 /\ ~close
    <3> DEFINE p == Done(o, "err")
    <3>1. op' = p
      BY <2>6, <2>14
    <3>2. p.pc = "return" /\ p.res = "err" /\ p.call = op.call /\ p.full = op.full /\ p.size = s
          /\ p.parts = 0 /\ p.draining = FALSE
      BY <2>9 DEF Done, IdleOp
    <3>3. p \in OpType
      BY <2>8, IdleType DEF Done, OpType
    <3> HIDE DEF p
    <3>4. Continues(p, op, LastCall.want)
      BY <1>2, <2>10, <3>2, <3>3 DEF Continues, Shape, Partial, Routed, OnLeg
    <3>5. ExitShape(p, ata)
      BY <3>2 DEF ExitShape, Routed, OnLeg
    <3>6. Advances(n)
      BY <1>0, <1>2, <2>5, <2>12, <3>1, <3>2, <3>4, <3>5 DEF Advances, Unsent
    <3> QED BY <3>6
  <2>15. CASE ~via /\ ~(s = 0 /\ ~close)
    <3> DEFINE kind == "sell"
               p == SendLeg(o, kind, s, close)
    <3>1. op' = p /\ kind = "sell"
      BY <2>6, <2>15
    <3> HIDE DEF kind
    <3>2. /\ p \in OpType
          /\ p.pc = "send" /\ p.call = o.call /\ p.full = o.full /\ p.size = o.size
          /\ p.clamped = o.clamped /\ p.pre = o.pre /\ p.parts = o.parts
          /\ p.draining = o.draining
          /\ p.leg.kind = "sell" /\ p.leg.amount = s /\ p.leg.close = close
      BY <2>3, <2>7, <2>8, <3>1, SendLegFields
    <3> HIDE DEF p
    <3>3. Continues(p, op, LastCall.want)
      BY <1>2, <1>3, <2>7, <2>9, <2>10, <3>2 DEF Continues, Shape, Partial, Routed, OnLeg
    <3>4. op.full /\ ExitShape(op, ata) => ExitShape(p, ata)
      BY <2>7, <2>9, <2>11, <3>2 DEF ExitShape, Routed, OnLeg
    <3>5. Advances(n)
      BY <1>0, <1>2, <2>5, <2>9, <2>12, <3>1, <3>2, <3>3, <3>4 DEF Advances, Unsent
    <3> QED BY <3>5
  <2> QED BY <2>13, <2>14, <2>15
<1> QED BY <1>4, <1>5, <1>6

\* The steps of the drain.
LEMMA DrainAdvances ==
    ASSUME TypeOK, CallInv, DrainLeg \/ DrainStops \/ DrainRemainder
    PROVE  \E n : Advances(n)
<1>0. op.pc \in {"drain", "rem"} /\ UNCHANGED <<curve, ata, net, row>>
  BY DEF DrainLeg, DrainStops, DrainRemainder
<1>1. /\ calls # <<>> /\ LastCall.want \in Nat /\ op \in OpType /\ Shape(op, LastCall.want)
      /\ ata \in Int /\ faults \in Nat
  BY <1>0, Running1
<1>2. op.call = "sell" /\ op.full
  BY <1>0, <1>1 DEF Shape, Partial, OpType
<1>3. ExitShape(op, ata) => op.draining
  BY <1>0 DEF ExitShape
<1>4. CASE DrainLeg
  <2>1. /\ op.pc = "drain" /\ op.legs < MaxLegs /\ ata > 0 /\ UNCHANGED <<calls, faults>>
        /\ \E s \in Sellable(ata) \ {0} :
              op' = IF curve = "complete" THEN StartJupiter([op EXCEPT !.pre = ata], ata, ata, TRUE)
                    ELSE SendLeg([op EXCEPT !.pre = ata], "drain", s, FALSE)
    BY <1>4 DEF DrainLeg
  <2>2. PICK s \in Sellable(ata) :
              op' = IF curve = "complete" THEN StartJupiter([op EXCEPT !.pre = ata], ata, ata, TRUE)
                    ELSE SendLeg([op EXCEPT !.pre = ata], "drain", s, FALSE)
    BY <2>1
  <2>3. ata \in Nat
    BY <1>1, <2>1
  <2>4. s \in Nat
    BY <2>2, <2>3 DEF Sellable
  <2> DEFINE o == [op EXCEPT !.pre = ata]
             yes == TRUE
             no == FALSE
             kind == "drain"
             want == LastCall.want
  <2>5. o \in OpType
    BY <1>1, <2>3 DEF OpType
  <2>6. /\ o.call = op.call /\ o.full = op.full /\ o.parts = op.parts /\ o.draining = op.draining
        /\ o.legs = op.legs
    BY <1>1 DEF OpType
  <2>7. /\ yes \in BOOLEAN /\ no \in BOOLEAN /\ kind = "drain" /\ want \in Nat /\ o.call = "sell"
        /\ op' = IF curve = "complete" THEN StartJupiter(o, ata, ata, yes) ELSE SendLeg(o, kind, s, no)
    BY <1>1, <1>2, <2>2, <2>6
  <2> HIDE DEF o, yes, no, kind, want
  <2>8. CASE curve = "complete"
    <3> DEFINE p == StartJupiter(o, ata, ata, yes)
    <3>1. op' = p
      BY <2>7, <2>8
    <3>2. /\ Continues(p, o, want)
          /\ p.pc = "quote" /\ p.parts = 1 /\ p.draining = o.draining
      <4> DEFINE a == ata
      <4>1. o.full /\ a \in Nat
        BY <1>2, <2>3, <2>6
      <4> HIDE DEF p, a
      <4>2. LET y == StartJupiter(o, a, a, yes)
            IN  /\ Continues(y, o, want)
                /\ y.pc = "quote" /\ y.parts = 1 /\ y.draining = o.draining /\ y.clamped = o.clamped
                /\ y.jclose = yes /\ y.jpre = a /\ y.jamt = a
        <5>1. ~o.full => ~o.draining /\ o.size <= want /\ a <= want /\ ~yes
          BY <4>1
        <5>2. o \in OpType /\ o.call = "sell" /\ want \in Nat /\ yes \in BOOLEAN
          BY <2>5, <2>7
        <5> HIDE DEF o, want, yes
        <5> QED BY <4>1, <5>1, <5>2, StartJupiterGood
      <4> QED BY <4>2 DEF p, a
    <3> HIDE DEF p
    <3>3. Continues(p, op, LastCall.want)
      BY <2>6, <3>2 DEF Continues, want
    <3>4. ExitShape(op, ata) => ExitShape(p, ata)
      BY <1>3, <2>6, <3>2 DEF ExitShape, Routed, OnLeg
    <3>5. Advances({})
      <4>1. p.parts # 2 /\ p.pc \notin {"idle", "wait"} /\ op.pc # "idle" /\ faults' \in Nat
        BY <1>0, <1>1, <2>1, <3>2
      <4>2. ~(op.call = "buy" \/ ~op.full)
        BY <1>2
      <4> QED BY <1>0, <2>1, <3>1, <3>3, <3>4, <4>1, <4>2, StepQuiet
    <3> QED BY <3>5
  <2>9. CASE curve # "complete"
    <3> DEFINE p == SendLeg(o, kind, s, no)
    <3>1. op' = p
      BY <2>7, <2>9
    <3>2. /\ p \in OpType
          /\ p.pc = "send" /\ p.call = o.call /\ p.full = o.full /\ p.parts = o.parts
          /\ p.draining = o.draining /\ p.legs = o.legs /\ p.leg.kind = "drain"
      BY <2>4, <2>5, <2>7, SendLegFields
    <3> HIDE DEF p
    <3>3. Continues(p, op, LastCall.want)
      BY <1>2, <2>1, <2>6, <3>2 DEF Continues, Shape, Routed, OnLeg
    <3>4. ExitShape(op, ata) => ExitShape(p, ata)
      BY <1>3, <2>6, <3>2 DEF ExitShape, Routed, OnLeg
    <3>5. Advances({})
      BY <1>0, <1>1, <1>2, <2>1, <2>6, <3>1, <3>2, <3>3, <3>4, StepQuiet
    <3> QED BY <3>5
  <2> QED BY <2>8, <2>9
<1>5. CASE DrainStops
  <2> DEFINE p == [op EXCEPT !.pc = "rem"]
  <2>1. op' = p /\ UNCHANGED <<calls, faults>>
    BY <1>5 DEF DrainStops
  <2>2. p \in OpType
    BY <1>1 DEF OpType
  <2>3. /\ p.pc = "rem" /\ p.call = op.call /\ p.full = op.full /\ p.parts = op.parts
        /\ p.draining = op.draining
    BY <1>1 DEF OpType
  <2> HIDE DEF p
  <2>4. Continues(p, op, LastCall.want)
    BY <1>2, <2>2, <2>3 DEF Continues, Shape, Routed, OnLeg
  <2>5. ExitShape(op, ata) => ExitShape(p, ata)
    BY <1>3, <2>3 DEF ExitShape, Routed, OnLeg
  <2>6. Advances({})
    BY <1>0, <1>1, <1>2, <2>1, <2>3, <2>4, <2>5, StepQuiet
  <2> QED BY <2>6
<1>6. CASE DrainRemainder
  <2>1. PICK r \in AtaRead :
          /\ IF OrZero(r) = 0 THEN op' = SendLeg(op, "dclose", 0, FALSE) /\ UNCHANGED calls
             ELSE op' = Done(op, "ok") /\ Noted({"short"})
          /\ Costs(Misread(r))
    BY <1>6 DEF DrainRemainder
  <2>2. faults' \in Nat
    BY <1>1, <2>1, ReadFacts DEF Costs
  <2>3. CASE OrZero(r) = 0
    <3> DEFINE no == FALSE
               kind == "dclose"
               p == SendLeg(op, kind, 0, no)
    <3>1. no \in BOOLEAN /\ kind = "dclose" /\ op' = p /\ UNCHANGED calls
      BY <2>1, <2>3
    <3> HIDE DEF no, kind
    <3>2. /\ p \in OpType
          /\ p.pc = "send" /\ p.call = op.call /\ p.full = op.full /\ p.parts = op.parts
          /\ p.draining = op.draining /\ p.leg.kind = "dclose"
      BY <1>1, <3>1, SendLegFields
    <3> HIDE DEF p
    <3>3. Continues(p, op, LastCall.want)
      BY <1>2, <3>2 DEF Continues, Shape, Routed, OnLeg
    <3>4. ExitShape(op, ata) => ExitShape(p, ata)
      BY <1>3, <3>2 DEF ExitShape, Routed, OnLeg
    <3>5. Advances({})
      BY <1>0, <1>2, <2>2, <3>1, <3>2, <3>3, <3>4, StepQuiet
    <3> QED BY <3>5
  <2>4. CASE OrZero(r) # 0
    <3> DEFINE p == Done(op, "ok")
               n == {"short"}
    <3>1. op' = p /\ Noted(n)
      BY <2>1, <2>4
    <3>2. Continues(p, op, LastCall.want) /\ p.pc = "return" /\ p.parts = 0
      BY <1>1, DoneGood DEF Results
    <3>3. n \in SUBSET Notes /\ "short" \in n
      BY DEF Notes
    <3> HIDE DEF p, n
    <3>4. Annotated(n)
      BY <1>1, <3>1, <3>3, NotedAnnotates
    <3>5. Advances(n)
      BY <1>0, <1>2, <2>2, <3>1, <3>2, <3>3, <3>4 DEF Advances, Unsent
    <3> QED BY <3>5
  <2> QED BY <2>3, <2>4
<1> QED BY <1>4, <1>5, <1>6

-----------------------------------------------------------------------------
(***************************************************************************)
(* The manager calls and gets its answer.                                  *)
(***************************************************************************)

\* A new call: nothing of it has been sent.
LEMMA CallStarts ==
    ASSUME TypeOK, CallInv, op.pc = "idle", NEW e \in CallType, calls' = Append(calls, e),
           e.landed = 0, e.kind = "buy" => e.want = Fill,
           op'.pc \in {"prepare", "size"}, Continues(op', op', e.want), op'.parts = 0,
           e.kind = op'.call, e.full = op'.full,
           op'.call = "sell" /\ ~op'.full => e.want <= row.hold,
           UNCHANGED <<curve, ata, net, row, faults>>
    PROVE  TypeOK' /\ CallInv' /\ (OnceInv => OnceInv') /\ ExitInv'
<1> DEFINE n == Len(calls)
<1>1. calls \in Seq(CallType) /\ n \in Nat /\ DOMAIN calls = 1..n
  BY DEF TypeOK
<1>2. /\ calls' \in Seq(CallType) /\ Len(calls') = n + 1 /\ DOMAIN calls' = 1..(n + 1)
      /\ calls'[n + 1] = e /\ \A c \in DOMAIN calls : calls'[c] = calls[c]
      /\ calls' # <<>>
  BY <1>1
<1> HIDE DEF n
<1>3. \A c \in DOMAIN calls' : c = n + 1 \/ (c \in DOMAIN calls /\ c # n + 1)
  BY <1>1, <1>2
<1>4. \A t \in net : t \in TxType' /\ t.call \in DOMAIN calls /\ t.call # n + 1
  <2>1. \A t \in net : t \in TxType /\ t.call \in DOMAIN calls
    BY DEF TypeOK, TxType
  <2>2. DOMAIN calls \subseteq DOMAIN calls'
    BY <1>1, <1>2
  <2>3. TxType \subseteq TxType'
    BY <2>2 DEF TxType
  <2> QED BY <1>1, <2>1, <2>3
<1>5. LastCall' = e
  BY <1>2 DEF LastCall
<1>6. op' \in OpType /\ Shape(op', e.want)
  BY DEF Continues
<1>7. TypeOK'
  <2>1. net \subseteq TxType' /\ op' \in OpType'
    BY <1>4, <1>6 DEF OpType, LegType
  <2>2. op'.pc # "wait"
    OBVIOUS
  <2>3. calls' \in Seq(CallType')
    BY <1>2 DEF CallType
  <2> QED BY <2>1, <2>2, <2>3 DEF TypeOK
<1>8. CallInv'
  <2>1. \A c \in DOMAIN calls' : calls'[c].kind = "buy" => calls'[c].want = Fill
    BY <1>2, <1>3 DEF CallInv
  <2>2. op'.pc # "wait" /\ op'.parts # 2
    OBVIOUS
  <2> QED BY <1>2, <1>5, <1>6, <2>1, <2>2 DEF CallInv, Shape, Partial, Routed, OnLeg
<1>9. ASSUME OnceInv PROVE OnceInv'
  <2> SUFFICES ASSUME NEW c \in DOMAIN calls', Plain(c)' PROVE MovesOnce(c)'
    BY DEF OnceInv
  <2>1. op'.pc # "wait"
    OBVIOUS
  <2>2. CASE c = n + 1
    <3>1. calls'[c] = e /\ \A t \in net : t.call # c
      BY <1>2, <1>4, <2>2
    <3>2. e.landed = 0 /\ e.want \in Nat
      BY DEF CallType
    <3> QED BY <2>1, <3>1, <3>2 DEF MovesOnce, InFlight
  <2>3. CASE c # n + 1
    <3>1. c \in DOMAIN calls /\ calls'[c] = calls[c] /\ c # Len(calls')
      BY <1>2, <1>3, <2>3
    <3>2. Plain(c)
      BY <3>1 DEF Plain
    <3>3. MovesOnce(c)
      BY <1>9, <3>1, <3>2 DEF OnceInv
    <3> QED BY <2>1, <3>1, <3>3 DEF MovesOnce, InFlight, MovedBy
  <2> QED BY <2>2, <2>3
<1>10. ExitInv'
  <2>1. ExitShape(op', ata')
    BY DEF ExitShape, Routed, OnLeg
  <2> QED BY <2>1 DEF ExitInv
<1> QED BY <1>7, <1>8, <1>9, <1>10

\* The manager calls buy or sell.
LEMMA CallInvariant ==
    ASSUME TypeOK, CallInv, Call
    PROVE  TypeOK' /\ CallInv' /\ (OnceInv => OnceInv') /\ ExitInv'
<1>1. CASE CallBuy
  <2> DEFINE e == [kind |-> "buy", full |-> FALSE, want |-> Fill, landed |-> 0,
                   flags |-> {}, res |-> "none"]
             p == [IdleOp EXCEPT !.pc = "prepare", !.call = "buy"]
  <2>1. /\ op.pc = "idle" /\ calls' = Append(calls, e) /\ op' = p
        /\ UNCHANGED <<curve, ata, net, row, faults>>
    BY <1>1 DEF CallBuy, NewCall
  <2>2. e \in CallType
    BY BrokerAssumption DEF CallType
  <2>3. e.kind = "buy" /\ e.full = FALSE /\ e.want = Fill /\ e.landed = 0
    OBVIOUS
  <2>4. p \in OpType
    BY IdleType DEF OpType
  <2>5. p.pc = "prepare" /\ p.call = "buy" /\ p.full = FALSE /\ p.parts = 0
    BY DEF IdleOp
  <2> HIDE DEF e, p
  <2>6. Continues(p, p, e.want)
    BY <2>4, <2>5 DEF Continues, Shape, Routed, OnLeg
  <2> QED BY <2>1, <2>2, <2>3, <2>5, <2>6, CallStarts
<1>2. ASSUME NEW full \in BOOLEAN, CallSell(full)
      PROVE  TypeOK' /\ CallInv' /\ (OnceInv => OnceInv') /\ ExitInv'
  <2> DEFINE want == IF full THEN row.hold ELSE row.hold \div 2
             e == [kind |-> "sell", full |-> full, want |-> want, landed |-> 0,
                   flags |-> {}, res |-> "none"]
             p == [IdleOp EXCEPT !.pc = "size", !.call = "sell", !.full = full, !.size = want]
  <2>1. /\ op.pc = "idle" /\ calls' = Append(calls, e) /\ op' = p
        /\ UNCHANGED <<curve, ata, net, row, faults>>
    BY <1>2 DEF CallSell, NewCall
  <2>2. want \in Nat /\ want <= row.hold
    <3>1. row.hold \in Nat
      BY DEF TypeOK
    <3> QED BY <3>1
  <2> HIDE DEF want
  <2>3. e \in CallType
    BY <2>2 DEF CallType
  <2>4. e.kind = "sell" /\ e.full = full /\ e.want = want /\ e.landed = 0
    OBVIOUS
  <2>5. p \in OpType
    BY <2>2, IdleType DEF OpType
  <2>6. /\ p.pc = "size" /\ p.call = "sell" /\ p.full = full /\ p.size = want /\ p.parts = 0
        /\ p.draining = FALSE
    BY DEF IdleOp
  <2> HIDE DEF e, p
  <2>7. Continues(p, p, e.want)
    BY <2>2, <2>4, <2>5, <2>6 DEF Continues, Shape, Partial, Routed, OnLeg
  <2> QED BY <2>1, <2>2, <2>3, <2>4, <2>6, <2>7, CallStarts
<1> QED BY <1>1, <1>2 DEF Call

\* The ledger when a call returns.
LEMMA ReturnLedger ==
    ASSUME TypeOK, CallInv, ReturnCall
    PROVE  LET x == IF op.res # "ok" /\ op.moved THEN {"unsure"} ELSE {}
           IN  /\ calls' \in Seq(CallType) /\ Len(calls') = Len(calls) /\ DOMAIN calls' = DOMAIN calls
               /\ \A c \in DOMAIN calls :
                    /\ calls'[c].kind = calls[c].kind /\ calls'[c].full = calls[c].full
                    /\ calls'[c].want = calls[c].want /\ calls'[c].landed = calls[c].landed
                    /\ calls'[c].flags = calls[c].flags \cup (IF c = Len(calls) THEN x ELSE {})
<1> DEFINE n == Len(calls)
           x == IF op.res # "ok" /\ op.moved THEN {"unsure"} ELSE {}
           e == [calls[n] EXCEPT !.res = op.res, !.flags = @ \cup x]
<1>1. op.pc = "return" /\ calls # <<>> /\ op \in OpType
  BY DEF ReturnCall, CallInv, TypeOK
<1>2. n \in Nat \ {0} /\ DOMAIN calls = 1..n /\ n \in DOMAIN calls /\ calls[n] \in CallType
      /\ calls \in Seq(CallType)
  BY <1>1, LastOne DEF TypeOK, LastCall
<1>3. calls' = [calls EXCEPT ![n] = e]
  BY DEF ReturnCall
<1>4. x \in SUBSET Notes /\ op.res \in Results
  BY <1>1 DEF Notes, OpType, Results
<1> HIDE DEF x
<1>5. e \in CallType
  BY <1>2, <1>4 DEF CallType, Notes, Results
<1>6. /\ e.kind = calls[n].kind /\ e.full = calls[n].full /\ e.want = calls[n].want
      /\ e.landed = calls[n].landed /\ e.flags = calls[n].flags \cup x
  BY <1>2 DEF CallType
<1> HIDE DEF e, n
<1>7. /\ [calls EXCEPT ![n] = e] \in Seq(CallType)
      /\ Len([calls EXCEPT ![n] = e]) = Len(calls)
  BY <1>2, <1>5, ExceptSeq DEF n
<1>8. DOMAIN calls' = DOMAIN calls
  BY <1>3
<1>9. calls'[n] = e /\ \A c \in DOMAIN calls : c # n => calls'[c] = calls[c]
  BY <1>2, <1>3
<1> QED BY <1>3, <1>6, <1>7, <1>8, <1>9 DEF n, x

\* The call returns.
LEMMA ReturnInvariant ==
    ASSUME TypeOK, CallInv, ReturnCall
    PROVE  TypeOK' /\ CallInv' /\ (OnceInv => OnceInv') /\ ExitInv'
<1> DEFINE n == Len(calls)
<1>1. op.pc = "return" /\ row' = RowAfter /\ op' = IdleOp /\ UNCHANGED <<curve, ata, net, faults>>
  BY DEF ReturnCall
<1>2. /\ calls # <<>> /\ op \in OpType /\ LastCall.kind = op.call /\ LastCall.full = op.full
      /\ op.call = "sell" /\ ~op.full => LastCall.want <= row.hold
  BY <1>1 DEF CallInv, TypeOK
<1>3. n \in Nat \ {0} /\ DOMAIN calls = 1..n /\ n \in DOMAIN calls /\ calls[n] \in CallType
      /\ calls \in Seq(CallType)
  BY <1>2, LastOne DEF TypeOK, LastCall
<1>4. op.res \in Results /\ op.size \in Nat /\ op.call \in {"none", "buy", "sell"} /\ op.full \in BOOLEAN
  BY <1>2 DEF OpType, Results
<1> HIDE DEF n
<1>5. /\ calls' \in Seq(CallType) /\ Len(calls') = n /\ DOMAIN calls' = DOMAIN calls
      /\ \A c \in DOMAIN calls :
           /\ calls'[c].kind = calls[c].kind /\ calls'[c].full = calls[c].full
           /\ calls'[c].want = calls[c].want /\ calls'[c].landed = calls[c].landed
           /\ calls[c].flags \subseteq calls'[c].flags
  BY ReturnLedger DEF n
<1>6. row' \in [st : {"none", "open", "closed"}, hold : Nat]
  <2>1. row \in [st : {"none", "open", "closed"}, hold : Nat]
    BY DEF TypeOK
  <2>2. CASE op.res # "ok"
    BY <1>1, <2>1, <2>2 DEF RowAfter
  <2>3. CASE op.res = "ok" /\ op.call = "buy"
    <3>1. row' = [st |-> "open", hold |-> op.size]
      BY <1>1, <2>3 DEF RowAfter
    <3> QED BY <1>4, <3>1
  <2>4. CASE op.res = "ok" /\ op.call # "buy" /\ op.full
    <3>1. row' = [st |-> "closed", hold |-> 0]
      BY <1>1, <2>4 DEF RowAfter
    <3> QED BY <3>1
  <2>5. CASE op.res = "ok" /\ op.call # "buy" /\ ~op.full
    <3> DEFINE h == row.hold - calls[n].want
    <3>1. row' = [row EXCEPT !.hold = h]
      BY <1>1, <2>5 DEF RowAfter, n
    <3>2. op.call = "sell"
      <4>1. calls[n].kind \in {"buy", "sell"}
        BY <1>3 DEF CallType
      <4> QED BY <1>2, <2>5, <4>1 DEF LastCall, n
    <3>3. calls[n].want \in Nat /\ calls[n].want <= row.hold /\ row.hold \in Nat
      BY <1>2, <1>3, <2>1, <2>5, <3>2 DEF LastCall, CallType, n
    <3>4. h \in Nat
      BY <3>3
    <3> HIDE DEF h
    <3> QED BY <2>1, <3>1, <3>4
  <2> QED BY <2>2, <2>3, <2>4, <2>5
<1>7. IdleOp.pc = "idle"
  BY DEF IdleOp
<1>8. TypeOK'
  <2>1. op' \in OpType'
    BY <1>1, IdleType DEF OpType, LegType
  <2>2. calls' \in Seq(CallType')
    BY <1>5 DEF CallType
  <2>3. net' \subseteq TxType'
    BY <1>1, <1>5 DEF TypeOK, TxType
  <2> QED BY <1>1, <1>6, <1>7, <2>1, <2>2, <2>3 DEF TypeOK
<1>9. CallInv'
  BY <1>1, <1>5, <1>7 DEF CallInv
<1>10. ASSUME OnceInv PROVE OnceInv'
  <2> SUFFICES ASSUME NEW c \in DOMAIN calls', Plain(c)' PROVE MovesOnce(c)'
    BY DEF OnceInv
  <2>1. c \in DOMAIN calls /\ op'.pc = "idle" /\ net' = net
    BY <1>1, <1>5, <1>7
  <2>2. Plain(c)
    BY <1>5, <2>1 DEF Plain
  <2>3. MovesOnce(c)
    BY <1>10, <2>1, <2>2 DEF OnceInv
  <2> QED BY <1>5, <2>1, <2>3 DEF MovesOnce, InFlight, MovedBy, Unsent
<1>11. ExitInv'
  BY <1>1, <1>7 DEF ExitInv
<1> QED BY <1>8, <1>9, <1>10, <1>11

-----------------------------------------------------------------------------
(***************************************************************************)
(* The theorems.                                                           *)
(***************************************************************************)
BrokerInv == TypeOK /\ CallInv /\ OnceInv /\ ExitInv

LEMMA InitInv == Init => BrokerInv
<1> SUFFICES ASSUME Init PROVE BrokerInv
  OBVIOUS
<1>1. /\ calls = <<>> /\ DOMAIN calls = {} /\ net = {} /\ op = IdleOp /\ op.pc = "idle"
      /\ op \in OpType
  BY IdleType DEF Init, IdleOp
<1>2. TypeOK
  <2>1. row \in [st : {"none", "open", "closed"}, hold : Nat]
    BY DEF Init
  <2>2. calls \in Seq(CallType)
    BY <1>1
  <2>3. IsFiniteSet(net)
    BY <1>1, FS_EmptySet
  <2> QED BY <1>1, <2>1, <2>2, <2>3, BrokerAssumption DEF Init, TypeOK, Absent
<1>3. CallInv /\ OnceInv /\ ExitInv
  BY <1>1 DEF CallInv, OnceInv, ExitInv
<1> QED BY <1>2, <1>3 DEF BrokerInv

LEMMA AdvanceInv ==
    ASSUME BrokerInv, NEW n, Advances(n)
    PROVE  BrokerInv'
BY AdvanceCall, AdvanceOnce, AdvanceExit DEF BrokerInv

LEMMA StepInv == BrokerInv /\ [Next]_vars => BrokerInv'
<1> SUFFICES ASSUME BrokerInv, [Next]_vars PROVE BrokerInv'
  OBVIOUS
<1>0. TypeOK /\ CallInv /\ OnceInv /\ ExitInv
  BY DEF BrokerInv
<1>1. ASSUME UNCHANGED vars PROVE BrokerInv'
  <2>1. /\ curve' = curve /\ ata' = ata /\ net' = net /\ op' = op /\ row' = row
        /\ calls' = calls /\ faults' = faults
    BY <1>1 DEF vars
  <2>2. TypeOK'
    BY <1>0, <2>1 DEF TypeOK, OpType, LegType, TxType, CallType, Own
  <2>3. CallInv'
    BY <1>0, <2>1 DEF CallInv, LastCall, Own
  <2>4. OnceInv'
    BY <1>0, <2>1 DEF OnceInv, Plain, MovesOnce, InFlight, MovedBy, Own
  <2>5. ExitInv'
    BY <1>0, <2>1 DEF ExitInv, LastCall
  <2> QED BY <2>2, <2>3, <2>4, <2>5 DEF BrokerInv
<1>2. CASE Call
  BY <1>0, <1>2, CallInvariant DEF BrokerInv
<1>3. CASE Running
  <2>1. CASE Leg
    <3>1. CASE BlockhashFails \/ (\E t \in net : WaitOk(t) \/ WaitFails(t) \/ WaitGivesUp(t))
      BY <1>0, <3>1, LegAdvances, AdvanceInv
    <3>2. CASE SendAccepted
      BY <1>0, <3>2, AcceptInv DEF BrokerInv
    <3>3. CASE SendErrors
      BY <1>0, <3>3, ErrorsInv, AdvanceInv DEF BrokerInv
    <3> QED BY <2>1, <3>1, <3>2, <3>3 DEF Leg
  <2>2. CASE PollSeesSell \/ PollTimesOut
    BY <1>0, <2>2, PollAdvances, AdvanceInv
  <2>3. CASE QuoteFound \/ QuoteFails \/ CloseAfterJupiter
    BY <1>0, <2>3, QuoteAdvances, AdvanceInv
  <2>4. CASE BuyRefused \/ BuyRouted \/ BuyQuoted \/ NoBuyRoute \/ FillMeasured \/ FillFloored
    BY <1>0, <2>4, BuyAdvances, AdvanceInv
  <2>8. CASE FillQuoted
    <3> DEFINE n == {"quoted"}
    <3>1. Advances(n)
      BY <1>0, <2>8, QuotedAdvances
    <3> HIDE DEF n
    <3> QED BY <3>1, AdvanceInv
  <2>5. CASE SellRefused \/ SizeSell \/ RouteSell
    BY <1>0, <2>5, SellAdvances, AdvanceInv
  <2>6. CASE DrainLeg \/ DrainStops \/ DrainRemainder
    BY <1>0, <2>6, DrainAdvances, AdvanceInv
  <2>7. CASE ReturnCall
    BY <1>0, <2>7, ReturnInvariant DEF BrokerInv
  <2> QED BY <1>3, <2>1, <2>2, <2>3, <2>4, <2>5, <2>6, <2>7, <2>8 DEF Running
<1>4. CASE Network
  <2>1. CASE Graduate
    <3>1. /\ curve' = "complete" /\ ata' = ata /\ net' = net /\ op' = op /\ row' = row
          /\ calls' = calls /\ faults' = faults
      BY <2>1 DEF Graduate
    <3>2. TypeOK'
      BY <1>0, <3>1 DEF TypeOK, OpType, LegType, TxType, CallType, Own
    <3>3. CallInv'
      BY <1>0, <3>1 DEF CallInv, LastCall, Own
    <3>4. OnceInv'
      BY <1>0, <3>1 DEF OnceInv, Plain, MovesOnce, InFlight, MovedBy, Own
    <3>5. ExitInv'
      BY <1>0, <3>1 DEF ExitInv, LastCall
    <3> QED BY <3>2, <3>3, <3>4, <3>5 DEF BrokerInv
  <2>2. ASSUME NEW t \in net, Process(t) \/ Reject(t) \/ Drop(t) PROVE BrokerInv'
    BY <1>0, <2>2, UnlandedInv DEF BrokerInv
  <2>3. ASSUME NEW t \in net, Confirm(t) PROVE BrokerInv'
    BY <1>0, <2>3, ConfirmInv DEF BrokerInv
  <2> QED BY <1>4, <2>1, <2>2, <2>3 DEF Network
<1>5. CASE Finished
  BY <1>1, <1>5 DEF Finished
<1> QED BY <1>1, <1>2, <1>3, <1>4, <1>5 DEF Next

LEMMA Invariance == Spec => []BrokerInv
<1> QED BY InitInv, StepInv, PTL DEF Spec

\* Type correctness: send attempts, slippage steps and drain legs stay within the limits of
\* their loops, amounts never become negative, although balances are deducted and rows are
\* reduced by what was asked for, and the transaction a call waits for is always there.
THEOREM TypeCorrect == Spec => []TypeOK
<1>1. BrokerInv => TypeOK
  BY DEF BrokerInv
<1> QED BY <1>1, Invariance, PTL

\* A buy or a partial sell moves more than it was asked to only when a send that reported an
\* error had reached the cluster, or when Jupiter was retried in chunks from the full amount:
\* send_with_retries sends again only after errors, and no other path of buy and sell sends
\* again before the transaction before it is known to have failed.
THEOREM EachCallMovesOnce == Spec => []TradesOnce
<1>1. BrokerInv => TradesOnce
  <2> SUFFICES ASSUME BrokerInv, NEW c \in DOMAIN calls,
                      calls[c].kind = "buy" \/ ~calls[c].full, calls[c].landed > calls[c].want,
                      calls[c].flags \cap {"lied", "rechunked"} = {}
               PROVE  FALSE
    BY DEF TradesOnce
  <2>1. MovesOnce(c)
    BY DEF BrokerInv, OnceInv, Plain
  <2>2. calls[c] \in CallType
    BY DEF BrokerInv, TypeOK
  <2>3. calls[c].landed \in Nat /\ calls[c].want \in Nat
    BY <2>2 DEF CallType
  <2> QED BY <2>1, <2>3 DEF MovesOnce
<1> QED BY <1>1, Invariance, PTL

\* A full exit that returns Ok leaves the token account empty, through the curve, Jupiter's
\* chunks or the drain, unless the ledger says why not: the amount came from the manager, was
\* clamped and routed to Jupiter, the drain stopped short, or a buy landed meanwhile.
THEOREM FullExitsEmpty == Spec => FullExitEmptied
<1> DEFINE Empties == op.pc = "return" /\ op'.pc = "idle" /\ op.call = "sell" /\ op.full /\ op.res = "ok"
                         => \/ ata <= 0
                            \/ "short" \in calls[Len(calls)].flags
<1>1. BrokerInv => Empties
  BY DEF BrokerInv, ExitInv, ExitShape, LastCall
<1>2. BrokerInv /\ [Next]_vars => [Empties]_vars
  BY <1>1
<1> QED BY <1>2, Invariance, PTL DEF Spec, FullExitEmptied

-----------------------------------------------------------------------------
(***************************************************************************)
(* The manager and the chain agree.  A sell that is not a full exit is     *)
(* followed leg by leg: what it has landed and what it still asks for stay *)
(* within its amount, and the balance a leg is confirmed against is not    *)
(* above the account, so that the poll is not satisfied before the leg has *)
(* landed.                                                                 *)
(***************************************************************************)

\* What the chunks that are left add up to.
Rest(o) == (Len(o.chunks) - 1) * (o.jamt \div ChunkParts) + o.chunks[Len(o.chunks)]

Positive(o) ==
    /\ o.chunks[Len(o.chunks)] > 0
    /\ \A i \in 1..(Len(o.chunks) - 1) : o.chunks[i] = o.jamt \div ChunkParts /\ o.chunks[i] > 0

\* A partial sell that has landed n tokens, with b in the account before its next leg.
PartAhead(o, b, n, want) ==
    /\ o.pc \in {"size", "route"} \/ (OnLeg(o) /\ o.leg.kind = "sell") => ~o.moved
    /\ OnLeg(o) /\ o.leg.kind = "sell" => o.leg.amount > 0 /\ o.pre <= b
    /\ Routed(o) =>
         /\ o.cpre <= b /\ n + Rest(o) <= want /\ Positive(o)
         /\ o.parts = 1 => ~o.moved /\ o.jpre <= b /\ o.jamt > 0 /\ o.jamt <= want
         /\ OnLeg(o) => o.leg.amount = o.chunks[1]
    /\ o.pc = "return" /\ o.res = "ok" => n <= want

\* A sell none of whose legs is confirmed.
Unmoved(o, n) ==
    /\ n = 0 /\ o.pc \notin {"jread", "drain", "rem"}
    /\ OnLeg(o) => o.leg.kind \in {"sell", "jsell"} /\ (o.leg.close => o.leg.kind = "sell")

Ahead(o, b, n, want) ==
    /\ ~o.moved => Unmoved(o, n)
    /\ ~o.full => PartAhead(o, b, n, want)

\* The chunks add up to no more than the amount, and none is empty.
LEMMA ChunksExact ==
    ASSUME NEW total \in Nat \ {0}, NEW parts \in Nat \ {0}
    PROVE  LET c == ChunkAmounts(total, parts)
               n == Len(c)
               q == total \div parts
           IN  /\ (n - 1) * q + c[n] <= total /\ c[n] > 0
               /\ \A i \in 1..(n - 1) : c[i] = q /\ c[i] > 0
<1> DEFINE c == ChunkAmounts(total, parts)
           q == total \div parts
<1>1. q \in Nat /\ q * parts <= total /\ total < q * parts + parts
  OBVIOUS
<1>2. CASE parts <= 1 \/ total < parts * MinChunk
  <2>1. c = <<total>>
    BY <1>2 DEF ChunkAmounts
  <2>2. Len(c) = 1 /\ c[1] = total
    BY <2>1
  <2> HIDE DEF c, q
  <2>3. (1 - 1) * q + total <= total /\ 1..(1 - 1) = {}
    BY <1>1
  <2> QED BY <2>2, <2>3 DEF c, q
<1>3. CASE ~(parts <= 1 \/ total < parts * MinChunk)
  <2>1. c = [i \in 1..parts |-> IF i < parts THEN q ELSE total - q * (parts - 1)]
    BY <1>3 DEF ChunkAmounts
  <2>2. total >= parts
    <3>1. MinChunk \in Nat /\ MinChunk >= 1 /\ total >= parts * MinChunk
      BY <1>3, BrokerAssumption
    <3>2. parts * MinChunk >= parts
      BY <3>1
    <3> QED BY <3>1, <3>2
  <2> HIDE DEF c, q
  <2>3. q > 0
    <3> SUFFICES ASSUME q = 0 PROVE FALSE
      BY <1>1
    <3>1. q * parts = 0
      OBVIOUS
    <3> QED BY <1>1, <2>2, <3>1
  <2>4. q * (parts - 1) = q * parts - q /\ q * (parts - 1) \in Int /\ q * parts \in Int
    BY <1>1
  <2>5. c \in Seq(Int) /\ Len(c) = parts
    <3>1. c \in [1..parts -> Int]
      BY <1>1, <2>1, <2>4
    <3> QED BY <3>1
  <2>6. c[parts] = total - q * (parts - 1) /\ \A i \in 1..(parts - 1) : c[i] = q
    BY <2>1
  <2>7. (parts - 1) * q = q * (parts - 1)
    BY <1>1
  <2>8. (parts - 1) * q + c[parts] <= total /\ c[parts] > 0
    BY <1>1, <2>3, <2>4, <2>6, <2>7
  <2> QED BY <2>3, <2>5, <2>6, <2>8 DEF c, q
<1> QED BY <1>2, <1>3

\* A full exit with a confirmed leg is past all doubt.
LEMMA AheadMoved ==
    ASSUME NEW o, o.full, o.moved, NEW b, NEW n, NEW want
    PROVE  Ahead(o, b, n, want)
BY DEF Ahead

LEMMA AheadDone ==
    ASSUME NEW o, NEW b, NEW n, NEW want, ~o.moved => n = 0, NEW res,
           res = "ok" => o.full \/ n <= want
    PROVE  Ahead(Done(o, res), b, n, want) /\ Done(o, res).moved = o.moved
<1> DEFINE p == Done(o, res)
<1>1. p.pc = "return" /\ p.full = o.full /\ p.moved = o.moved /\ p.res = res
  BY DEF Done, IdleOp
<1> HIDE DEF p
<1>2. Ahead(p, b, n, want)
  BY <1>1 DEF Ahead, PartAhead, Unmoved, OnLeg, Routed
<1> QED BY <1>1, <1>2 DEF p

\* The leg stays what it was: it is sent, awaited, confirmed.
LEMMA AheadSame ==
    ASSUME NEW o, NEW p, OnLeg(o), OnLeg(p), p.leg = o.leg, p.full = o.full, p.moved = o.moved,
           p.pre = o.pre, p.parts = o.parts, p.chunks = o.chunks, p.jamt = o.jamt,
           p.jpre = o.jpre, p.cpre = o.cpre, NEW b, NEW n, NEW want, Ahead(o, b, n, want)
    PROVE  Ahead(p, b, n, want)
<1>1. Rest(p) = Rest(o) /\ (Positive(p) <=> Positive(o)) /\ (Routed(p) <=> Routed(o))
  BY DEF Rest, Positive, Routed, OnLeg
<1>2. Unmoved(o, n) => Unmoved(p, n)
  BY DEF Unmoved, OnLeg
<1>3. ~o.full => PartAhead(p, b, n, want)
  BY <1>1 DEF Ahead, PartAhead, OnLeg
<1> QED BY <1>2, <1>3 DEF Ahead

LEMMA AheadStart ==
    ASSUME NEW want \in Nat, NEW o \in OpType, NEW pre \in Nat, NEW amount \in Nat,
           NEW close \in BOOLEAN, NEW b, NEW n, ~o.moved => n = 0,
           ~o.full => ~o.moved /\ pre <= b /\ amount > 0 /\ amount <= want
    PROVE  LET p == StartJupiter(o, pre, amount, close)
           IN  Ahead(p, b, n, want) /\ p.moved = o.moved
<1> DEFINE c == ChunkAmounts(amount, 1)
           x == [o EXCEPT !.parts = 1, !.chunks = c, !.jamt = amount,
                          !.jpre = pre, !.cpre = pre, !.jclose = close]
           p == Quoting(x)
<1>1. StartJupiter(o, pre, amount, close) = p
  BY DEF StartJupiter
<1>2. c \in Seq(Nat) /\ Len(c) = 1 /\ c[1] = amount /\ c # <<>>
  BY ChunksCover
<1> HIDE DEF c
<1>3. x \in OpType
  <2>1. 1 \in 0..2
    OBVIOUS
  <2> QED BY <1>2, <2>1 DEF OpType
<1>4. /\ x.full = o.full /\ x.parts = 1 /\ x.chunks = c /\ x.jamt = amount /\ x.jpre = pre
      /\ x.cpre = pre /\ x.moved = o.moved
  BY DEF OpType
<1> HIDE DEF x
<1>5. /\ p.pc = "quote" /\ p.full = o.full /\ p.parts = 1 /\ p.chunks = c /\ p.jamt = amount
      /\ p.jpre = pre /\ p.cpre = pre
  BY <1>3, <1>4, QuotingFields
<1>6. p.moved = o.moved
  BY <1>3, <1>4 DEF Quoting, OpType
<1> HIDE DEF p
<1>7. ~o.full => n + Rest(p) <= want /\ Positive(p)
  <2> SUFFICES ASSUME ~o.full PROVE n + Rest(p) <= want /\ Positive(p)
    OBVIOUS
  <2> DEFINE q == amount \div ChunkParts
  <2>1. q \in Nat
    BY BrokerAssumption
  <2> HIDE DEF q
  <2>2. (1 - 1) * q = 0 /\ 1..(1 - 1) = {}
    BY <2>1
  <2>3. Rest(p) = (1 - 1) * q + amount
    BY <1>2, <1>5 DEF Rest, q
  <2>4. Positive(p)
    BY <1>2, <1>5, <2>2 DEF Positive
  <2> QED BY <2>2, <2>3, <2>4
<1>8. Ahead(p, b, n, want)
  BY <1>5, <1>6, <1>7 DEF Ahead, PartAhead, Unmoved, OnLeg
<1> QED BY <1>1, <1>6, <1>8

LEMMA AheadChunkFailed ==
    ASSUME NEW want \in Nat, NEW o \in OpType, Shape(o, want), Routed(o), NEW b, NEW n,
           Ahead(o, b, n, want)
    PROVE  Ahead(ChunkFailed(o), b, n, want) /\ ChunkFailed(o).moved = o.moved
<1> DEFINE p == ChunkFailed(o)
<1>1. CASE o.parts = 1
  <2> DEFINE c == ChunkAmounts(o.jamt, ChunkParts)
             x == [o EXCEPT !.parts = 2, !.chunks = c, !.cpre = o.jpre]
             k == Len(c)
             q == o.jamt \div ChunkParts
  <2>1. p = Quoting(x)
    BY <1>1 DEF ChunkFailed
  <2>2. o.jamt \in Nat /\ o.jpre \in Nat /\ ChunkParts \in Nat \ {0}
    BY BrokerAssumption DEF OpType
  <2>3. c \in Seq(Nat)
    BY <2>2, ChunksCover
  <2>4. ~o.full => /\ (k - 1) * q + c[k] <= o.jamt /\ c[k] > 0
                   /\ \A i \in 1..(k - 1) : c[i] = q /\ c[i] > 0
    <3> SUFFICES ASSUME ~o.full
                 PROVE  /\ (k - 1) * q + c[k] <= o.jamt /\ c[k] > 0
                        /\ \A i \in 1..(k - 1) : c[i] = q /\ c[i] > 0
      OBVIOUS
    <3>1. o.jamt \in Nat \ {0}
      BY <1>1, <2>2 DEF Ahead, PartAhead
    <3> QED BY <2>2, <3>1, ChunksExact
  <2> HIDE DEF c
  <2>5. x \in OpType
    <3>1. 2 \in 0..2
      OBVIOUS
    <3> QED BY <2>2, <2>3, <3>1 DEF OpType
  <2>6. /\ x.full = o.full /\ x.parts = 2 /\ x.chunks = c /\ x.jamt = o.jamt /\ x.jpre = o.jpre
        /\ x.cpre = o.jpre /\ x.moved = o.moved
    BY DEF OpType
  <2> HIDE DEF x
  <2>7. /\ p.pc = "quote" /\ p.full = o.full /\ p.parts = 2 /\ p.chunks = c /\ p.jamt = o.jamt
        /\ p.cpre = o.jpre
    BY <2>1, <2>5, <2>6, QuotingFields
  <2>8. p.moved = o.moved
    BY <2>1, <2>5, <2>6 DEF Quoting, OpType
  <2> HIDE DEF p
  <2>9. ~o.full => /\ n = 0 /\ o.jpre <= b /\ o.jamt <= want
    BY <1>1 DEF Ahead, PartAhead, Unmoved
  <2>10. ~o.full => n + Rest(p) <= want /\ Positive(p)
    <3> SUFFICES ASSUME ~o.full PROVE n + Rest(p) <= want /\ Positive(p)
      OBVIOUS
    <3>1. Rest(p) = (k - 1) * q + c[k] /\ Positive(p)
      BY <2>4, <2>7 DEF Rest, Positive
    <3>2. (k - 1) * q + c[k] \in Int
      <4>1. q \in Nat /\ k \in Nat
        BY <2>2, <2>3
      <4>2. c[k] \in Nat
        <5>1. k # 0
          BY <2>3, <2>4, ChunksCover, <2>2 DEF c
        <5> QED BY <2>3, <4>1, <5>1
      <4> HIDE DEF q, k
      <4>3. (k - 1) * q \in Int
        BY <4>1
      <4> QED BY <4>2, <4>3
    <3> HIDE DEF q, k
    <3>3. n + ((k - 1) * q + c[k]) <= want
      BY <2>2, <2>4, <2>9, <3>2
    <3> QED BY <3>1, <3>3
  <2>11. Ahead(p, b, n, want)
    BY <2>7, <2>8, <2>9, <2>10 DEF Ahead, PartAhead, Unmoved, OnLeg
  <2> QED BY <2>8, <2>11 DEF p
<1>2. CASE o.parts # 1
  <2>1. p = Done(o, "exhausted")
    BY <1>2 DEF ChunkFailed
  <2>2. ~o.moved => n = 0
    BY DEF Ahead, Unmoved
  <2> DEFINE res == "exhausted"
  <2>3. Ahead(Done(o, res), b, n, want) /\ Done(o, res).moved = o.moved
    <3>1. res # "ok"
      OBVIOUS
    <3> HIDE DEF res
    <3> QED BY <2>2, <3>1, AheadDone
  <2> QED BY <2>1, <2>3
<1> QED BY <1>1, <1>2

\* The end of a chunk forgets neither that tokens have moved nor what the call is.
LEMMA ChunkDoneKeeps ==
    ASSUME NEW o \in OpType
    PROVE  ChunkDone(o).moved = o.moved /\ ChunkDone(o).full = o.full
<1> DEFINE t == Tail(o.chunks)
           cp == IF o.cpre > Head(o.chunks) THEN o.cpre - Head(o.chunks) ELSE 0
           x == [o EXCEPT !.chunks = t, !.cpre = cp]
           p == ChunkDone(o)
<1>1. x.moved = o.moved /\ x.full = o.full
  BY DEF OpType
<1>2. p = IF x.chunks # <<>> THEN Quoting(x)
          ELSE IF x.draining THEN [x EXCEPT !.pc = "rem", !.tx = 0] ELSE Done(x, "ok")
  BY DEF ChunkDone
<1>3. DOMAIN x = DOMAIN o /\ "moved" \in DOMAIN o /\ "full" \in DOMAIN o
  BY DEF OpType
<1> HIDE DEF x, p, t, cp
<1>4. Quoting(x).moved = x.moved /\ Quoting(x).full = x.full
  BY <1>3 DEF Quoting
<1>5. LET y == [x EXCEPT !.pc = "rem", !.tx = 0] IN y.moved = x.moved /\ y.full = x.full
  BY <1>3
<1>6. Done(x, "ok").moved = x.moved /\ Done(x, "ok").full = x.full
  BY DEF Done, IdleOp
<1> QED BY <1>1, <1>2, <1>4, <1>5, <1>6 DEF p

\* A leg of a sell failed.
LEMMA AheadFailed ==
    ASSUME NEW want \in Nat, NEW o \in OpType, Shape(o, want), o.pc \in {"send", "wait"},
           o.call = "sell", NEW b, NEW n, Ahead(o, b, n, want), NEW e
    PROVE  Ahead(OnFailed(o, e), b, n, want) /\ OnFailed(o, e).moved = o.moved
<1> DEFINE p == OnFailed(o, e)
<1>0. /\ OnLeg(o) /\ o.leg \in LegType /\ o.leg.kind \notin {"none", "buy", "jbuy"}
      /\ (~o.moved => n = 0) /\ o.moved \in BOOLEAN /\ o.full \in BOOLEAN
  BY DEF OnLeg, Shape, OpType, Ahead, Unmoved
<1>1. Ahead(Done(o, "err"), b, n, want) /\ Done(o, "err").moved = o.moved
  <2> DEFINE res == "err"
  <2>1. res # "ok"
    OBVIOUS
  <2> HIDE DEF res
  <2>2. Ahead(Done(o, res), b, n, want) /\ Done(o, res).moved = o.moved
    BY <1>0, <2>1, AheadDone
  <2> QED BY <2>2 DEF res
<1>2. CASE o.leg.kind = "sell"
  <2>1. CASE e = "6005" /\ o.leg.amount > 0
    <3>1. p = StartJupiter(o, o.pre, o.leg.amount, o.leg.close)
      BY <1>2, <2>1 DEF OnFailed
    <3> DEFINE pre == o.pre
               amount == o.leg.amount
               close == o.leg.close
    <3>2. pre \in Nat /\ amount \in Nat /\ close \in BOOLEAN
      BY <1>0 DEF OpType, LegType
    <3>3. ~o.full => ~o.moved /\ pre <= b /\ amount > 0 /\ amount <= want
      BY <1>0, <1>2 DEF Ahead, PartAhead, Shape, Partial
    <3> HIDE DEF pre, amount, close
    <3>4. LET y == StartJupiter(o, pre, amount, close) IN Ahead(y, b, n, want) /\ y.moved = o.moved
      <4>1. ~o.moved => n = 0
        BY <1>0
      <4> QED BY <3>2, <3>3, <4>1, AheadStart
    <3> QED BY <3>1, <3>4 DEF pre, amount, close
  <2>2. CASE ~(e = "6005" /\ o.leg.amount > 0)
    <3>1. p = Done(o, "err")
      BY <1>2, <2>2 DEF OnFailed
    <3> QED BY <1>1, <3>1
  <2> QED BY <2>1, <2>2
<1>3. CASE o.leg.kind = "drain"
  <2>1. o.full /\ o.moved
    BY <1>0, <1>3 DEF Ahead, Unmoved, Shape, Partial
  <2>2. CASE e = "6005"
    <3>1. p = StartJupiter(o, o.pre, o.pre, TRUE)
      BY <1>3, <2>2 DEF OnFailed
    <3> DEFINE pre == o.pre
               yes == TRUE
    <3>2. pre \in Nat /\ yes \in BOOLEAN
      BY DEF OpType
    <3> HIDE DEF pre, yes
    <3>3. LET y == StartJupiter(o, pre, pre, yes) IN Ahead(y, b, n, want) /\ y.moved = o.moved
      BY <1>0, <2>1, <3>2, AheadStart
    <3> QED BY <3>1, <3>3 DEF pre, yes
  <2>3. CASE e # "6005"
    <3>1. p = Done(o, "err")
      BY <1>3, <2>3 DEF OnFailed
    <3> QED BY <1>1, <3>1
  <2> QED BY <2>2, <2>3
<1>4. CASE o.leg.kind = "jsell"
  <2>1. CASE e = "6005" /\ ~o.rebuilt
    <3> DEFINE q == [o EXCEPT !.pc = "quote", !.rebuilt = TRUE, !.tx = 0]
    <3>1. p = q
      BY <1>4, <2>1 DEF OnFailed
    <3>2. /\ q.pc = "quote" /\ q.full = o.full /\ q.moved = o.moved /\ q.parts = o.parts
          /\ q.chunks = o.chunks /\ q.jamt = o.jamt /\ q.jpre = o.jpre /\ q.cpre = o.cpre
      BY DEF OpType
    <3> HIDE DEF p, q
    <3>3. Rest(q) = Rest(o) /\ (Positive(q) <=> Positive(o)) /\ Routed(o)
      BY <1>0, <1>4, <3>2 DEF Rest, Positive, Routed
    <3>4. Ahead(q, b, n, want)
      BY <1>0, <3>2, <3>3 DEF Ahead, PartAhead, Unmoved, OnLeg
    <3> QED BY <3>1, <3>2, <3>4 DEF p
  <2>2. CASE ~(e = "6005" /\ ~o.rebuilt) /\ e = "slip" /\ o.slip < SlipSteps
    <3> DEFINE q == [o EXCEPT !.pc = "quote", !.slip = @ + 1, !.rebuilt = FALSE, !.tx = 0]
    <3>1. p = q
      BY <1>4, <2>2 DEF OnFailed
    <3>2. /\ q.pc = "quote" /\ q.full = o.full /\ q.moved = o.moved /\ q.parts = o.parts
          /\ q.chunks = o.chunks /\ q.jamt = o.jamt /\ q.jpre = o.jpre /\ q.cpre = o.cpre
      BY DEF OpType
    <3> HIDE DEF p, q
    <3>3. Rest(q) = Rest(o) /\ (Positive(q) <=> Positive(o)) /\ Routed(o)
      BY <1>0, <1>4, <3>2 DEF Rest, Positive, Routed
    <3>4. Ahead(q, b, n, want)
      BY <1>0, <3>2, <3>3 DEF Ahead, PartAhead, Unmoved, OnLeg
    <3> QED BY <3>1, <3>2, <3>4 DEF p
  <2>3. CASE ~(e = "6005" /\ ~o.rebuilt) /\ ~(e = "slip" /\ o.slip < SlipSteps)
    <3>1. p = ChunkFailed(o)
      BY <1>4, <2>3 DEF OnFailed
    <3>2. Routed(o)
      BY <1>0, <1>4 DEF Routed
    <3> HIDE DEF p
    <3> QED BY <3>1, <3>2, AheadChunkFailed DEF p
  <2> QED BY <2>1, <2>2, <2>3
<1>5. CASE o.leg.kind = "jclose"
  <2>1. o.full /\ o.moved
    BY <1>0, <1>5 DEF Ahead, Unmoved, Shape, Partial
  <2>2. p = ChunkDone(o)
    BY <1>5 DEF OnFailed
  <2> HIDE DEF p
  <2>3. p.full /\ p.moved
    BY <2>1, <2>2, ChunkDoneKeeps
  <2>4. Ahead(p, b, n, want)
    BY <2>3, AheadMoved
  <2> QED BY <2>1, <2>2, <2>4, ChunkDoneKeeps DEF p
<1>6. CASE o.leg.kind = "dclose"
  <2>1. p = Done(o, "err")
    BY <1>6 DEF OnFailed
  <2> QED BY <1>1, <2>1
<1> QED BY <1>0, <1>2, <1>3, <1>4, <1>5, <1>6 DEF LegType

\* A leg of a sell is on its way.
LEMMA AheadSent ==
    ASSUME NEW want \in Nat, NEW o \in OpType, Shape(o, want), o.pc = "wait", o.call = "sell",
           NEW b, NEW n, Ahead(o, b, n, want)
    PROVE  LET p == OnSent(o)
           IN  /\ Ahead(p, b, n, want) /\ p.moved = o.moved
               /\ \/ p.full /\ p.moved
                  \/ p.pc = "confirm" /\ p.leg = o.leg
<1> DEFINE p == OnSent(o)
<1>0. /\ OnLeg(o) /\ o.leg.kind \notin {"buy", "jbuy"}
      /\ o.moved \in BOOLEAN /\ o.full \in BOOLEAN
  BY DEF OnLeg, Shape, OpType
<1>1. CASE o.leg.kind = "jclose"
  <2>1. o.full /\ o.moved
    BY <1>0, <1>1 DEF Ahead, Unmoved, Shape, Partial
  <2>2. p = ChunkDone(o)
    BY <1>1 DEF OnSent
  <2> HIDE DEF p
  <2>3. p.full /\ p.moved /\ p.moved = o.moved
    BY <2>1, <2>2, ChunkDoneKeeps
  <2>4. Ahead(p, b, n, want)
    BY <2>3, AheadMoved
  <2> QED BY <2>3, <2>4 DEF p
<1>2. CASE o.leg.kind # "jclose"
  <2>1. p = [o EXCEPT !.pc = "confirm", !.tx = 0]
    BY <1>0, <1>2 DEF OnSent
  <2>2. /\ p.pc = "confirm" /\ p.leg = o.leg /\ p.full = o.full /\ p.moved = o.moved
        /\ p.pre = o.pre /\ p.parts = o.parts /\ p.chunks = o.chunks /\ p.jamt = o.jamt
        /\ p.jpre = o.jpre /\ p.cpre = o.cpre
    BY <2>1 DEF OpType
  <2> HIDE DEF p
  <2>3. OnLeg(p)
    BY <2>2 DEF OnLeg
  <2>4. Ahead(p, b, n, want)
    BY <1>0, <2>2, <2>3, AheadSame
  <2> QED BY <2>2, <2>4 DEF p
<1> QED BY <1>1, <1>2

LEMMA TailFacts ==
    ASSUME NEW c \in Seq(Nat), c # <<>>
    PROVE  /\ Head(c) \in Nat /\ Head(c) = c[1] /\ Tail(c) \in Seq(Nat) /\ Len(c) \in Nat \ {0}
           /\ Len(Tail(c)) = Len(c) - 1
           /\ Tail(c) = <<>> <=> Len(c) = 1
           /\ \A i \in 1..(Len(c) - 1) : Tail(c)[i] = c[i + 1]
<1>1. Head(c) \in Nat /\ Head(c) = c[1] /\ Tail(c) \in Seq(Nat) /\ Len(c) \in Nat \ {0}
  OBVIOUS
<1>2. Len(Tail(c)) = Len(c) - 1 /\ \A i \in 1..(Len(c) - 1) : Tail(c)[i] = c[i + 1]
  OBVIOUS
<1>3. \A s \in Seq(Nat) : s = <<>> <=> Len(s) = 0
  OBVIOUS
<1>4. Tail(c) = <<>> <=> Len(Tail(c)) = 0
  BY <1>1, <1>3
<1>5. Len(c) - 1 = 0 <=> Len(c) = 1
  BY <1>1
<1> QED BY <1>1, <1>2, <1>4, <1>5

\* A chunk of a partial sell is confirmed: its tokens go from the rest to what has landed.
LEMMA AheadChunkDone ==
    ASSUME NEW want \in Nat, NEW o \in OpType, Shape(o, want), Routed(o), o.call = "sell", ~o.full,
           o.moved, NEW b \in Int, NEW n \in Int, o.chunks[1] <= b,
           o.cpre <= b, n + Rest(o) <= want, Positive(o)
    PROVE  Ahead(ChunkDone(o), b - o.chunks[1], n + o.chunks[1], want)
<1> DEFINE p == ChunkDone(o)
           h == Head(o.chunks)
           t == Tail(o.chunks)
           cp == IF o.cpre > h THEN o.cpre - h ELSE 0
           x == [o EXCEPT !.chunks = t, !.cpre = cp]
           k == Len(o.chunks)
           q == o.jamt \div ChunkParts
<1>1. /\ o.chunks \in Seq(Nat) /\ o.chunks # <<>> /\ o.cpre \in Nat /\ o.parts \in {1, 2}
      /\ o.jamt \in Nat /\ ~o.draining /\ (o.parts = 1 => k = 1)
  BY DEF OpType, Shape, Partial
<1>2. /\ h \in Nat /\ h = o.chunks[1] /\ t \in Seq(Nat) /\ k \in Nat \ {0} /\ Len(t) = k - 1
      /\ t = <<>> <=> k = 1
      /\ \A i \in 1..(k - 1) : t[i] = o.chunks[i + 1]
  <2> DEFINE c == o.chunks
  <2>1. c \in Seq(Nat) /\ c # <<>>
    BY <1>1
  <2> HIDE DEF c
  <2> QED BY <2>1, TailFacts DEF c
<1>3. p = IF x.chunks # <<>> THEN Quoting(x)
          ELSE IF x.draining THEN [x EXCEPT !.pc = "rem", !.tx = 0] ELSE Done(x, "ok")
  BY DEF ChunkDone
<1>4. q \in Nat
  <2>1. o.jamt \in Nat /\ ChunkParts \in Nat \ {0}
    BY <1>1, BrokerAssumption
  <2> QED BY <2>1
<1>5. Rest(o) = (k - 1) * q + o.chunks[k]
  BY DEF Rest
<1>6. o.chunks[k] > 0 /\ \A i \in 1..(k - 1) : o.chunks[i] = q /\ o.chunks[i] > 0
  BY DEF Positive
<1>7. cp \in Nat
  BY <1>1, <1>2
<1> HIDE DEF h, t, k, cp, q
<1>8. x \in OpType
  BY <1>2, <1>7 DEF OpType
<1>9. /\ x.full = o.full /\ x.moved = o.moved /\ x.parts = o.parts /\ x.chunks = t
      /\ x.jamt = o.jamt /\ x.jpre = o.jpre /\ x.cpre = cp /\ x.draining = o.draining
  BY DEF OpType
<1> HIDE DEF x
<1>10. CASE k = 1
  <2>1. p = Done(x, "ok")
    BY <1>1, <1>2, <1>3, <1>9, <1>10
  <2>2. (k - 1) * q = 0
    BY <1>4, <1>10
  <2>3. n + h <= want
    BY <1>2, <1>5, <1>10, <2>2
  <2> DEFINE res == "ok"
             c == b - o.chunks[1]
             m == n + o.chunks[1]
  <2>4. m <= want
    BY <1>2, <2>3
  <2> HIDE DEF res, c, m, p
  <2>5. Ahead(Done(x, res), c, m, want)
    BY <1>9, <2>4, AheadDone
  <2> QED BY <2>1, <2>5 DEF res, c, m, p
<1>11. CASE k # 1
  <2>1. p = Quoting(x)
    BY <1>2, <1>3, <1>9, <1>11
  <2>2. /\ p.pc = "quote" /\ p.full = o.full /\ p.parts = o.parts /\ p.chunks = t
        /\ p.jamt = o.jamt /\ p.cpre = cp
    BY <1>8, <1>9, <2>1, QuotingFields
  <2>3. p.moved = o.moved
    BY <1>8, <1>9, <2>1 DEF Quoting, OpType
  <2> HIDE DEF p
  <2>4. k - 1 \in Nat \ {0} /\ 1 \in 1..(k - 1) /\ k - 1 \in 1..(k - 1) /\ (k - 1) + 1 = k
    BY <1>2, <1>11
  <2>5. h = q /\ t[k - 1] = o.chunks[k] /\ o.chunks[k] \in Nat
    <3>1. t[k - 1] = o.chunks[(k - 1) + 1] /\ h = q
      BY <1>2, <1>6, <2>4
    <3>2. k \in 1..k
      BY <1>2
    <3>3. o.chunks[k] \in Nat
      BY <1>1, <3>2 DEF k
    <3> QED BY <2>4, <3>1, <3>3
  <2>6. (k - 1) * q = ((k - 1) - 1) * q + q /\ ((k - 1) - 1) * q \in Nat
    <3> DEFINE m == k - 1
    <3>1. m \in Nat \ {0}
      BY <2>4
    <3> HIDE DEF m
    <3>2. m * q = (m - 1) * q + q /\ (m - 1) * q \in Nat
      BY <1>4, <3>1
    <3> QED BY <3>2 DEF m
  <2>7. Rest(p) = ((k - 1) - 1) * q + t[k - 1]
    BY <1>2, <2>2 DEF Rest, q
  <2>8. Positive(p)
    <3>1. \A i \in 1..((k - 1) - 1) : i \in 1..(k - 1) /\ i + 1 \in 1..(k - 1)
      BY <1>2
    <3>2. \A i \in 1..((k - 1) - 1) : t[i] = q /\ t[i] > 0
      BY <1>2, <1>6, <3>1
    <3> QED BY <1>2, <1>6, <2>2, <2>5, <3>2 DEF Positive, q
  <2>9. (n + h) + Rest(p) <= want
    <3> DEFINE r == ((k - 1) - 1) * q
               l == o.chunks[k]
    <3>1. r \in Nat /\ l \in Nat /\ Rest(p) = r + l /\ n + ((r + q) + l) <= want
      BY <1>5, <2>5, <2>6, <2>7
    <3> HIDE DEF r, l
    <3> QED BY <1>4, <2>5, <3>1
  <2>10. cp <= b - h
    <3> DEFINE y == o.cpre
    <3>1. h \in Nat /\ h <= b
      BY <1>2
    <3>2. y \in Nat /\ y <= b /\ cp = IF y > h THEN y - h ELSE 0
      BY <1>1 DEF cp
    <3> HIDE DEF y
    <3> QED BY <3>1, <3>2
  <2>11. p.parts # 1
    BY <1>1, <1>11, <2>2
  <2>12. Ahead(p, b - h, n + h, want)
    BY <2>2, <2>3, <2>8, <2>9, <2>10, <2>11 DEF Ahead, PartAhead, OnLeg
  <2> QED BY <1>2, <2>12 DEF p
<1> QED BY <1>10, <1>11

\* A leg is confirmed.
LEMMA AheadConfirmed ==
    ASSUME NEW want \in Nat, NEW o \in OpType, Shape(o, want), o.pc = "confirm"
    PROVE  LET p == SellConfirmed([o EXCEPT !.moved = TRUE])
           IN  /\ p.moved = TRUE /\ p.full = o.full
               /\ \A b, n \in Int : ~o.full /\ Ahead(o, b, n, want) /\ o.leg.amount <= b
                     => Ahead(p, b - o.leg.amount, n + o.leg.amount, want)
<1> DEFINE x == [o EXCEPT !.moved = TRUE]
           p == SellConfirmed(x)
<1>0. /\ o.call = "sell" /\ OnLeg(o) /\ o.leg \in LegType /\ o.full \in BOOLEAN
      /\ o.leg.kind \in {"sell", "drain", "dclose", "jsell"} /\ o.leg.amount \in Nat
  BY DEF Shape, OnLeg, OpType, LegType
<1>1. x \in OpType
  BY DEF OpType
<1>2. /\ x.moved = TRUE /\ x.pc = o.pc /\ x.call = o.call /\ x.full = o.full /\ x.size = o.size
      /\ x.clamped = o.clamped /\ x.pre = o.pre /\ x.leg = o.leg /\ x.parts = o.parts
      /\ x.chunks = o.chunks /\ x.jamt = o.jamt /\ x.jpre = o.jpre /\ x.cpre = o.cpre
      /\ x.jclose = o.jclose /\ x.draining = o.draining /\ x.legs = o.legs
  BY DEF OpType
<1> HIDE DEF x
<1>3. Shape(x, want)
  BY <1>2 DEF Shape, Partial, Routed, OnLeg
<1>4. DOMAIN x = DOMAIN o /\ "moved" \in DOMAIN x /\ "full" \in DOMAIN x
  BY <1>1 DEF OpType
<1>5. Done(x, "ok").moved = TRUE /\ Done(x, "ok").full = o.full
  BY <1>2 DEF Done, IdleOp
<1>6. CASE o.leg.kind = "sell"
  <2>1. p = IF x.full /\ x.clamped THEN [x EXCEPT !.pc = "drain", !.draining = TRUE] ELSE Done(x, "ok")
    BY <1>2, <1>6 DEF SellConfirmed
  <2>2. CASE x.full /\ x.clamped
    <3> DEFINE q == [x EXCEPT !.pc = "drain", !.draining = TRUE]
    <3>1. q.moved = TRUE /\ q.full = o.full
      BY <1>2, <1>4
    <3>2. p = q /\ o.full
      BY <1>2, <2>1, <2>2
    <3> HIDE DEF p, q
    <3> QED BY <3>1, <3>2 DEF p, x
  <2>3. CASE ~(x.full /\ x.clamped)
    <3>1. p = Done(x, "ok")
      BY <2>1, <2>3
    <3>2. ASSUME NEW b \in Int, NEW n \in Int, ~o.full, Ahead(o, b, n, want)
          PROVE  Ahead(p, b - o.leg.amount, n + o.leg.amount, want)
      <4>1. n = 0 /\ o.leg.amount <= want
        BY <1>0, <1>6, <3>2 DEF Ahead, PartAhead, Unmoved, Shape, Partial
      <4> DEFINE res == "ok"
                 c == b - o.leg.amount
                 m == n + o.leg.amount
      <4>2. m <= want
        BY <1>0, <4>1
      <4> HIDE DEF res, c, m, p
      <4>3. Ahead(Done(x, res), c, m, want)
        BY <1>2, <4>2, AheadDone
      <4> QED BY <3>1, <4>3 DEF res, c, m
    <3> HIDE DEF p
    <3> QED BY <1>5, <3>1, <3>2 DEF p, x
  <2> QED BY <2>2, <2>3
<1>7. CASE o.leg.kind = "drain"
  <2> DEFINE q == [x EXCEPT !.pc = "drain", !.legs = @ + 1]
  <2>1. q.moved = TRUE /\ q.full = o.full
    BY <1>2, <1>4
  <2>2. p = q /\ o.full
    BY <1>0, <1>2, <1>7 DEF SellConfirmed, Shape, Partial
  <2> HIDE DEF p, q
  <2> QED BY <2>1, <2>2 DEF p, x
<1>8. CASE o.leg.kind = "dclose"
  <2>1. p = Done(x, "ok") /\ o.full
    BY <1>0, <1>2, <1>8 DEF SellConfirmed, Shape, Partial
  <2> HIDE DEF p
  <2> QED BY <1>5, <2>1 DEF p, x
<1>9. CASE o.leg.kind = "jsell"
  <2>0. p = IF x.jclose /\ Len(x.chunks) = 1 THEN [x EXCEPT !.pc = "jread"] ELSE ChunkDone(x)
    BY <1>2, <1>9 DEF SellConfirmed
  <2>1. Routed(x) /\ Routed(o)
    BY <1>0, <1>2, <1>9 DEF Routed, OnLeg
  <2>2. CASE x.jclose /\ Len(x.chunks) = 1
    <3> DEFINE q == [x EXCEPT !.pc = "jread"]
    <3>1. q.moved = TRUE /\ q.full = o.full
      BY <1>2, <1>4
    <3>2. p = q /\ o.full
      BY <1>0, <1>2, <2>0, <2>1, <2>2 DEF Shape, Partial
    <3> HIDE DEF p, q
    <3> QED BY <3>1, <3>2 DEF p, x
  <2>3. CASE ~(x.jclose /\ Len(x.chunks) = 1)
    <3>1. p = ChunkDone(x)
      BY <2>0, <2>3
    <3> HIDE DEF p
    <3>2. p.moved = TRUE /\ p.full = o.full
      BY <1>1, <1>2, <3>1, ChunkDoneKeeps
    <3>3. ASSUME NEW b \in Int, NEW n \in Int, ~o.full, Ahead(o, b, n, want), o.leg.amount <= b
          PROVE  Ahead(p, b - o.leg.amount, n + o.leg.amount, want)
      <4>1. o.cpre <= b /\ n + Rest(o) <= want /\ Positive(o) /\ o.leg.amount = o.chunks[1]
        BY <1>0, <2>1, <3>3 DEF Ahead, PartAhead
      <4>2. Rest(x) = Rest(o) /\ (Positive(x) <=> Positive(o))
        BY <1>2 DEF Rest, Positive
      <4>3. Ahead(ChunkDone(x), b - x.chunks[1], n + x.chunks[1], want)
        <5>1. x.call = "sell" /\ ~x.full /\ x.moved /\ x.chunks[1] <= b /\ x.cpre <= b
              /\ n + Rest(x) <= want /\ Positive(x)
          BY <1>0, <1>2, <3>3, <4>1, <4>2
        <5> QED BY <1>1, <1>3, <2>1, <5>1, AheadChunkDone
      <4> QED BY <1>2, <3>1, <4>1, <4>3
    <3> QED BY <3>2, <3>3 DEF p, x
  <2> QED BY <2>2, <2>3
<1> QED BY <1>0, <1>6, <1>7, <1>8, <1>9

-----------------------------------------------------------------------------
(***************************************************************************)
(* The invariant behind InSync.                                            *)
(***************************************************************************)

\* No answer was ambiguous and no call was cut short.
Clean == \A c \in DOMAIN calls : calls[c].flags \subseteq {"rechunked"}

BuyKinds == {"buy", "jbuy"}
Selling == op.pc # "idle" /\ op.call = "sell"
Buying == op.pc # "idle" /\ op.call = "buy"

\* The buys that may still land, and the tokens the wallet has, or will have after them.
Buys == {t \in net : InFlight(t) /\ t.kind \in BuyKinds}
OrNone(a) == IF a = Absent THEN 0 ELSE a
Avail == IF Buys = {} THEN OrNone(ata) ELSE Fill

\* A transaction of the running call that may still land.
OfCall(t) == t.call = Len(calls) /\ InFlight(t)

\* What the present leg of a sell has moved already, unconfirmed.
OwnLanded == \E t \in net : Own(t) /\ t.st = "ok"
Shift ==
    IF \/ op.pc = "wait" /\ OwnLanded
       \/ op.pc = "confirm" /\ ~ \E t \in net : OfCall(t)
    THEN op.leg.amount ELSE 0

\* A full exit with a confirmed leg closes the row or leaves a note.
Settled == op.full /\ op.moved

SellSync == Ahead(op, OrNone(ata) + Shift, LastCall.landed - Shift, LastCall.want)

\* Until then at most one transaction of the call may still land, its present leg.
FlightSync ==
    ~Settled => \A t \in net : OfCall(t) =>
        /\ op.pc \in {"wait", "confirm"} /\ (op.pc = "wait" => Own(t))
        /\ t.kind = op.leg.kind /\ t.amount = op.leg.amount /\ t.close = op.leg.close
        /\ \A s \in net : OfCall(s) => s = t

\* A buy reports a fill only of tokens that have landed or may still land.
BuySync ==
    /\ op.pc = "fill" => LastCall.landed > 0 \/ Buys # {}
    /\ op.pc = "return" =>
         IF op.res = "ok" THEN 0 < op.size /\ op.size <= Avail ELSE LastCall.landed = 0 /\ Buys = {}
    /\ LastCall.landed > 0 => ata = Fill
    /\ op.pc = "wait" /\ OwnLanded => LastCall.landed > 0
    /\ op.parts = 0

\* The row is covered by what the wallet has and what the running sell has taken from it.
RowSync ==
    /\ Buying => row.st = "none"
    /\ Selling => row.st = "open"
    /\ row.st = "open" => row.hold > 0
    /\ Selling /\ ~op.full => LastCall.want < row.hold
    /\ row.st = "open" /\ ~(Selling /\ Settled) =>
          row.hold <= Avail + (IF Selling THEN LastCall.landed ELSE 0)
    /\ row.st = "closed" \/ (row.st = "none" /\ op.pc = "idle") => Buys = {} /\ ata <= 0
    /\ row.st # "closed" => \A t \in net : InFlight(t) /\ t.kind \notin BuyKinds =>
            Selling /\ t.call = Len(calls)
    /\ Selling /\ op.full /\ op.pc # "size" /\ (op.pc = "return" => op.res = "ok") => Buys = {}

\* There is one buy, the first call; the account exists from its fill on; and only the
\* transaction that is awaited can be unprocessed.
ChainSync ==
    /\ \A c \in DOMAIN calls : calls[c].kind = "buy" =>
          c = 1 /\ "rechunked" \notin calls[c].flags /\ (calls[c].landed = 0 => ata = Absent)
    /\ \A t \in net : t.kind \in BuyKinds <=> calls[t.call].kind = "buy"
    /\ \A t \in net : t.st = "sent" => op.pc = "wait" /\ Own(t)
    /\ calls = <<>> => ata = Absent

Synced ==
    /\ ChainSync /\ RowSync
    /\ Buying => BuySync
    /\ Selling => SellSync /\ FlightSync

SyncInv == Clean => Synced

\* A buy that may still land is the only one, and nothing has landed before it.
LEMMA BuyFlight ==
    ASSUME TypeOK, OnceInv, Clean, ChainSync, NEW t \in Buys
    PROVE  /\ t \in net /\ InFlight(t) /\ t.kind \in BuyKinds
           /\ t.call = 1 /\ 1 \in DOMAIN calls /\ calls[1].kind = "buy"
           /\ calls[1].landed = 0 /\ ata = Absent /\ Buys = {t}
<1>1. t \in net /\ InFlight(t) /\ t.kind \in BuyKinds
  BY DEF Buys
<1>2. \A s \in Buys : s.call \in DOMAIN calls /\ calls[s.call].kind = "buy" /\ s.call = 1
  BY DEF Buys, ChainSync, TypeOK, TxType
<1>3. /\ t.call = 1 /\ 1 \in DOMAIN calls /\ calls[1].kind = "buy"
      /\ "rechunked" \notin calls[1].flags /\ (calls[1].landed = 0 => ata = Absent)
  BY <1>2 DEF ChainSync
<1>4. MovesOnce(1)
  <2>1. calls[1].flags \subseteq {"rechunked"}
    BY <1>3 DEF Clean
  <2> QED BY <1>3, <2>1 DEF OnceInv, Plain
<1>5. calls[1].landed = 0 /\ \A s \in net : s.call = 1 /\ InFlight(s) => s = t
  BY <1>1, <1>3, <1>4 DEF MovesOnce
<1>6. Buys = {t}
  BY <1>2, <1>5 DEF Buys
<1> QED BY <1>1, <1>3, <1>5, <1>6

LEMMA OrNoneType ==
    ASSUME TypeOK
    PROVE  OrNone(ata) \in Nat /\ (ata # Absent => OrNone(ata) = ata) /\ Absent = -1
BY DEF TypeOK, OrNone, Absent

\* What a step of a running call leaves alone.
LEMMA AdvanceFrame ==
    ASSUME BrokerInv, SyncInv, NEW n, Advances(n), Clean'
    PROVE  /\ Clean /\ Synced
           /\ calls # <<>> /\ Len(calls) \in DOMAIN calls /\ Len(calls') = Len(calls)
           /\ LastCall \in CallType
           /\ LastCall'.kind = LastCall.kind /\ LastCall'.full = LastCall.full
           /\ LastCall'.want = LastCall.want /\ LastCall'.landed = LastCall.landed
           /\ LastCall'.flags = LastCall.flags \cup n /\ LastCall'.flags \subseteq {"rechunked"}
           /\ op.pc # "idle" /\ op'.pc \notin {"idle", "wait"}
           /\ op'.call = op.call /\ op'.full = op.full /\ LastCall.kind = op.call
           /\ net' \subseteq net /\ ata' = ata /\ row' = row
<1>0. TypeOK /\ CallInv /\ calls # <<>> /\ LastCall.kind = op.call
  BY DEF BrokerInv, CallInv, Advances
<1>1. Len(calls) \in DOMAIN calls /\ LastCall \in CallType
  BY <1>0, LastOne
<1>2. /\ Len(calls') = Len(calls) /\ DOMAIN calls' = DOMAIN calls
      /\ \A c \in DOMAIN calls :
           /\ calls'[c].kind = calls[c].kind /\ calls'[c].full = calls[c].full
           /\ calls'[c].want = calls[c].want /\ calls'[c].landed = calls[c].landed
           /\ calls'[c].flags = calls[c].flags \cup (IF c = Len(calls) THEN n ELSE {})
  BY DEF Advances, Annotated
<1>3. Clean
  <2> SUFFICES ASSUME NEW c \in DOMAIN calls PROVE calls[c].flags \subseteq {"rechunked"}
    BY DEF Clean
  <2>1. calls'[c].flags \subseteq {"rechunked"} /\ calls[c].flags \subseteq calls'[c].flags
    BY <1>2 DEF Clean
  <2> QED BY <2>1
<1>4. /\ LastCall'.kind = LastCall.kind /\ LastCall'.full = LastCall.full
      /\ LastCall'.want = LastCall.want /\ LastCall'.landed = LastCall.landed
      /\ LastCall'.flags = LastCall.flags \cup n
  BY <1>1, <1>2 DEF LastCall
<1>5. LastCall'.flags \subseteq {"rechunked"}
  BY <1>1, <1>2 DEF Clean, LastCall
<1> QED BY <1>0, <1>1, <1>2, <1>3, <1>4, <1>5 DEF SyncInv, Advances, Continues

\* What the invariant asks of a step of a running call that sends nothing.
SyncMove ==
    /\ op.pc # "return" /\ (op.moved => op'.moved)
    /\ \A t \in net : InFlight(t) => t \in net'
    /\ op.call = "buy" => "rechunked" \notin LastCall'.flags
    /\ op.pc = "wait" => \A t \in net : Own(t) => t.st # "sent"
    /\ op.pc = "size" /\ op.full => ata # Absent \/ (op'.pc = "return" /\ op'.res # "ok")
    /\ Buying => BuySync'
    /\ Selling => SellSync' /\ FlightSync'

LEMMA AdvanceSync ==
    ASSUME BrokerInv, SyncInv, NEW n, Advances(n), Clean' => SyncMove
    PROVE  SyncInv'
<1> SUFFICES ASSUME Clean' PROVE Synced'
  BY DEF SyncInv
<1>0. SyncMove
  OBVIOUS
<1>1. /\ Clean /\ Synced
      /\ calls # <<>> /\ Len(calls) \in DOMAIN calls /\ Len(calls') = Len(calls)
      /\ LastCall'.want = LastCall.want /\ LastCall'.landed = LastCall.landed
      /\ op.pc # "idle" /\ op'.pc \notin {"idle", "wait"}
      /\ op'.call = op.call /\ op'.full = op.full /\ LastCall.kind = op.call
      /\ net' \subseteq net /\ ata' = ata /\ row' = row
  BY AdvanceFrame
<1>2. ChainSync /\ RowSync
  BY <1>1 DEF Synced
<1>3. /\ DOMAIN calls' = DOMAIN calls
      /\ \A c \in DOMAIN calls :
           /\ calls'[c].kind = calls[c].kind /\ calls'[c].landed = calls[c].landed
           /\ c # Len(calls) => calls'[c].flags = calls[c].flags
  BY DEF Advances, Annotated
<1>4. /\ Buys' = Buys /\ Avail' = Avail
      /\ Selling' <=> Selling
      /\ Buying' <=> Buying
  <2>1. Buys' = Buys
    BY <1>0, <1>1 DEF Buys, InFlight, SyncMove
  <2> QED BY <1>1, <2>1 DEF Avail, OrNone, Selling, Buying
<1>5. ChainSync'
  <2>1. ASSUME NEW c \in DOMAIN calls', calls'[c].kind = "buy"
        PROVE  c = 1 /\ "rechunked" \notin calls'[c].flags /\ (calls'[c].landed = 0 => ata' = Absent)
    <3>1. c \in DOMAIN calls /\ calls[c].kind = "buy" /\ calls'[c].landed = calls[c].landed
      BY <1>3, <2>1
    <3>2. c = 1 /\ "rechunked" \notin calls[c].flags /\ (calls[c].landed = 0 => ata = Absent)
      BY <1>2, <3>1 DEF ChainSync
    <3>3. CASE c = Len(calls)
      <4>1. op.call = "buy"
        BY <1>1, <3>1, <3>3 DEF LastCall
      <4>2. "rechunked" \notin LastCall'.flags
        BY <1>0, <4>1 DEF SyncMove
      <4> QED BY <1>1, <3>1, <3>2, <3>3, <4>2 DEF LastCall
    <3>4. CASE c # Len(calls)
      BY <1>1, <1>3, <3>1, <3>2, <3>4
    <3> QED BY <3>3, <3>4
  <2>2. ASSUME NEW t \in net' PROVE t.kind \in BuyKinds <=> calls'[t.call].kind = "buy"
    <3>1. t \in net /\ t.call \in DOMAIN calls
      BY <1>1, <2>2 DEF BrokerInv, TypeOK, TxType
    <3> QED BY <1>2, <1>3, <3>1 DEF ChainSync
  <2>3. ASSUME NEW t \in net', t.st = "sent" PROVE FALSE
    <3>1. t \in net /\ op.pc = "wait" /\ Own(t)
      BY <1>1, <1>2, <2>3 DEF ChainSync
    <3> QED BY <1>0, <2>3, <3>1 DEF SyncMove
  <2>4. calls' # <<>>
    BY <1>1, <1>3
  <2> QED BY <2>1, <2>2, <2>3, <2>4 DEF ChainSync
<1>6. RowSync'
  <2>1. ~(Selling' /\ Settled') => ~(Selling /\ Settled)
    BY <1>0, <1>1, <1>4 DEF Settled, SyncMove
  <2>2. row.st = "open" /\ ~(Selling' /\ Settled') =>
           row.hold <= Avail' + (IF Selling' THEN LastCall'.landed ELSE 0)
    BY <1>1, <1>2, <1>4, <2>1 DEF RowSync
  <2>3. row.st # "closed" => \A t \in net' : InFlight(t) /\ t.kind \notin BuyKinds =>
            Selling' /\ t.call = Len(calls')
    BY <1>1, <1>2, <1>4 DEF RowSync
  <2>4. ASSUME Selling, op.full, op'.pc # "size", op'.pc = "return" => op'.res = "ok" PROVE Buys = {}
    <3>1. CASE op.pc # "size"
      BY <1>0, <1>2, <2>4, <3>1 DEF RowSync, SyncMove
    <3>2. CASE op.pc = "size"
      <4>1. ata # Absent
        BY <1>0, <2>4, <3>2 DEF SyncMove
      <4> QED BY <1>1, <1>2, <4>1, BuyFlight DEF BrokerInv
    <3> QED BY <3>1, <3>2
  <2>5. /\ Buying' => row'.st = "none"
        /\ Selling' => row'.st = "open"
        /\ row'.st = "open" => row'.hold > 0
        /\ Selling' /\ ~op'.full => LastCall'.want < row'.hold
        /\ row'.st = "closed" \/ (row'.st = "none" /\ op'.pc = "idle") => Buys' = {} /\ ata' <= 0
    BY <1>1, <1>2, <1>4 DEF RowSync
  <2>6. \A t : InFlight(t)' <=> InFlight(t)
    BY DEF InFlight
  <2> QED BY <1>1, <1>4, <2>2, <2>3, <2>4, <2>5, <2>6 DEF RowSync
<1>7. (Buying' => BuySync') /\ (Selling' => SellSync' /\ FlightSync')
  BY <1>0, <1>4 DEF SyncMove
<1> QED BY <1>5, <1>6, <1>7 DEF Synced

\* A step of a sell none of whose transactions may still land.
LEMMA SellStays ==
    ASSUME BrokerInv, SyncInv, NEW n, Advances(n), Clean', Selling, op'.pc # "confirm",
           \/ op.pc \notin {"wait", "confirm"}
           \/ op.pc = "wait" /\ \E t \in net : Own(t) /\ t.st \notin {"sent", "processed", "ok"},
           op.moved => op'.moved,
           Ahead(op, OrNone(ata), LastCall.landed, LastCall.want)
              => Ahead(op', OrNone(ata), LastCall.landed, LastCall.want)
    PROVE  SellSync' /\ FlightSync'
<1>1. /\ Synced /\ Len(calls') = Len(calls) /\ LastCall \in CallType
      /\ LastCall'.want = LastCall.want /\ LastCall'.landed = LastCall.landed
      /\ op'.pc # "wait" /\ op'.full = op.full /\ net' \subseteq net /\ ata' = ata
  BY AdvanceFrame
<1>2. SellSync /\ FlightSync /\ TypeOK
  BY <1>1 DEF Synced, BrokerInv
<1>3. \A s \in net : op.pc = "wait" /\ Own(s) => s.st \notin {"sent", "processed", "ok"}
  BY <1>2 DEF TypeOK, Own
<1>4. OrNone(ata) \in Nat /\ LastCall.landed \in Nat
  BY <1>1, <1>2, OrNoneType DEF CallType
<1>5. Shift = 0
  BY <1>3 DEF Shift, OwnLanded
<1>6. Shift' = 0
  BY <1>1 DEF Shift
<1>7. /\ OrNone(ata) + 0 = OrNone(ata) /\ LastCall.landed - 0 = LastCall.landed
  BY <1>4
<1>8. Ahead(op', OrNone(ata), LastCall.landed, LastCall.want)
  BY <1>2, <1>5, <1>7 DEF SellSync
<1>9. SellSync'
  <2>1. OrNone(ata)' = OrNone(ata)
    BY <1>1 DEF OrNone
  <2>2. OrNone(ata)' + Shift' = OrNone(ata) /\ LastCall'.landed - Shift' = LastCall.landed
    BY <1>1, <1>6, <1>7, <2>1
  <2>3. SellSync' <=> Ahead(op', OrNone(ata)' + Shift', LastCall'.landed - Shift', LastCall'.want)
    BY DEF SellSync, Ahead, PartAhead, Unmoved, Rest, Positive, Routed, OnLeg
  <2> QED BY <1>1, <1>8, <2>2, <2>3
<1>10. FlightSync'
  <2>1. ~Settled' => ~Settled
    BY <1>1 DEF Settled
  <2>2. ASSUME ~Settled, NEW t \in net PROVE ~OfCall(t)
    BY <1>2, <1>3, <2>2 DEF FlightSync, OfCall, InFlight
  <2>3. \A t : OfCall(t)' <=> OfCall(t)
    BY <1>1 DEF OfCall, InFlight
  <2> QED BY <1>1, <2>1, <2>2, <2>3 DEF FlightSync
<1> QED BY <1>9, <1>10

\* A buy that may send again has nothing on the chain.
LEMMA BuyUnsent ==
    ASSUME BrokerInv, Clean, Synced, Buying,
           \/ op.pc \in Unsent
           \/ op.pc = "wait" /\ \E t \in net : Own(t) /\ t.st \notin {"sent", "processed", "ok"}
    PROVE  LastCall.landed = 0 /\ Buys = {}
<1> DEFINE c == Len(calls)
<1>0. TypeOK /\ CallInv /\ OnceInv /\ ChainSync
  BY DEF BrokerInv, Synced
<1>1. calls # <<>> /\ LastCall.kind = "buy"
  BY <1>0 DEF CallInv, Buying
<1>2. c \in DOMAIN calls /\ calls[c].kind = "buy"
  BY <1>0, <1>1, LastOne DEF LastCall
<1> HIDE DEF c
<1>3. c = 1 /\ "rechunked" \notin calls[c].flags /\ calls[c].flags \subseteq {"rechunked"}
  BY <1>0, <1>2 DEF ChainSync, Clean
<1>4. MovesOnce(c)
  BY <1>0, <1>2, <1>3 DEF OnceInv, Plain
<1>5. LastCall.landed = 0 /\ \A t \in net : t.call = c => ~InFlight(t)
  <2>1. CASE op.pc \in Unsent
    BY <1>4, <2>1 DEF MovesOnce, LastCall, c
  <2>2. CASE op.pc = "wait" /\ \E t \in net : Own(t) /\ t.st \notin {"sent", "processed", "ok"}
    <3>1. PICK t \in net : Own(t) /\ t.st \notin {"sent", "processed", "ok"}
      BY <2>2
    <3>2. calls[c].landed = 0
      BY <1>4, <2>2, <3>1 DEF MovesOnce, c
    <3>3. ASSUME NEW s \in net, s.call = c, InFlight(s) PROVE FALSE
      <4>1. Own(s)
        BY <1>4, <2>2, <3>3 DEF MovesOnce, c
      <4>2. s = t
        BY <1>0, <3>1, <4>1 DEF TypeOK, Own
      <4> QED BY <3>1, <3>3, <4>2 DEF InFlight
    <3> QED BY <3>2, <3>3 DEF LastCall, c
  <2> QED BY <2>1, <2>2
<1>6. \A t \in Buys : t \in net /\ InFlight(t) /\ t.call = c
  BY <1>0, <1>3, BuyFlight
<1> QED BY <1>5, <1>6

\* A step of such a buy, unless it reports a fill.
LEMMA BuyStays ==
    ASSUME BrokerInv, SyncInv, NEW n, Advances(n), Clean', Buying,
           \/ op.pc \in Unsent
           \/ op.pc = "wait" /\ \E t \in net : Own(t) /\ t.st \notin {"sent", "processed", "ok"},
           op'.pc # "fill", op'.pc = "return" => op'.res # "ok", op'.parts = 0
    PROVE  BuySync'
<1>1. Clean /\ Synced /\ LastCall'.landed = LastCall.landed /\ net' \subseteq net /\ op'.pc # "wait"
  BY AdvanceFrame
<1>2. LastCall.landed = 0 /\ Buys = {}
  BY <1>1, BuyUnsent
<1>3. Buys' = {}
  BY <1>1, <1>2 DEF Buys, InFlight
<1>4. LastCall'.landed = 0 /\ ~(LastCall'.landed > 0)
  BY <1>1, <1>2
<1> QED BY <1>1, <1>3, <1>4 DEF BuySync

\* What the ledger notes in a buy.
LEMMA BuyNotes ==
    ASSUME BrokerInv, Clean, Synced, Buying, NEW p, NEW s \in SUBSET {"unsure"},
           Noted(s \cup Rerouted(op, p)) \/ UNCHANGED calls
    PROVE  "rechunked" \notin LastCall'.flags
<1>0. TypeOK /\ calls # <<>> /\ LastCall.kind = "buy" /\ op.parts = 0 /\ ChainSync
  BY DEF BrokerInv, CallInv, Buying, Synced, BuySync
<1>1. Len(calls) \in DOMAIN calls
  BY <1>0, LastOne
<1>2. "rechunked" \notin LastCall.flags
  BY <1>0, <1>1 DEF ChainSync, LastCall
<1>3. CASE UNCHANGED calls
  BY <1>2, <1>3 DEF LastCall
<1>4. CASE Noted(s \cup Rerouted(op, p))
  <2> DEFINE n == s \cup Rerouted(op, p)
  <2>1. n \in SUBSET Notes /\ "rechunked" \notin n
    BY <1>0 DEF Rerouted, Notes
  <2>2. Noted(n)
    BY <1>4
  <2> HIDE DEF n
  <2>3. Annotated(n)
    BY <1>0, <2>1, <2>2, NotedAnnotates
  <2>4. LastCall'.flags = LastCall.flags \cup n
    BY <1>1, <2>3 DEF Annotated, LastCall
  <2> QED BY <1>2, <2>1, <2>4
<1> QED BY <1>3, <1>4

\* How a failed leg of a buy goes on.
LEMMA BuyFailed ==
    ASSUME NEW o \in OpType, o.leg.kind \in {"buy", "jbuy"}, NEW e
    PROVE  LET p == OnFailed(o, e)
           IN  /\ p.moved = o.moved /\ p.parts \in {o.parts, 0}
               /\ p.pc = "jquote" \/ (p.pc = "return" /\ p.res = "err")
<1> DEFINE p == OnFailed(o, e)
           q == [o EXCEPT !.pc = "jquote", !.tx = 0]
<1>1. q.moved = o.moved /\ q.parts = o.parts /\ q.pc = "jquote"
  BY DEF OpType
<1>2. /\ Done(o, "err").moved = o.moved /\ Done(o, "err").parts = 0
      /\ Done(o, "err").pc = "return" /\ Done(o, "err").res = "err"
  BY DEF Done, IdleOp
<1>3. p = q \/ p = Done(o, "err")
  BY DEF OnFailed
<1> HIDE DEF p, q
<1> QED BY <1>1, <1>2, <1>3 DEF p

\* A leg has failed and left nothing behind.
LEMMA FailMoves ==
    ASSUME BrokerInv, SyncInv, NEW n, Advances(n), Clean', op.pc \in {"send", "wait"}, NEW e,
           NEW s \in SUBSET {"unsure"}, Fail(e, s),
           \A t \in net : InFlight(t) => t \in net',
           op.pc = "wait" => \E t \in net : Own(t) /\ t.st \notin {"sent", "processed", "ok"}
    PROVE  SyncMove
<1> DEFINE p == OnFailed(op, e)
<1>1. /\ Clean /\ Synced /\ op.pc # "idle" /\ LastCall'.landed = LastCall.landed
  BY AdvanceFrame
<1>2. /\ TypeOK /\ LastCall.want \in Nat /\ op \in OpType /\ Shape(op, LastCall.want)
  BY <1>1, Running1 DEF BrokerInv
<1>3. op' = p /\ Noted(s \cup Rerouted(op, p))
  BY DEF Fail
<1>4. p.pc \in {"jquote", "quote", "rem", "return"}
  BY <1>2, OnFailedGood
<1>5. op.call = IF op.leg.kind \in {"buy", "jbuy"} THEN "buy" ELSE "sell"
  BY <1>2 DEF Shape
<1>6. op.pc = "wait" => \A t \in net : Own(t) => t.st \notin {"sent", "processed", "ok"}
  BY <1>2 DEF TypeOK, Own
<1> HIDE DEF p
<1>7. CASE op.call = "buy"
  <2>1. Buying /\ op.leg.kind \in {"buy", "jbuy"}
    BY <1>1, <1>5, <1>7 DEF Buying
  <2>2. op.parts = 0
    BY <1>1, <2>1 DEF Synced, BuySync
  <2>3. p.moved = op.moved /\ p.parts = 0 /\ (p.pc = "jquote" \/ (p.pc = "return" /\ p.res = "err"))
    BY <1>2, <2>1, <2>2, BuyFailed DEF p
  <2>4. BuySync'
    BY <1>3, <2>1, <2>3, BuyStays DEF Unsent
  <2>5. "rechunked" \notin LastCall'.flags
    BY <1>1, <1>3, <2>1, BuyNotes
  <2> QED BY <1>3, <1>6, <1>7, <2>3, <2>4, <2>5 DEF SyncMove, Selling
<1>8. CASE op.call = "sell"
  <2>1. Selling
    BY <1>1, <1>8 DEF Selling
  <2> DEFINE b == OrNone(ata)
             m == LastCall.landed
             want == LastCall.want
  <2>2. ASSUME NEW x, NEW y, Ahead(op, x, y, want) PROVE Ahead(p, x, y, want) /\ p.moved = op.moved
    <3> HIDE DEF want
    <3>1. want \in Nat /\ Shape(op, want)
      BY <1>2 DEF want
    <3> QED BY <1>2, <1>8, <2>2, <3>1, AheadFailed DEF p
  <2>3. p.moved = op.moved
    BY <1>1, <2>1, <2>2 DEF Synced, SellSync
  <2>4. Ahead(op, b, m, want) => Ahead(p, b, m, want)
    BY <2>2
  <2>5. SellSync' /\ FlightSync'
    BY <1>3, <1>4, <2>1, <2>3, <2>4, SellStays
  <2> QED BY <1>3, <1>6, <1>8, <2>3, <2>5 DEF SyncMove, Buying
<1> QED BY <1>5, <1>7, <1>8

\* A leg is tried again.
LEMMA RetryMoves ==
    ASSUME BrokerInv, SyncInv, NEW n, Advances(n), Clean', op.pc = "send",
           op' = [op EXCEPT !.tries = @ + 1], UNCHANGED net,
           op.call = "buy" => "rechunked" \notin LastCall'.flags
    PROVE  SyncMove
<1>1. Clean /\ Synced /\ op.pc # "idle"
  BY AdvanceFrame
<1>2. op \in OpType
  BY DEF BrokerInv, TypeOK
<1>3. /\ op'.pc = op.pc /\ op'.moved = op.moved /\ op'.leg = op.leg /\ op'.full = op.full
      /\ op'.pre = op.pre /\ op'.parts = op.parts /\ op'.chunks = op.chunks
      /\ op'.jamt = op.jamt /\ op'.jpre = op.jpre /\ op'.cpre = op.cpre
  BY <1>2 DEF OpType
<1>4. ASSUME Buying PROVE BuySync'
  <2>1. op.parts = 0
    BY <1>1, <1>4 DEF Synced, BuySync
  <2> QED BY <1>3, <1>4, <2>1, BuyStays DEF Unsent
<1>5. ASSUME Selling PROVE SellSync' /\ FlightSync'
  <2>1. OnLeg(op) /\ OnLeg(op')
    BY <1>3 DEF OnLeg
  <2> DEFINE o == op
             p == op'
             b == OrNone(ata)
             m == LastCall.landed
             want == LastCall.want
  <2>2. Ahead(o, b, m, want) => Ahead(p, b, m, want)
    <3> SUFFICES ASSUME Ahead(o, b, m, want) PROVE Ahead(p, b, m, want)
      OBVIOUS
    <3>1. /\ OnLeg(o) /\ OnLeg(p) /\ p.moved = o.moved /\ p.leg = o.leg /\ p.full = o.full
          /\ p.pre = o.pre /\ p.parts = o.parts /\ p.chunks = o.chunks
          /\ p.jamt = o.jamt /\ p.jpre = o.jpre /\ p.cpre = o.cpre
      BY <1>3, <2>1
    <3> HIDE DEF o, p, b, m, want
    <3> QED BY <3>1, AheadSame
  <2> QED BY <1>3, <1>5, <2>2, SellStays
<1> QED BY <1>3, <1>4, <1>5 DEF SyncMove

\* The awaited transaction has landed, or is about to.
LEMMA WaitOkMoves ==
    ASSUME BrokerInv, SyncInv, NEW n, Advances(n), Clean', NEW t \in net, WaitOk(t)
    PROVE  SyncMove
<1> DEFINE p == OnSent(op)
<1>1. /\ Clean /\ Synced /\ Len(calls') = Len(calls) /\ LastCall \in CallType
      /\ LastCall'.want = LastCall.want /\ LastCall'.landed = LastCall.landed
      /\ net' \subseteq net /\ ata' = ata /\ op'.full = op.full /\ LastCall.kind = op.call
  BY AdvanceFrame
<1>2. op.pc = "wait" /\ Own(t) /\ Landed(t) /\ op' = p /\ Forget(t) /\ UNCHANGED calls
  BY DEF WaitOk, Waiting
<1>3. /\ TypeOK /\ CallInv /\ LastCall.want \in Nat /\ op \in OpType /\ Shape(op, LastCall.want)
  BY <1>2, Running1 DEF BrokerInv
<1>4. op.call = IF op.leg.kind \in {"buy", "jbuy"} THEN "buy" ELSE "sell"
  BY <1>2, <1>3 DEF Shape
<1>5. \A s \in net : Own(s) => s = t
  BY <1>2, <1>3 DEF TypeOK, Own
<1>6. /\ t.call = Len(calls) /\ t.st \in {"processed", "ok"}
      /\ \A s \in net : InFlight(s) => s \in net'
      /\ t.st = "ok" => t \notin net'
  BY <1>2, <1>3 DEF CallInv, Landed, Forget, InFlight
<1>7. CASE op.call = "buy"
  <2>1. Buying /\ op.leg.kind \in {"buy", "jbuy"}
    BY <1>2, <1>4, <1>7 DEF Buying
  <2>2. BuySync
    BY <1>1, <2>1 DEF Synced
  <2>3. p = [op EXCEPT !.pc = "fill", !.tx = 0]
    BY <2>1 DEF OnSent
  <2>4. p.pc = "fill" /\ p.parts = op.parts /\ p.moved = op.moved
    BY <1>3, <2>3 DEF OpType
  <2> HIDE DEF p
  <2>5. LastCall'.landed > 0 \/ Buys' # {}
    <3>1. CASE t.st = "ok"
      BY <1>1, <1>2, <2>2, <3>1 DEF BuySync, OwnLanded
    <3>2. CASE t.st = "processed"
      <4>1. t.kind \in BuyKinds
        BY <1>1, <1>6, <1>7 DEF Synced, ChainSync, LastCall
      <4>2. t \in Buys'
        BY <1>6, <3>2, <4>1 DEF Buys, InFlight
      <4> QED BY <4>2
    <3> QED BY <1>6, <3>1, <3>2
  <2>6. BuySync'
    BY <1>1, <1>2, <2>2, <2>4, <2>5 DEF BuySync
  <2>7. "rechunked" \notin LastCall'.flags
    <3> DEFINE s == {}
    <3>1. s \in SUBSET {"unsure"}
      OBVIOUS
    <3> HIDE DEF s
    <3> QED BY <1>1, <1>2, <2>1, <3>1, BuyNotes
  <2> QED BY <1>2, <1>5, <1>6, <1>7, <2>4, <2>6, <2>7 DEF SyncMove, Selling
<1>8. CASE op.call = "sell"
  <2>1. Selling
    BY <1>2, <1>8 DEF Selling
  <2>2. SellSync /\ FlightSync
    BY <1>1, <2>1 DEF Synced
  <2> DEFINE b == OrNone(ata) + Shift
             m == LastCall.landed - Shift
             want == LastCall.want
  <2>3. /\ Ahead(p, b, m, want) /\ p.moved = op.moved
        /\ \/ p.full /\ p.moved
           \/ p.pc = "confirm" /\ p.leg = op.leg
    <3>1. Ahead(op, b, m, want) /\ want \in Nat /\ Shape(op, want)
      BY <1>3, <2>2 DEF SellSync
    <3> HIDE DEF b, m, want, p
    <3> QED BY <1>2, <1>3, <1>8, <3>1, AheadSent DEF p
  <2> HIDE DEF b, m, want, p
  <2>4. SellSync' <=> Ahead(op', OrNone(ata)' + Shift', LastCall'.landed - Shift', LastCall'.want)
    BY DEF SellSync, Ahead, PartAhead, Unmoved, Rest, Positive, Routed, OnLeg
  <2>5. CASE p.full /\ p.moved
    <3>1. Settled'
      BY <1>2, <2>5 DEF Settled
    <3>2. SellSync'
      BY <1>2, <2>4, <2>5, AheadMoved
    <3> QED BY <1>2, <1>5, <1>6, <1>8, <2>3, <3>1, <3>2 DEF SyncMove, Buying, FlightSync
  <2>6. CASE ~(p.full /\ p.moved)
    <3>1. p.pc = "confirm" /\ p.leg = op.leg /\ ~Settled
      BY <1>1, <1>2, <2>3, <2>6 DEF Settled
    <3>2. \A s : OfCall(s)' <=> OfCall(s)
      BY <1>1 DEF OfCall, InFlight
    <3>3. \A s \in net : OfCall(s) => s = t
      BY <1>2, <1>5, <2>2, <3>1 DEF FlightSync
    <3>4. Shift' = Shift
      <4>1. CASE t.st = "processed"
        <5>1. OfCall(t) /\ t \in net'
          BY <1>6, <4>1 DEF OfCall, InFlight
        <5>2. Shift' = 0
          BY <1>2, <3>1, <3>2, <5>1 DEF Shift
        <5>3. Shift = 0
          BY <1>2, <1>5, <4>1 DEF Shift, OwnLanded
        <5> QED BY <5>2, <5>3
      <4>2. CASE t.st = "ok"
        <5>1. \A s \in net' : ~OfCall(s)
          BY <1>1, <1>6, <3>3, <4>2
        <5>2. Shift' = op.leg.amount
          BY <1>2, <3>1, <3>2, <5>1 DEF Shift
        <5>3. Shift = op.leg.amount
          BY <1>2, <4>2 DEF Shift, OwnLanded
        <5> QED BY <5>2, <5>3
      <4> QED BY <1>6, <4>1, <4>2
    <3>5. SellSync'
      BY <1>1, <1>2, <2>3, <2>4, <3>4 DEF b, m, want, OrNone
    <3>6. FlightSync'
      <4> SUFFICES ASSUME NEW s \in net', OfCall(s)
                   PROVE  /\ op'.pc \in {"wait", "confirm"} /\ (op'.pc = "wait" => Own(s)')
                          /\ s.kind = op'.leg.kind /\ s.amount = op'.leg.amount /\ s.close = op'.leg.close
                          /\ \A u \in net' : OfCall(u) => u = s
        BY <3>2 DEF FlightSync
      <4> QED BY <1>1, <1>2, <2>2, <3>1 DEF FlightSync
    <3> QED BY <1>2, <1>5, <1>6, <1>8, <2>3, <3>5, <3>6 DEF SyncMove, Buying
  <2> QED BY <2>5, <2>6
<1> QED BY <1>4, <1>7, <1>8

\* A note other than a second chunk list is one too many.
LEMMA NotClean ==
    ASSUME TypeOK, calls # <<>>, NEW s \in SUBSET Notes, Noted(s), Clean'
    PROVE  s \subseteq {"rechunked"}
<1>1. Annotated(s)
  BY NotedAnnotates
<1>2. Len(calls) \in DOMAIN calls
  BY LastOne
<1>3. s \subseteq calls'[Len(calls)].flags /\ calls'[Len(calls)].flags \subseteq {"rechunked"}
  BY <1>1, <1>2 DEF Annotated, Clean
<1> QED BY <1>3

\* The poll has seen the balance drop: the leg has landed.
LEMMA PollMoves ==
    ASSUME BrokerInv, SyncInv, NEW n, Advances(n), Clean', PollSeesSell
    PROVE  SyncMove
<1> DEFINE p == SellConfirmed([op EXCEPT !.moved = TRUE])
           want == LastCall.want
           a == op.leg.amount
<1>1. /\ Clean /\ Synced /\ Len(calls') = Len(calls) /\ LastCall \in CallType
      /\ LastCall'.want = LastCall.want /\ LastCall'.landed = LastCall.landed
      /\ net' \subseteq net /\ ata' = ata /\ op'.full = op.full
  BY AdvanceFrame
<1>2. op.pc = "confirm" /\ AtaConfirms /\ op' = p /\ UNCHANGED <<net, calls>>
  BY DEF PollSeesSell
<1>3. /\ TypeOK /\ want \in Nat /\ op \in OpType /\ Shape(op, want)
  BY <1>2, Running1 DEF BrokerInv
<1>4. op.call = "sell" /\ Selling /\ op.leg \in LegType /\ a \in Nat
  BY <1>2, <1>3 DEF Shape, Selling, OpType, LegType
<1>5. SellSync /\ FlightSync
  BY <1>1, <1>4 DEF Synced
<1>6. p.moved /\ p.full = op.full
  BY <1>2, <1>3, AheadConfirmed
<1>7. \A b, m \in Int : ~op.full /\ Ahead(op, b, m, want) /\ a <= b => Ahead(p, b - a, m + a, want)
  BY <1>2, <1>3, AheadConfirmed
<1>8. op'.pc \notin {"wait", "confirm"}
  <2> DEFINE x == [op EXCEPT !.moved = TRUE]
  <2>1. x \in OpType /\ x.pc = "confirm" /\ Shape(x, want)
    BY <1>2, <1>3 DEF OpType, Shape, Partial, OnLeg, Routed
  <2> HIDE DEF x, want
  <2>2. SellConfirmed(x).pc \in {"drain", "jread", "quote", "rem", "return"}
    BY <1>3, <2>1, SellConfirmedGood
  <2> QED BY <1>2, <2>2 DEF p, x
<1> HIDE DEF p
<1>9. SellSync' <=> Ahead(op', OrNone(ata)' + Shift', LastCall'.landed - Shift', LastCall'.want)
  BY DEF SellSync, Ahead, PartAhead, Unmoved, Rest, Positive, Routed, OnLeg
<1>10. SellSync' /\ FlightSync'
  <2>1. CASE op.full
    <3>1. op'.full /\ op'.moved
      BY <1>1, <1>2, <1>6, <2>1
    <3> QED BY <1>9, <3>1, AheadMoved DEF FlightSync, Settled
  <2>2. CASE ~op.full
    <3>1. /\ op.leg.kind \in {"sell", "jsell"} /\ ~op.leg.close
      BY <1>2, <1>3, <1>4, <2>2 DEF Shape, Partial, OnLeg
    <3>2. ata # Absent /\ (IF op.leg.kind = "jsell" THEN op.cpre ELSE op.pre) - ata >= a
      BY <1>2, <3>1 DEF AtaConfirms, ExpectClosed
    <3>3. ata \in Nat /\ OrNone(ata) = ata /\ LastCall.landed \in Nat /\ op.cpre \in Nat /\ op.pre \in Nat
      BY <1>1, <1>3, <3>2 DEF TypeOK, OrNone, CallType, OpType
    <3>4. PartAhead(op, OrNone(ata) + Shift, LastCall.landed - Shift, want)
      BY <1>5, <2>2 DEF SellSync, Ahead
    <3>5. a > 0 /\ (IF op.leg.kind = "jsell" THEN op.cpre ELSE op.pre) <= OrNone(ata) + Shift
      <4>1. CASE op.leg.kind = "sell"
        BY <1>2, <3>4, <4>1 DEF PartAhead, OnLeg
      <4>2. CASE op.leg.kind = "jsell"
        <5>1. Routed(op) /\ OnLeg(op)
          BY <1>2, <4>2 DEF Routed, OnLeg
        <5>2. op.cpre <= OrNone(ata) + Shift /\ Positive(op) /\ a = op.chunks[1]
          BY <3>4, <5>1 DEF PartAhead
        <5>3. op.chunks # <<>> /\ op.chunks \in Seq(Nat)
          BY <1>3, <5>1 DEF Shape, OpType
        <5>4. Len(op.chunks) \in Nat \ {0}
          BY <5>3
        <5>5. op.chunks[1] > 0
          BY <5>2, <5>4 DEF Positive
        <5> QED BY <4>2, <5>2, <5>5
      <4> QED BY <3>1, <4>1, <4>2
    <3>6. Shift \in {0, a}
      BY DEF Shift
    <3>7. Shift # 0
      BY <1>4, <3>2, <3>3, <3>5
    <3>8. Shift = a /\ \A t \in net : ~OfCall(t)
      BY <1>2, <3>6, <3>7 DEF Shift
    <3>9. Ahead(op, ata + a, LastCall.landed - a, want)
      BY <1>5, <3>3, <3>8 DEF SellSync
    <3>10. Ahead(p, (ata + a) - a, (LastCall.landed - a) + a, want)
      <4>1. ata + a \in Int /\ LastCall.landed - a \in Int /\ a <= ata + a
        BY <1>4, <3>3
      <4> HIDE DEF a, want
      <4> QED BY <1>7, <2>2, <3>9, <4>1
    <3>11. (ata + a) - a = ata /\ (LastCall.landed - a) + a = LastCall.landed
      BY <1>4, <3>3
    <3>12. Shift' = 0
      BY <1>8 DEF Shift
    <3>13. /\ OrNone(ata)' + Shift' = ata /\ LastCall'.landed - Shift' = LastCall.landed
           /\ LastCall'.want = want
      BY <1>1, <3>3, <3>12 DEF OrNone
    <3>14. SellSync'
      <4> HIDE DEF a, want
      <4> QED BY <1>2, <1>9, <3>10, <3>11, <3>13
    <3>15. \A t : OfCall(t)' <=> OfCall(t)
      BY <1>1 DEF OfCall, InFlight
    <3> QED BY <1>2, <3>8, <3>14, <3>15 DEF FlightSync
  <2> QED BY <2>1, <2>2
<1> QED BY <1>2, <1>4, <1>6, <1>10 DEF SyncMove, Buying

LEMMA PollSync ==
    ASSUME BrokerInv, SyncInv, PollSeesSell \/ PollTimesOut
    PROVE  SyncInv'
<1>0. TypeOK /\ CallInv
  BY DEF BrokerInv
<1>1. PICK n : Advances(n)
  BY <1>0, PollAdvances
<1>2. CASE PollSeesSell
  BY <1>1, <1>2, PollMoves, AdvanceSync
<1>3. CASE PollTimesOut
  <2> SUFFICES ASSUME Clean' PROVE FALSE
    BY DEF SyncInv
  <2>1. PICK o : Noted({"unsure"} \cup Rerouted(op, o)) /\ op.pc = "confirm"
    BY <1>3 DEF PollTimesOut
  <2> DEFINE s == {"unsure"} \cup Rerouted(op, o)
  <2>2. s \in SUBSET Notes /\ "unsure" \in s
    BY DEF Notes, Rerouted
  <2>3. calls # <<>> /\ Noted(s)
    BY <1>0, <2>1 DEF CallInv
  <2> HIDE DEF s
  <2>4. s \subseteq {"rechunked"}
    BY <1>0, <2>2, <2>3, NotClean
  <2> QED BY <2>2, <2>4
<1> QED BY <1>2, <1>3

\* What a leg that is sent keeps of the call.
LEMMA LegKeeps ==
    ASSUME NEW o \in OpType, NEW kind, NEW amount, NEW close
    PROVE  SendLeg(o, kind, amount, close).moved = o.moved
BY DEF SendLeg, OpType

\* The steps of a quoted chunk.
LEMMA QuoteMoves ==
    ASSUME BrokerInv, SyncInv, NEW n, Advances(n), Clean',
           QuoteFound \/ QuoteFails \/ CloseAfterJupiter
    PROVE  SyncMove
<1> DEFINE want == LastCall.want
           b == OrNone(ata)
           m == LastCall.landed
<1>1. /\ Clean /\ Synced /\ op'.full = op.full /\ UNCHANGED net /\ op.pc \in {"quote", "jread"}
  BY AdvanceFrame DEF QuoteFound, QuoteFails, CloseAfterJupiter
<1>2. /\ TypeOK /\ want \in Nat /\ op \in OpType /\ Shape(op, want)
  BY <1>1, Running1 DEF BrokerInv
<1>3. op.call = "sell" /\ Selling /\ Routed(op)
  BY <1>1, <1>2 DEF Shape, Selling, Routed
<1>4. SellSync
  BY <1>1, <1>3 DEF Synced
<1>5. ASSUME op'.pc # "confirm", op'.moved = op.moved, Ahead(op, b, m, want) => Ahead(op', b, m, want)
      PROVE  SyncMove
  <2>1. SellSync' /\ FlightSync'
    BY <1>1, <1>3, <1>5, SellStays
  <2> QED BY <1>1, <1>3, <1>5, <2>1 DEF SyncMove, Buying
<1>6. CASE QuoteFound
  <2>1. PICK v2 \in V2Choices :
           op' = [SendLeg(op, "jsell", Head(op.chunks), FALSE) EXCEPT !.tries = IF v2 THEN MaxTries - 1 ELSE 0]
    BY <1>6 DEF QuoteFound
  <2> DEFINE q == SendLeg(op, "jsell", Head(op.chunks), FALSE)
  <2>2. op.chunks \in Seq(Nat) /\ op.chunks # <<>> /\ op.pc = "quote"
    BY <1>2, <1>3, <1>6 DEF Shape, OpType, QuoteFound
  <2>3. Head(op.chunks) = op.chunks[1] /\ Head(op.chunks) \in Nat
    BY <2>2
  <2>4. /\ q \in OpType /\ q.pc = "send" /\ q.full = op.full /\ q.parts = op.parts
        /\ q.chunks = op.chunks /\ q.jamt = op.jamt /\ q.jpre = op.jpre /\ q.cpre = op.cpre
        /\ q.leg.kind = "jsell" /\ q.leg.amount = op.chunks[1] /\ q.leg.close = FALSE
        /\ q.moved = op.moved
    <3> DEFINE k == "jsell"
               h == Head(op.chunks)
               f == FALSE
    <3>1. h \in Nat /\ k \in {"buy", "jbuy", "sell", "drain", "dclose", "jsell", "jclose"} /\ f \in BOOLEAN
      BY <2>3
    <3> HIDE DEF k, h, f
    <3>2. LET p == SendLeg(op, k, h, f)
          IN  /\ p \in OpType /\ p.pc = "send" /\ p.full = op.full /\ p.parts = op.parts
              /\ p.chunks = op.chunks /\ p.jamt = op.jamt /\ p.jpre = op.jpre /\ p.cpre = op.cpre
              /\ p.leg.kind = k /\ p.leg.amount = h /\ p.leg.close = f
              /\ p.moved = op.moved
      BY <1>2, <3>1, SendLegFields, LegKeeps
    <3> QED BY <2>3, <3>2 DEF k, h, f
  <2> HIDE DEF q
  <2>5. /\ op'.pc = "send" /\ op'.full = op.full /\ op'.parts = op.parts
        /\ op'.chunks = op.chunks /\ op'.jamt = op.jamt /\ op'.jpre = op.jpre /\ op'.cpre = op.cpre
        /\ op'.leg.kind = "jsell" /\ op'.leg.amount = op.chunks[1] /\ op'.leg.close = FALSE
        /\ op'.moved = op.moved
    <3>1. op' = [q EXCEPT !.tries = IF v2 THEN MaxTries - 1 ELSE 0]
      BY <2>1 DEF q
    <3> QED BY <2>4, <3>1 DEF OpType
  <2>6. Ahead(op, b, m, want) => Ahead(op', b, m, want)
    <3>1. Rest(op') = Rest(op) /\ (Positive(op') <=> Positive(op)) /\ Routed(op') /\ OnLeg(op')
      BY <2>5 DEF Rest, Positive, Routed, OnLeg
    <3>2. Unmoved(op, m) => Unmoved(op', m)
      BY <2>5 DEF Unmoved, OnLeg
    <3>3. PartAhead(op, b, m, want) => PartAhead(op', b, m, want)
      BY <1>3, <2>2, <2>5, <3>1 DEF PartAhead, OnLeg
    <3> QED BY <2>5, <3>2, <3>3 DEF Ahead
  <2> QED BY <1>5, <2>5, <2>6
<1>7. CASE QuoteFails
  <2>1. op' = ChunkFailed(op)
    BY <1>7 DEF QuoteFails
  <2>2. ASSUME NEW x, NEW y, Ahead(op, x, y, want) PROVE Ahead(op', x, y, want) /\ op'.moved = op.moved
    <3> HIDE DEF want
    <3> QED BY <1>2, <1>3, <2>1, <2>2, AheadChunkFailed
  <2>3. op'.pc # "confirm"
    <3> HIDE DEF want
    <3> QED BY <1>2, <1>3, <2>1, ChunkFailedGood
  <2>4. op'.moved = op.moved
    BY <1>4, <2>2 DEF SellSync
  <2> QED BY <1>5, <2>2, <2>3, <2>4
<1>8. CASE CloseAfterJupiter
  <2>1. PICK r : op' = IF r = 0 THEN SendLeg(op, "jclose", 0, FALSE) ELSE ChunkDone(op)
    BY <1>8 DEF CloseAfterJupiter
  <2>2. op.pc = "jread"
    BY <1>8 DEF CloseAfterJupiter
  <2>3. op.full /\ op.moved
    <3>1. op.full
      BY <1>2, <1>3, <2>2 DEF Shape, Partial
    <3> QED BY <1>4, <2>2, <3>1 DEF SellSync, Ahead, Unmoved
  <2>4. op'.moved = op.moved /\ op'.pc # "confirm"
    <3>1. CASE r = 0
      <4>1. op' = SendLeg(op, "jclose", 0, FALSE)
        BY <2>1, <3>1
      <4> QED BY <1>2, <4>1 DEF SendLeg, OpType
    <3>2. CASE r # 0
      <4>1. op' = ChunkDone(op)
        BY <2>1, <3>2
      <4>2. ChunkDone(op).pc \in {"quote", "rem", "return"}
        <5> HIDE DEF want
        <5> QED BY <1>2, <1>3, ChunkDoneGood
      <4> QED BY <1>2, <4>1, <4>2, ChunkDoneKeeps
    <3> QED BY <3>1, <3>2
  <2>5. Ahead(op', b, m, want)
    BY <1>1, <2>3, <2>4, AheadMoved
  <2> QED BY <1>5, <2>4, <2>5
<1> QED BY <1>6, <1>7, <1>8

\* The steps of a buy outside its legs.
LEMMA BuyMoves ==
    ASSUME BrokerInv, SyncInv, NEW n, Advances(n), Clean',
           BuyRefused \/ BuyRouted \/ BuyQuoted \/ NoBuyRoute \/ FillMeasured \/ FillFloored
    PROVE  SyncMove
<1>1. /\ Clean /\ Synced /\ op'.full = op.full /\ UNCHANGED <<net, calls, ata>>
      /\ op.pc \in {"prepare", "jquote", "fill"} /\ LastCall \in CallType /\ LastCall.kind = op.call
      /\ calls # <<>> /\ Len(calls) \in DOMAIN calls
  BY AdvanceFrame DEF BuyRefused, BuyRouted, BuyQuoted, NoBuyRoute, FillMeasured, FillFloored
<1>2. /\ TypeOK /\ op \in OpType /\ Shape(op, LastCall.want) /\ OnceInv
  BY <1>1, Running1 DEF BrokerInv
<1>3. op.call = "buy" /\ Buying
  BY <1>1, <1>2 DEF Shape, Buying
<1>4. BuySync /\ op.parts = 0
  BY <1>1, <1>3 DEF Synced, BuySync
<1>5. "rechunked" \notin LastCall'.flags
  <2> DEFINE s == {}
  <2>1. s \in SUBSET {"unsure"}
    OBVIOUS
  <2> HIDE DEF s
  <2> QED BY <1>1, <1>3, <2>1, BuyNotes
<1>6. ASSUME op'.moved = op.moved, BuySync' PROVE SyncMove
  BY <1>1, <1>3, <1>5, <1>6 DEF SyncMove, Selling
<1>7. ASSUME op.pc \in Unsent, op'.pc # "fill", op'.pc = "return" => op'.res # "ok", op'.parts = 0,
             op'.moved = op.moved
      PROVE  SyncMove
  BY <1>3, <1>6, <1>7, BuyStays
<1>8. CASE BuyRefused \/ NoBuyRoute
  <2>1. op' = Done(op, "err") /\ op.pc \in {"prepare", "jquote"}
    BY <1>8 DEF BuyRefused, NoBuyRoute
  <2>2. op'.pc = "return" /\ op'.res = "err" /\ op'.parts = 0 /\ op'.moved = op.moved
    BY <2>1 DEF Done, IdleOp
  <2> QED BY <1>7, <2>1, <2>2 DEF Unsent
<1>9. CASE BuyRouted
  <2>1. PICK x \in Nat :
           op' = [[op EXCEPT !.pre = x] EXCEPT !.pc = "jquote"]
              \/ op' = SendLeg([op EXCEPT !.pre = x], "buy", 0, FALSE)
    <3>1. PICK read \in BOOLEAN, r \in AtaRead :
             op' = IF read /\ curve = "complete" THEN [[op EXCEPT !.pre = OrZero(r)] EXCEPT !.pc = "jquote"]
                   ELSE SendLeg([op EXCEPT !.pre = OrZero(r)], "buy", 0, FALSE)
      BY <1>9 DEF BuyRouted
    <3>2. OrZero(r) \in Nat
      BY <1>2, ReadFacts
    <3> QED BY <3>1, <3>2
  <2>2. op'.pc \in {"jquote", "send"} /\ op'.parts = 0 /\ op'.moved = op.moved
    BY <1>2, <1>4, <2>1 DEF SendLeg, OpType
  <2>3. op.pc \in Unsent
    BY <1>9 DEF BuyRouted, Unsent
  <2> QED BY <1>7, <2>2, <2>3
<1>10. CASE BuyQuoted
  <2>1. PICK r : op' = [SendLeg(op, "jbuy", 0, FALSE) EXCEPT !.pre = OrZero(r)]
    BY <1>10 DEF BuyQuoted
  <2>2. op'.pc = "send" /\ op'.parts = 0 /\ op'.moved = op.moved
    BY <1>2, <1>4, <2>1 DEF SendLeg, OpType
  <2>3. op.pc \in Unsent
    BY <1>10 DEF BuyQuoted, Unsent
  <2> QED BY <1>7, <2>2, <2>3
<1>11. Buys' = Buys /\ Avail' = Avail /\ LastCall' = LastCall
  BY <1>1 DEF Buys, InFlight, Avail, OrNone, LastCall
<1>12. ASSUME NEW x \in Nat, op' = [Done(op, "ok") EXCEPT !.size = x], 0 < x, x <= Avail
       PROVE  SyncMove
  <2>1. op'.pc = "return" /\ op'.res = "ok" /\ op'.size = x /\ op'.parts = 0 /\ op'.moved = op.moved
    BY <1>12 DEF Done, IdleOp
  <2>2. BuySync'
    BY <1>1, <1>4, <1>11, <1>12, <2>1 DEF BuySync
  <2> QED BY <1>6, <2>1, <2>2
<1>13. ASSUME NEW t \in Buys PROVE ata = Absent
  BY <1>1, <1>2, BuyFlight DEF Synced
<1>14. CASE FillMeasured
  <2>1. op' = [Done(op, "ok") EXCEPT !.size = ata - op.pre] /\ ata > op.pre /\ op.pre \in Nat
    BY <1>2, <1>14 DEF FillMeasured, OpType
  <2>2. ata \in Nat /\ ata # Absent
    BY <1>2, <2>1 DEF TypeOK, Absent
  <2>3. Avail = ata
    BY <1>13, <2>2 DEF Avail, OrNone
  <2>4. ata - op.pre \in Nat /\ 0 < ata - op.pre /\ ata - op.pre <= Avail
    BY <2>1, <2>2, <2>3
  <2> QED BY <1>12, <2>1, <2>4
<1>15. CASE FillFloored
  <2>1. op' = [Done(op, "ok") EXCEPT !.size = Floor] /\ op.pc = "fill"
    BY <1>15 DEF FillFloored
  <2>2. Avail = Fill
    <3>1. CASE Buys # {}
      BY <3>1 DEF Avail
    <3>2. CASE Buys = {}
      <4>1. ata = Fill /\ Fill # Absent
        BY <1>4, <2>1, <3>2, BrokerAssumption DEF BuySync, Absent
      <4> QED BY <3>2, <4>1 DEF Avail, OrNone
    <3> QED BY <3>1, <3>2
  <2>3. Floor \in Nat /\ 0 < Floor /\ Floor <= Avail
    BY <2>2, BrokerAssumption
  <2> QED BY <1>12, <2>1, <2>3
<1> QED BY <1>8, <1>9, <1>10, <1>14, <1>15

\* A sell is refused, sized and routed.
LEMMA SellMoves ==
    ASSUME BrokerInv, SyncInv, NEW n, Advances(n), Clean', SellRefused \/ SizeSell \/ RouteSell
    PROVE  SyncMove
<1> DEFINE want == LastCall.want
           b == OrNone(ata)
           m == LastCall.landed
<1>1. /\ Clean /\ Synced /\ op'.full = op.full /\ UNCHANGED <<net, ata>>
      /\ op.pc \in {"size", "route"} /\ calls # <<>>
  BY AdvanceFrame DEF SellRefused, SizeSell, RouteSell
<1>2. /\ TypeOK /\ want \in Nat /\ op \in OpType /\ Shape(op, want)
  BY <1>1, Running1 DEF BrokerInv
<1>3. op.call = "sell" /\ Selling
  BY <1>1, <1>2 DEF Shape, Selling
<1>4. b \in Nat /\ (~op.full => op.size <= want) /\ op.size \in Nat /\ op.full \in BOOLEAN
  BY <1>2, <1>3, OrNoneType DEF Shape, Partial, OpType
<1>5. ASSUME op'.pc # "confirm", op'.moved = op.moved, Ahead(op, b, m, want) => Ahead(op', b, m, want),
             op.pc = "size" /\ op.full => ata # Absent \/ (op'.pc = "return" /\ op'.res # "ok")
      PROVE  SyncMove
  <2>1. SellSync' /\ FlightSync'
    BY <1>1, <1>3, <1>5, SellStays
  <2> QED BY <1>1, <1>3, <1>5, <2>1 DEF SyncMove, Buying
<1>6. Ahead(op, b, m, want) => /\ ~op.moved => m = 0
                               /\ ~op.full => ~op.moved
  BY <1>1 DEF Ahead, Unmoved, PartAhead
<1> HIDE DEF b, m, want
<1>7. CASE SellRefused
  <2> DEFINE res == "err"
  <2>1. op' = Done(op, res)
    BY <1>7 DEF SellRefused
  <2>2. op'.pc = "return" /\ op'.res # "ok" /\ op'.moved = op.moved
    BY <2>1 DEF Done, IdleOp
  <2>3. res # "ok"
    OBVIOUS
  <2> HIDE DEF res
  <2>4. Ahead(op, b, m, want) => Ahead(op', b, m, want)
    BY <1>6, <2>1, <2>3, AheadDone
  <2> QED BY <1>5, <2>2, <2>4
<1>8. CASE SizeSell
  <2>1. PICK r \in IF op.full THEN AtaRead ELSE {ReadFailed} :
           /\ op' = [op EXCEPT !.pc = "route", !.size = IF r = ReadFailed THEN @ ELSE r]
           /\ Noted(IF op.full /\ r = ReadFailed THEN {"short"} ELSE {})
    BY <1>8 DEF SizeSell
  <2>2. op.full => ata # Absent
    <3> DEFINE s == IF op.full /\ r = ReadFailed THEN {"short"} ELSE {}
    <3>1. s \in SUBSET Notes /\ Noted(s) /\ (op.full /\ r = ReadFailed => "short" \in s)
      BY <2>1 DEF Notes
    <3> HIDE DEF s
    <3>2. s \subseteq {"rechunked"}
      BY <1>1, <1>2, <3>1, NotClean
    <3>3. op.full => r # ReadFailed /\ r \in AtaRead
      BY <2>1, <3>1, <3>2
    <3> QED BY <1>2, <3>3, ReadFacts DEF Absent
  <2>3. op'.pc = "route" /\ op'.moved = op.moved
    BY <1>2, <2>1 DEF OpType
  <2>4. Ahead(op, b, m, want) => Ahead(op', b, m, want)
    BY <1>1, <1>6, <2>3 DEF Ahead, Unmoved, PartAhead, OnLeg, Routed
  <2> QED BY <1>5, <2>2, <2>3, <2>4
<1>9. CASE RouteSell
  <2> DEFINE O(s, r) == [op EXCEPT !.size = s, !.clamped = s < op.size, !.pre = OrZero(r)]
             Close(s) == op.full /\ ~(s < op.size)
  <2>1. PICK r \in AtaRead, s \in 0..op.size :
           \/ s > 0 /\ op' = StartJupiter(O(s, r), OrZero(r), s, Close(s))
           \/ op' = Done(O(s, r), "err")
           \/ (s = 0 => Close(s)) /\ op' = SendLeg(O(s, r), "sell", s, Close(s))
    <3>1. PICK read \in BOOLEAN, high \in BOOLEAN, r \in AtaRead :
          \E s \in IF read THEN Sellable(op.size) ELSE {op.size} :
            LET clamped == s < op.size
                close == op.full /\ ~clamped
                viaJupiter == read /\ (curve = "complete" \/ high) /\ s > 0
                o == [op EXCEPT !.size = s, !.clamped = clamped, !.pre = OrZero(r)]
            IN /\ Affordable(~read \/ Misread(r)) /\ Costs(~read \/ Misread(r))
               /\ op' = CASE viaJupiter -> StartJupiter(o, OrZero(r), s, close)
                          [] ~viaJupiter /\ s = 0 /\ ~close -> Done(o, "err")
                          [] OTHER -> SendLeg(o, "sell", s, close)
               /\ Noted(IF viaJupiter /\ op.full /\ clamped THEN {"short"} ELSE {})
      BY <1>9 DEF RouteSell
    <3>2. PICK s \in IF read THEN Sellable(op.size) ELSE {op.size} :
             LET viaJupiter == read /\ (curve = "complete" \/ high) /\ s > 0
             IN  op' = CASE viaJupiter -> StartJupiter(O(s, r), OrZero(r), s, Close(s))
                         [] ~viaJupiter /\ s = 0 /\ ~Close(s) -> Done(O(s, r), "err")
                         [] OTHER -> SendLeg(O(s, r), "sell", s, Close(s))
      BY <3>1
    <3>3. s \in 0..op.size
      BY <1>4, <3>2 DEF Sellable
    <3> HIDE DEF O, Close
    <3> QED BY <3>2, <3>3
  <2> DEFINE o == O(s, r)
             close == Close(s)
             pre == OrZero(r)
  <2>2. s \in Nat /\ s <= op.size /\ close \in BOOLEAN /\ (~op.full => ~close /\ s <= want)
    <3>1. s \in Nat /\ s <= op.size /\ (~op.full => s <= want)
      BY <1>2, <1>4
    <3>2. close \in BOOLEAN /\ (~op.full => ~close)
      BY <1>4
    <3> QED BY <3>1, <3>2
  <2>3. pre \in Nat /\ pre <= b
    BY <1>2, ReadFacts, OrNoneType DEF b, Absent
  <2>4. o \in OpType /\ o.moved = op.moved /\ o.full = op.full /\ o.pre = pre /\ o.call = op.call
    <3>1. s \in Nat /\ (s < op.size) \in BOOLEAN
      BY <2>2
    <3> QED BY <1>2, <2>3, <3>1 DEF OpType
  <2>5. op.pc = "route"
    BY <1>9 DEF RouteSell
  <2>6. \/ s > 0 /\ op' = StartJupiter(o, pre, s, close)
        \/ op' = Done(o, "err")
        \/ (s = 0 => close) /\ op' = SendLeg(o, "sell", s, close)
    BY <2>1
  <2> HIDE DEF o, close, pre
  <2>7. CASE s > 0 /\ op' = StartJupiter(o, pre, s, close)
    <3>1. Ahead(op, b, m, want) => Ahead(op', b, m, want) /\ op'.moved = op.moved
      BY <1>2, <1>6, <2>2, <2>3, <2>4, <2>7, AheadStart
    <3>2. op'.pc = "quote" /\ op'.moved = op.moved
      BY <2>4, <2>7 DEF StartJupiter, Quoting, OpType
    <3> QED BY <1>5, <2>5, <3>1, <3>2
  <2>8. CASE op' = Done(o, "err")
    <3> DEFINE res == "err"
    <3>1. op' = Done(o, res) /\ res # "ok"
      BY <2>8
    <3>2. op'.pc = "return" /\ op'.moved = op.moved
      BY <2>4, <3>1 DEF Done, IdleOp
    <3> HIDE DEF res
    <3>3. Ahead(op, b, m, want) => Ahead(op', b, m, want)
      BY <1>6, <2>4, <3>1, AheadDone
    <3> QED BY <1>5, <2>5, <3>2, <3>3
  <2>9. CASE (s = 0 => close) /\ op' = SendLeg(o, "sell", s, close)
    <3>1. /\ op'.pc = "send" /\ op'.full = op.full /\ op'.pre = pre /\ op'.moved = op.moved
          /\ op'.leg.kind = "sell" /\ op'.leg.amount = s /\ op'.leg.close = close
      BY <2>4, <2>9 DEF SendLeg, OpType
    <3>2. ~op.full => s > 0
      BY <2>2, <2>9
    <3>3. ~Routed(op') /\ OnLeg(op')
      BY <3>1 DEF Routed, OnLeg
    <3>4. ASSUME Ahead(op, b, m, want) PROVE Ahead(op', b, m, want)
      <4>1. ~op'.moved => Unmoved(op', m)
        BY <1>6, <3>1, <3>4 DEF Unmoved
      <4>2. ~op'.full => PartAhead(op', b, m, want)
        BY <1>6, <2>3, <3>1, <3>2, <3>3, <3>4 DEF PartAhead
      <4> QED BY <4>1, <4>2 DEF Ahead
    <3> QED BY <1>5, <2>5, <3>1, <3>4
  <2> QED BY <2>6, <2>7, <2>8, <2>9
<1> QED BY <1>7, <1>8, <1>9

\* A drain follows a confirmed leg of a full exit.
LEMMA DrainMoves ==
    ASSUME BrokerInv, SyncInv, NEW n, Advances(n), Clean', DrainLeg \/ DrainStops \/ DrainRemainder
    PROVE  SyncMove
<1> DEFINE want == LastCall.want
           b == OrNone(ata)
           m == LastCall.landed
<1>1. /\ Clean /\ Synced /\ op'.full = op.full /\ UNCHANGED net /\ op.pc \in {"drain", "rem"}
  BY AdvanceFrame DEF DrainLeg, DrainStops, DrainRemainder
<1>2. /\ TypeOK /\ op \in OpType /\ Shape(op, want)
  BY <1>1, Running1 DEF BrokerInv
<1>3. op.call = "sell" /\ Selling /\ op.full
  BY <1>1, <1>2 DEF Shape, Selling, Partial
<1>4. op.moved
  BY <1>1, <1>3 DEF Synced, SellSync, Ahead, Unmoved
<1>5. op'.moved = op.moved /\ op'.pc # "confirm"
  <2>1. CASE DrainLeg
    <3>1. PICK s : op' = IF curve = "complete" THEN StartJupiter([op EXCEPT !.pre = ata], ata, ata, TRUE)
                         ELSE SendLeg([op EXCEPT !.pre = ata], "drain", s, FALSE)
      BY <2>1 DEF DrainLeg
    <3> DEFINE o == [op EXCEPT !.pre = ata]
    <3>2. o \in OpType /\ o.moved = op.moved
      <4>1. ata \in Nat
        BY <1>2, <2>1 DEF DrainLeg, TypeOK, Absent
      <4> QED BY <1>2, <4>1 DEF OpType
    <3>3. op' = StartJupiter(o, ata, ata, TRUE) \/ op' = SendLeg(o, "drain", s, FALSE)
      BY <3>1
    <3> HIDE DEF o
    <3>4. CASE op' = StartJupiter(o, ata, ata, TRUE)
      BY <3>2, <3>4 DEF StartJupiter, Quoting, OpType
    <3>5. CASE op' = SendLeg(o, "drain", s, FALSE)
      BY <3>2, <3>5 DEF SendLeg, OpType
    <3> QED BY <3>3, <3>4, <3>5
  <2>2. CASE DrainStops
    BY <1>2, <2>2 DEF DrainStops, OpType
  <2>3. CASE DrainRemainder
    <3>1. op' = SendLeg(op, "dclose", 0, FALSE) \/ op' = Done(op, "ok")
      BY <2>3 DEF DrainRemainder
    <3>2. CASE op' = SendLeg(op, "dclose", 0, FALSE)
      BY <1>2, <3>2 DEF SendLeg, OpType
    <3>3. CASE op' = Done(op, "ok")
      BY <3>3 DEF Done, IdleOp
    <3> QED BY <3>1, <3>2, <3>3
  <2> QED BY <2>1, <2>2, <2>3
<1>6. Ahead(op', b, m, want)
  BY <1>1, <1>3, <1>4, <1>5, AheadMoved
<1>7. SellSync' /\ FlightSync'
  BY <1>1, <1>3, <1>5, <1>6, SellStays
<1> QED BY <1>1, <1>3, <1>5, <1>7 DEF SyncMove, Buying

\* The steps of a call between its legs.
LEMMA BetweenSync ==
    ASSUME BrokerInv, SyncInv,
           \/ QuoteFound \/ QuoteFails \/ CloseAfterJupiter
           \/ BuyRefused \/ BuyRouted \/ BuyQuoted \/ NoBuyRoute \/ FillMeasured \/ FillFloored
           \/ SellRefused \/ SizeSell \/ RouteSell
           \/ DrainLeg \/ DrainStops \/ DrainRemainder
    PROVE  SyncInv'
<1>0. TypeOK /\ CallInv
  BY DEF BrokerInv
<1>1. CASE QuoteFound \/ QuoteFails \/ CloseAfterJupiter
  <2>1. PICK n : Advances(n)
    BY <1>0, <1>1, QuoteAdvances
  <2> QED BY <1>1, <2>1, QuoteMoves, AdvanceSync
<1>2. CASE BuyRefused \/ BuyRouted \/ BuyQuoted \/ NoBuyRoute \/ FillMeasured \/ FillFloored
  <2>1. PICK n : Advances(n)
    BY <1>0, <1>2, BuyAdvances
  <2> QED BY <1>2, <2>1, BuyMoves, AdvanceSync
<1>3. CASE SellRefused \/ SizeSell \/ RouteSell
  <2>1. PICK n : Advances(n)
    BY <1>0, <1>3, SellAdvances
  <2> QED BY <1>3, <2>1, SellMoves, AdvanceSync
<1>4. CASE DrainLeg \/ DrainStops \/ DrainRemainder
  <2>1. PICK n : Advances(n)
    BY <1>0, <1>4, DrainAdvances
  <2> QED BY <1>4, <2>1, DrainMoves, AdvanceSync
<1> QED BY <1>1, <1>2, <1>3, <1>4

\* The steps of a leg that neither send nor are told that they have sent.
LEMMA LegSync ==
    ASSUME BrokerInv, SyncInv,
           BlockhashFails \/ (\E t \in net : WaitOk(t) \/ WaitFails(t) \/ WaitGivesUp(t))
    PROVE  SyncInv'
<1>0. TypeOK /\ CallInv
  BY DEF BrokerInv
<1>1. PICK n : Advances(n)
  BY <1>0, LegAdvances
<1> SUFFICES ASSUME Clean' PROVE SyncMove
  BY <1>1, AdvanceSync
<1>2. Clean /\ Synced
  BY <1>1, AdvanceFrame
<1>3. CASE BlockhashFails
  <2>1. op.pc = "send" /\ UNCHANGED net
    BY <1>3 DEF BlockhashFails, Sending
  <2>2. CASE LastTry \/ Jupiter
    <3> DEFINE e == "custom"
               s == {}
    <3>1. Fail(e, s) /\ s \in SUBSET {"unsure"}
      BY <1>3, <2>2 DEF BlockhashFails
    <3> HIDE DEF e, s
    <3> QED BY <1>1, <2>1, <3>1, FailMoves
  <2>3. CASE ~(LastTry \/ Jupiter)
    <3>1. op' = [op EXCEPT !.tries = @ + 1] /\ UNCHANGED calls
      BY <1>3, <2>3 DEF BlockhashFails
    <3>2. op.call = "buy" => "rechunked" \notin LastCall'.flags
      <4> DEFINE s == {}
      <4>1. s \in SUBSET {"unsure"}
        OBVIOUS
      <4> HIDE DEF s
      <4> QED BY <1>2, <2>1, <3>1, <4>1, BuyNotes DEF Buying
    <3> QED BY <1>1, <2>1, <3>1, <3>2, RetryMoves
  <2> QED BY <2>2, <2>3
<1>4. ASSUME NEW t \in net, WaitOk(t) PROVE SyncMove
  BY <1>1, <1>4, WaitOkMoves
<1>5. ASSUME NEW t \in net, NEW e, NEW s \in SUBSET {"unsure"}, Waiting(t), Fail(e, s), Forget(t),
             t.st \notin {"sent", "processed", "ok"}
      PROVE  SyncMove
  <2>1. op.pc = "wait" /\ Own(t)
    BY <1>5 DEF Waiting
  <2>2. \A u \in net : InFlight(u) => u \in net'
    BY <1>5 DEF Forget, InFlight
  <2> QED BY <1>1, <1>5, <2>1, <2>2, FailMoves
<1>6. ASSUME NEW t \in net, WaitFails(t) PROVE SyncMove
  <2> DEFINE s == {}
  <2>1. /\ Waiting(t) /\ Fail(t.st, s) /\ Forget(t) /\ s \in SUBSET {"unsure"}
        /\ t.st \notin {"sent", "processed", "ok"}
    BY <1>6 DEF WaitFails
  <2> HIDE DEF s
  <2> QED BY <1>5, <2>1
<1>7. ASSUME NEW t \in net, WaitGivesUp(t) PROVE SyncMove
  <2> DEFINE s == IF t.st = "gone" THEN {} ELSE {"unsure"}
             e == "custom"
  <2>1. /\ Waiting(t) /\ Fail(e, s) /\ Forget(t) /\ s \in SUBSET {"unsure"}
        /\ t.st # "gone" => "unsure" \in s
    BY <1>7 DEF WaitGivesUp
  <2> HIDE DEF s, e
  <2>2. CASE t.st = "gone"
    BY <1>5, <2>1, <2>2
  <2>3. CASE t.st # "gone"
    <3> DEFINE z == s \cup Rerouted(op, OnFailed(op, e))
    <3>1. Noted(z) /\ "unsure" \in z
      BY <2>1, <2>3 DEF Fail
    <3>2. z \in SUBSET Notes
      BY <2>1 DEF Notes, Rerouted
    <3>3. calls # <<>>
      BY <1>1, AdvanceFrame
    <3> HIDE DEF z
    <3>4. z \subseteq {"rechunked"}
      BY <1>0, <3>1, <3>2, <3>3, NotClean
    <3> QED BY <3>1, <3>4
  <2> QED BY <2>2, <2>3
<1> QED BY <1>3, <1>4, <1>6, <1>7

\* A send that reports an error has sent nothing, unless it lies.
LEMMA ErrorsSync ==
    ASSUME BrokerInv, SyncInv, SendErrors
    PROVE  SyncInv'
<1>0. TypeOK /\ CallInv /\ op.pc = "send"
  BY DEF BrokerInv, SendErrors, Sending
<1>1. calls # <<>> /\ Len(calls) \in DOMAIN calls
  BY <1>0, LastOne DEF CallInv
<1>2. CASE "lied" \in LastCall'.flags
  <2>1. PICK s : Noted(s)
    BY DEF SendErrors, Fail
  <2>2. Len(calls') = Len(calls) /\ DOMAIN calls' = DOMAIN calls
    BY <1>0, <2>1 DEF Noted, TypeOK
  <2>3. ~Clean'
    BY <1>1, <1>2, <2>2 DEF Clean, LastCall
  <2> QED BY <2>3 DEF SyncInv
<1>3. CASE \E n : Advances(n)
  <2>1. PICK n : Advances(n)
    BY <1>3
  <2> SUFFICES ASSUME Clean' PROVE SyncMove
    BY <2>1, AdvanceSync
  <2>2. Clean /\ Synced
    BY <2>1, AdvanceFrame
  <2>3. PICK reached \in BOOLEAN, e \in RejectCodes(op.leg) :
          /\ net' = IF reached THEN net \cup {NewTx("sent")} ELSE net
          /\ LET notes == IF reached THEN {"lied"} ELSE {}
             IN IF LastTry THEN Fail(e, notes)
                ELSE op' = [op EXCEPT !.tries = @ + 1] /\ Noted(notes)
    BY DEF SendErrors
  <2> DEFINE lie == IF reached THEN {"lied"} ELSE {}
             s == lie \cup (IF LastTry THEN Rerouted(op, OnFailed(op, e)) ELSE {})
  <2>4. Noted(s) /\ s \in SUBSET Notes /\ lie \subseteq s
    <3>1. Noted(s)
      BY <2>3 DEF Fail
    <3> QED BY <3>1 DEF Notes, Rerouted
  <2>5. ~reached
    <3> HIDE DEF s
    <3>1. s \subseteq {"rechunked"}
      BY <1>0, <1>1, <2>4, NotClean
    <3> QED BY <2>4, <3>1
  <2>6. net' = net
    BY <2>3, <2>5
  <2> DEFINE z == {}
  <2>7. z \in SUBSET {"unsure"}
    OBVIOUS
  <2>8. CASE LastTry
    <3>1. Fail(e, z)
      BY <2>3, <2>5, <2>8
    <3> HIDE DEF z
    <3> QED BY <1>0, <2>1, <2>6, <2>7, <3>1, FailMoves
  <2>9. CASE ~LastTry
    <3>1. op' = [op EXCEPT !.tries = @ + 1] /\ Noted(z)
      BY <2>3, <2>5, <2>9
    <3>2. op.call = "buy" => "rechunked" \notin LastCall'.flags
      <4>1. z \cup Rerouted(op, op) = z
        <5>1. Rerouted(op, op) = {}
          BY <1>0 DEF Rerouted
        <5> QED BY <5>1
      <4>2. Noted(z \cup Rerouted(op, op))
        BY <3>1, <4>1
      <4> HIDE DEF z
      <4> QED BY <1>0, <2>2, <2>7, <4>2, BuyNotes DEF Buying
    <3> QED BY <1>0, <2>1, <2>6, <3>1, <3>2, RetryMoves
  <2> QED BY <2>8, <2>9
<1> QED BY <1>0, <1>2, <1>3, ErrorsInv

\* The RPC has accepted the leg: it is the one transaction of the call that may land.
LEMMA AcceptSync ==
    ASSUME BrokerInv, SyncInv, SendAccepted
    PROVE  SyncInv'
<1>t. PICK t : t = NewTx("sent")
  OBVIOUS
<1>0. /\ TypeOK /\ CallInv /\ op.pc = "send" /\ Room /\ UNCHANGED <<curve, ata, row, calls>>
      /\ net' = net \cup {t} /\ op' = [op EXCEPT !.pc = "wait", !.tx = t.id]
  BY <1>t DEF BrokerInv, SendAccepted, Sending
<1> SUFFICES ASSUME Clean' PROVE Synced'
  BY DEF SyncInv
<1>1. Clean /\ Synced
  BY <1>0 DEF Clean, SyncInv
<1>2. /\ \A s \in net : s.id # t.id
      /\ t.call = Len(calls) /\ t.kind = op.leg.kind /\ t.amount = op.leg.amount /\ t.st = "sent"
      /\ t.close = op.leg.close
  <2>1. t.close = op.leg.close
    BY <1>t DEF NewTx
  <2> QED BY <1>t, <1>0, <2>1, FreshTx
<1>3. /\ calls # <<>> /\ Len(calls) \in DOMAIN calls /\ LastCall \in CallType
      /\ LastCall.kind = op.call /\ op \in OpType
      /\ op.call = IF op.leg.kind \in BuyKinds THEN "buy" ELSE "sell"
  BY <1>0, LastOne DEF CallInv, Shape, TypeOK, BuyKinds
<1>4. /\ op'.pc = "wait" /\ op'.tx = t.id /\ op'.call = op.call /\ op'.full = op.full
      /\ op'.moved = op.moved /\ op'.leg = op.leg /\ op'.pre = op.pre /\ op'.parts = op.parts
      /\ op'.chunks = op.chunks /\ op'.jamt = op.jamt /\ op'.jpre = op.jpre /\ op'.cpre = op.cpre
  BY <1>0, <1>3 DEF OpType
<1>5. /\ Selling' <=> Selling
      /\ Buying' <=> Buying
      /\ Settled' <=> Settled
      /\ LastCall' = LastCall
  BY <1>0, <1>4 DEF Selling, Buying, Settled, LastCall
<1>6. ChainSync /\ RowSync
  BY <1>1 DEF Synced
<1>7. InFlight(t) /\ Own(t)' /\ ~OwnLanded'
  BY <1>0, <1>2, <1>4 DEF InFlight, Own, OwnLanded
<1>8. \A s : (InFlight(s)' <=> InFlight(s)) /\ (OfCall(s)' <=> OfCall(s))
  BY <1>0 DEF InFlight, OfCall
<1>9. Buys' = Buys \cup (IF Buying THEN {t} ELSE {})
  BY <1>0, <1>2, <1>3, <1>7, <1>8 DEF Buys, Buying
<1>10. ChainSync'
  <2>1. \A s \in net' : s.kind \in BuyKinds <=> calls[s.call].kind = "buy"
    BY <1>0, <1>2, <1>3, <1>6 DEF ChainSync, LastCall
  <2>2. \A s \in net' : s.st = "sent" => op'.pc = "wait" /\ Own(s)'
    BY <1>0, <1>4, <1>6, <1>7 DEF ChainSync
  <2> QED BY <1>0, <1>3, <1>6, <2>1, <2>2 DEF ChainSync
<1>11. RowSync'
  <2>1. Selling => Avail' = Avail /\ Buys' = Buys
    BY <1>0, <1>9 DEF Avail, OrNone, Selling, Buying
  <2>2. (Buying => row.st = "none") /\ (Selling => row.st = "open") /\ (Buying \/ Selling)
    BY <1>0, <1>3, <1>6 DEF RowSync, Buying, Selling
  <2>3. row.st # "closed" => \A s \in net' : InFlight(s) /\ s.kind \notin BuyKinds =>
            Selling' /\ s.call = Len(calls')
    BY <1>0, <1>2, <1>3, <1>5, <1>6 DEF RowSync, Selling
  <2>4. row.st = "open" /\ ~(Selling' /\ Settled') =>
            row.hold <= Avail' + (IF Selling' THEN LastCall'.landed ELSE 0)
    BY <1>5, <1>6, <2>1, <2>2 DEF RowSync
  <2>5. Selling' /\ op'.full => Buys' = {}
    BY <1>0, <1>4, <1>5, <1>6, <2>1 DEF RowSync
  <2>6. row'.st # "closed" /\ op'.pc # "idle"
    BY <1>0, <1>4, <2>2
  <2> QED BY <1>0, <1>4, <1>5, <1>6, <1>8, <2>2, <2>3, <2>4, <2>5, <2>6 DEF RowSync
<1>12. ASSUME Buying PROVE BuySync'
  BY <1>0, <1>1, <1>4, <1>5, <1>7, <1>12 DEF Synced, BuySync
<1>13. ASSUME Selling PROVE SellSync' /\ FlightSync'
  <2>1. SellSync /\ FlightSync
    BY <1>1, <1>13 DEF Synced
  <2>2. Shift = 0 /\ Shift' = 0
    BY <1>0, <1>4, <1>7 DEF Shift
  <2> DEFINE o == op
             p == op'
             b == OrNone(ata) + Shift
             m == LastCall.landed - Shift
             want == LastCall.want
  <2>3. Ahead(p, b, m, want)
    <3>1. /\ OnLeg(o) /\ OnLeg(p) /\ p.moved = o.moved /\ p.leg = o.leg /\ p.full = o.full
          /\ p.pre = o.pre /\ p.parts = o.parts /\ p.chunks = o.chunks
          /\ p.jamt = o.jamt /\ p.jpre = o.jpre /\ p.cpre = o.cpre
      BY <1>0, <1>4 DEF OnLeg
    <3>2. Ahead(o, b, m, want)
      BY <2>1 DEF SellSync
    <3> HIDE DEF o, p, b, m, want
    <3> QED BY <3>1, <3>2, AheadSame
  <2>4. SellSync' <=> Ahead(op', OrNone(ata)' + Shift', LastCall'.landed - Shift', LastCall'.want)
    BY DEF SellSync, Ahead, PartAhead, Unmoved, Rest, Positive, Routed, OnLeg
  <2>5. SellSync'
    BY <1>0, <1>5, <2>2, <2>3, <2>4 DEF OrNone
  <2>6. ASSUME ~Settled, NEW s \in net' , OfCall(s) PROVE s = t
    BY <1>0, <2>1, <2>6 DEF FlightSync
  <2>7. FlightSync'
    BY <1>2, <1>4, <1>5, <1>7, <1>8, <2>6 DEF FlightSync
  <2> QED BY <2>5, <2>7
<1> QED BY <1>5, <1>10, <1>11, <1>12, <1>13 DEF Synced

\* The transaction that is awaited is processed, rejected or dropped.
LEMMA SentSync ==
    ASSUME BrokerInv, SyncInv, NEW t \in net, t.st = "sent", UNCHANGED <<op, row, ata, calls>>,
           NEW st \in {"processed", "err", "6005", "slip", "gone"},
           \/ net' = (net \ {t}) \cup {[t EXCEPT !.st = st]}
           \/ net' = net \ {t} /\ ~Own(t)
    PROVE  SyncInv'
<1> SUFFICES ASSUME Clean' PROVE Synced'
  BY DEF SyncInv
<1>t. PICK u : u = [t EXCEPT !.st = st]
  OBVIOUS
<1>1. Clean /\ Synced /\ TypeOK /\ CallInv
  BY DEF Clean, SyncInv, BrokerInv
<1>2. ChainSync /\ RowSync
  BY <1>1 DEF Synced
<1>3. op.pc = "wait" /\ Own(t) /\ net' = (net \ {t}) \cup {u} /\ \A s \in net : Own(s) => s = t
  BY <1>t, <1>1, <1>2 DEF ChainSync, TypeOK, Own
<1>4. /\ u.id = t.id /\ u.call = t.call /\ u.kind = t.kind /\ u.amount = t.amount
      /\ u.close = t.close /\ u.st = st
  BY <1>t, <1>1 DEF TypeOK, TxType
<1>5. /\ calls # <<>> /\ Len(calls) \in DOMAIN calls /\ t.call = Len(calls)
      /\ LastCall.kind = op.call /\ op.call \in {"buy", "sell"}
  BY <1>1, <1>3, LastOne DEF CallInv, Shape
<1>6. /\ Selling' <=> Selling
      /\ Buying' <=> Buying
      /\ Settled' <=> Settled
      /\ LastCall' = LastCall
      /\ \A s : Own(s)' <=> Own(s)
      /\ \A s : (InFlight(s)' <=> InFlight(s)) /\ (OfCall(s)' <=> OfCall(s))
  BY DEF Selling, Buying, Settled, LastCall, Own, InFlight, OfCall
<1>7. ~OwnLanded /\ ~OwnLanded'
  BY <1>3, <1>4, <1>6 DEF OwnLanded
<1>8. t.kind \in BuyKinds <=> op.call = "buy"
  BY <1>2, <1>5 DEF ChainSync, LastCall
<1>9. Selling => Buys' = Buys /\ Avail' = Avail
  <2>1. Selling => Buys' = Buys
    BY <1>3, <1>4, <1>6, <1>8 DEF Buys, Selling
  <2> QED BY <2>1 DEF Avail, OrNone
<1>10. ChainSync'
  <2>1. \A s \in net' : s.kind \in BuyKinds <=> calls[s.call].kind = "buy"
    BY <1>2, <1>3, <1>4 DEF ChainSync
  <2>2. \A s \in net' : s.st = "sent" => op'.pc = "wait" /\ Own(s)'
    BY <1>2, <1>3, <1>4, <1>6 DEF ChainSync
  <2> QED BY <1>2, <2>1, <2>2 DEF ChainSync
<1>11. RowSync'
  <2>1. (Buying => row.st = "none") /\ (Selling => row.st = "open") /\ (Buying \/ Selling)
    BY <1>2, <1>3, <1>5 DEF RowSync, Buying, Selling
  <2>2. row.st # "closed" => \A s \in net' : InFlight(s) /\ s.kind \notin BuyKinds =>
            Selling' /\ s.call = Len(calls')
    BY <1>2, <1>3, <1>4, <1>5, <1>6, <1>8 DEF RowSync, Selling
  <2>3. row.st = "open" /\ ~(Selling' /\ Settled') =>
            row.hold <= Avail' + (IF Selling' THEN LastCall'.landed ELSE 0)
    BY <1>2, <1>6, <1>9, <2>1 DEF RowSync
  <2>4. Selling' /\ op'.full => Buys' = {}
    BY <1>2, <1>3, <1>6, <1>9 DEF RowSync
  <2>5. row'.st # "closed" /\ op'.pc # "idle"
    BY <1>3, <2>1
  <2> QED BY <1>2, <1>6, <2>1, <2>2, <2>3, <2>4, <2>5 DEF RowSync
<1>12. ASSUME Buying PROVE BuySync'
  BY <1>1, <1>3, <1>6, <1>7, <1>12 DEF Synced, BuySync
<1>13. ASSUME Selling PROVE SellSync' /\ FlightSync'
  <2>1. SellSync /\ FlightSync
    BY <1>1, <1>13 DEF Synced
  <2>2. Shift = 0 /\ Shift' = 0
    BY <1>3, <1>7 DEF Shift
  <2>3. SellSync' <=> Ahead(op', OrNone(ata)' + Shift', LastCall'.landed - Shift', LastCall'.want)
    BY DEF SellSync, Ahead, PartAhead, Unmoved, Rest, Positive, Routed, OnLeg
  <2>4. SellSync'
    BY <1>6, <2>1, <2>2, <2>3 DEF OrNone, SellSync
  <2>5. OfCall(t)
    BY <1>5 DEF OfCall, InFlight
  <2>6. ASSUME ~Settled, NEW s \in net', OfCall(s) PROVE s = u
    BY <1>3, <2>1, <2>5, <2>6 DEF FlightSync
  <2>7. ~Settled => t.kind = op.leg.kind /\ t.amount = op.leg.amount /\ t.close = op.leg.close
    BY <2>1, <2>5 DEF FlightSync
  <2>8. Own(u)
    BY <1>3, <1>4 DEF Own
  <2>9. FlightSync'
    BY <1>3, <1>4, <1>6, <2>6, <2>7, <2>8 DEF FlightSync
  <2> QED BY <2>4, <2>9
<1> QED BY <1>6, <1>10, <1>11, <1>12, <1>13 DEF Synced

LEMMA UnlandedSync ==
    ASSUME BrokerInv, SyncInv, NEW t \in net, Process(t) \/ Reject(t) \/ Drop(t)
    PROVE  SyncInv'
<1>0. TypeOK
  BY DEF BrokerInv
<1>1. CASE Process(t)
  <2> DEFINE st == "processed"
  <2>1. /\ t.st = "sent" /\ UNCHANGED <<op, row, ata, calls>>
        /\ net' = (net \ {t}) \cup {[t EXCEPT !.st = st]}
        /\ st \in {"processed", "err", "6005", "slip", "gone"}
    BY <1>1 DEF Process
  <2> HIDE DEF st
  <2> QED BY <2>1, SentSync
<1>2. CASE Reject(t)
  <2>1. PICK code \in RejectCodes(t) : Resolved(t, code)
    BY <1>2 DEF Reject
  <2>2. code \in {"processed", "err", "6005", "slip", "gone"}
    BY DEF RejectCodes
  <2>3. /\ t.st = "sent" /\ UNCHANGED <<op, row, ata, calls>>
        /\ \/ net' = (net \ {t}) \cup {[t EXCEPT !.st = code]}
           \/ net' = net \ {t} /\ ~Own(t)
    BY <1>2, <2>1 DEF Reject, Resolved
  <2> QED BY <2>2, <2>3, SentSync
<1>3. CASE Drop(t)
  <2>1. CASE t.st = "sent"
    <3> DEFINE st == "gone"
    <3>1. /\ UNCHANGED <<op, row, ata, calls>> /\ st \in {"processed", "err", "6005", "slip", "gone"}
          /\ \/ net' = (net \ {t}) \cup {[t EXCEPT !.st = st]}
             \/ net' = net \ {t} /\ ~Own(t)
      BY <1>3, <2>1 DEF Drop, Resolved
    <3> HIDE DEF st
    <3> QED BY <2>1, <3>1, SentSync
  <2>2. CASE t.st # "sent"
    <3> DEFINE s == {"unsure"}
               n == t.call
    <3>1. n \in DOMAIN calls /\ s \in SUBSET Notes /\ calls' = [calls EXCEPT ![n].flags = @ \cup s]
      BY <1>0, <1>3, <2>2 DEF Drop, Notes, TypeOK, TxType
    <3>2. "unsure" \in s
      OBVIOUS
    <3> HIDE DEF s, n
    <3>3. /\ DOMAIN calls' = DOMAIN calls
          /\ \A c \in DOMAIN calls : calls'[c].flags = calls[c].flags \cup (IF c = n THEN s ELSE {})
      BY <1>0, <3>1, FlagsGrow
    <3>4. "unsure" \in calls'[n].flags /\ n \in DOMAIN calls'
      BY <3>1, <3>2, <3>3
    <3> QED BY <3>4 DEF SyncInv, Clean
  <2> QED BY <2>1, <2>2
<1> QED BY <1>1, <1>2, <1>3

\* What a landing transaction of a sell takes from the account is what the ledger counts.
LEMMA ConfirmSell ==
    ASSUME TypeOK, NEW t \in net, Confirm(t), t.kind \notin BuyKinds
    PROVE  /\ ata \in Nat /\ t.amount \in Nat /\ MovedBy(t) = t.amount
           /\ t.kind \in {"sell", "jsell"} /\ (t.close => t.kind = "sell")
              => OrNone(ata') = OrNone(ata) - t.amount
<1>1. t \in TxType /\ ata \in Nat \cup {Absent} /\ Absent = -1
  BY DEF TypeOK, Absent
<1>2. t.amount \in Nat /\ t.kind \in {"sell", "drain", "dclose", "jsell", "jclose"}
  BY <1>1 DEF TxType, BuyKinds
<1>3. Executable(t) /\ ata' = AtaAfter(t) /\ MovedBy(t) = t.amount
  BY DEF Confirm, MovedBy, BuyKinds
<1>4. CASE t.kind \in {"dclose", "jclose"}
  BY <1>1, <1>2, <1>3, <1>4 DEF Executable
<1>5. CASE t.kind \in {"sell", "drain", "jsell"}
  <2>1. ata >= t.amount
    BY <1>3, <1>5 DEF Executable
  <2>2. ata \in Nat /\ ata # Absent /\ OrNone(ata) = ata
    BY <1>1, <1>2, <2>1 DEF OrNone
  <2>3. ASSUME t.close, t.kind = "sell" PROVE OrNone(ata') = ata - t.amount
    <3>1. ata = t.amount /\ ata' = Absent
      BY <1>3, <2>3 DEF Executable, AtaAfter
    <3> QED BY <1>2, <3>1 DEF OrNone
  <2>4. ASSUME ~t.close, t.kind \in {"sell", "jsell"} PROVE OrNone(ata') = ata - t.amount
    <3>1. ata' = ata - t.amount
      BY <1>3, <2>4 DEF AtaAfter
    <3>2. ata' # Absent
      BY <1>1, <1>2, <2>1, <2>2, <3>1
    <3> QED BY <3>1, <3>2 DEF OrNone
  <2> QED BY <1>2, <1>3, <2>2, <2>3, <2>4
<1> QED BY <1>2, <1>4, <1>5

\* The first legs of a sell are no drains, and only the pump program closes with the sale.
LEMMA PlainLeg ==
    ASSUME BrokerInv, Synced, Selling, ~Settled, NEW t \in net, OfCall(t)
    PROVE  /\ op.pc \in {"wait", "confirm"} /\ (op.pc = "wait" => Own(t))
           /\ t.amount = op.leg.amount /\ \A s \in net : OfCall(s) => s = t
           /\ t.kind \in {"sell", "jsell"} /\ (t.close => t.kind = "sell")
<1>1. SellSync /\ FlightSync
  BY DEF Synced
<1>2. /\ op.pc \in {"wait", "confirm"} /\ (op.pc = "wait" => Own(t))
      /\ t.kind = op.leg.kind /\ t.amount = op.leg.amount /\ t.close = op.leg.close
      /\ \A s \in net : OfCall(s) => s = t
  BY <1>1 DEF FlightSync
<1>3. OnLeg(op) /\ Shape(op, LastCall.want) /\ op.call = "sell"
  BY <1>2 DEF OnLeg, BrokerInv, CallInv, Selling
<1>4. op.leg.kind \in {"sell", "jsell"} /\ (op.leg.close => op.leg.kind = "sell")
  <2>1. CASE ~op.moved
    BY <1>1, <1>3, <2>1 DEF SellSync, Ahead, Unmoved
  <2>2. CASE ~op.full
    BY <1>3, <2>2 DEF Shape, Partial
  <2> QED BY <2>1, <2>2 DEF Settled
<1> QED BY <1>2, <1>4

\* A transaction lands.
LEMMA ConfirmSync ==
    ASSUME BrokerInv, SyncInv, NEW t \in net, Confirm(t)
    PROVE  SyncInv'
<1> SUFFICES ASSUME Clean' PROVE Synced'
  BY DEF SyncInv
<1>t. PICK u : u = [t EXCEPT !.st = "ok"]
  OBVIOUS
<1>0. /\ TypeOK /\ CallInv /\ OnceInv /\ t \in TxType /\ t.call \in DOMAIN calls
      /\ t.st = "processed" /\ UNCHANGED <<op, row>> /\ ata' = AtaAfter(t) /\ Resolved(t, "ok")
  BY DEF BrokerInv, Confirm, TypeOK, TxType
<1>1. /\ LedgerGrows
      /\ \A c \in DOMAIN calls :
           /\ calls'[c].landed = IF c = t.call THEN calls[c].landed + MovedBy(t) ELSE calls[c].landed
           /\ c = Len(calls) /\ op.call = "sell" /\ t.kind \in BuyKinds => "short" \in calls'[c].flags
           /\ calls'[c].flags \subseteq calls[c].flags \cup {"short"}
  BY <1>0, ConfirmLedger DEF BuyKinds
<1>2. /\ DOMAIN calls' = DOMAIN calls /\ Len(calls') = Len(calls)
      /\ \A c \in DOMAIN calls : calls'[c].kind = calls[c].kind /\ calls'[c].want = calls[c].want
  BY <1>1 DEF LedgerGrows
<1>3. Clean
  BY <1>1, <1>2 DEF Clean, LedgerGrows
<1>4. Synced /\ ChainSync /\ RowSync
  BY <1>3 DEF SyncInv, Synced
<1>5. calls # <<>> /\ Len(calls) \in DOMAIN calls /\ LastCall \in CallType
  BY <1>0, LastOne
<1>6. /\ LastCall'.want = LastCall.want
      /\ LastCall'.landed = LastCall.landed + (IF t.call = Len(calls) THEN MovedBy(t) ELSE 0)
      /\ LastCall.landed \in Nat
  BY <1>1, <1>2, <1>5 DEF LastCall, CallType
<1>7. /\ u.id = t.id /\ u.kind = t.kind /\ u.call = t.call /\ u.st = "ok"
      /\ net' = (net \ {t}) \cup (IF Own(t) THEN {u} ELSE {})
  BY <1>t, <1>0 DEF TxType, Resolved
<1>8. /\ Selling' <=> Selling
      /\ Buying' <=> Buying
      /\ Settled' <=> Settled
      /\ \A s : Own(s)' <=> Own(s)
      /\ \A s : (InFlight(s)' <=> InFlight(s)) /\ (OfCall(s)' <=> OfCall(s))
  BY <1>0, <1>2 DEF Selling, Buying, Settled, Own, InFlight, OfCall
<1>9. InFlight(t) /\ ~InFlight(u) /\ \A s \in net' : InFlight(s) => s \in net /\ s # t
  BY <1>0, <1>7 DEF InFlight
<1>10. Buys' = Buys \ {t}
  BY <1>7, <1>8, <1>9 DEF Buys
\* A buy lands in an account that does not exist yet, and not during a sell.
<1>11. ASSUME t.kind \in BuyKinds
       PROVE  /\ t.call = 1 /\ calls[1].landed = 0 /\ Buys = {t} /\ Buys' = {}
              /\ ata' = Fill /\ Avail = Fill /\ Avail' = Fill /\ MovedBy(t) = Fill /\ ~Selling
  <2>1. t \in Buys
    BY <1>9, <1>11 DEF Buys
  <2>2. t.call = 1 /\ calls[1].landed = 0 /\ ata = Absent /\ Buys = {t}
    BY <1>0, <1>3, <1>4, <2>1, BuyFlight
  <2>3. ata' = Fill /\ MovedBy(t) = Fill
    BY <1>0, <1>11, <2>2, BrokerAssumption DEF AtaAfter, BuyKinds, MovedBy
  <2>4. Buys' = {} /\ Fill # Absent
    BY <1>10, <2>2, BrokerAssumption DEF Absent
  <2>5. Avail = Fill /\ Avail' = Fill
    BY <2>2, <2>3, <2>4 DEF Avail, OrNone
  <2>6. ~Selling
    BY <1>1, <1>2, <1>5, <1>11 DEF Selling, Clean
  <2> QED BY <2>2, <2>3, <2>4, <2>5, <2>6
\* A transaction of a sell finds the account.
<1>12. ASSUME t.kind \notin BuyKinds
       PROVE  /\ ata \in Nat /\ ata # Absent /\ t.amount \in Nat /\ MovedBy(t) = t.amount
              /\ Buys = {} /\ Buys' = {} /\ Avail = OrNone(ata) /\ Avail' = OrNone(ata')
  <2>1. ata \in Nat /\ t.amount \in Nat /\ MovedBy(t) = t.amount
    BY <1>0, <1>12, ConfirmSell
  <2>2. ata # Absent
    BY <2>1 DEF Absent
  <2>3. Buys = {}
    BY <1>0, <1>3, <1>4, <2>2, BuyFlight
  <2>4. Buys' = {}
    BY <1>10, <2>3
  <2> QED BY <2>1, <2>2, <2>3, <2>4 DEF Avail, OrNone
\* While the row is not closed it is a leg of the running sell.
<1>13. ASSUME t.kind \notin BuyKinds, row.st # "closed"
       PROVE  Selling /\ t.call = Len(calls) /\ OfCall(t)
  BY <1>4, <1>9, <1>13 DEF RowSync, OfCall
<1>14. ChainSync'
  <2>1. ASSUME NEW c \in DOMAIN calls', calls'[c].kind = "buy"
        PROVE  c = 1 /\ "rechunked" \notin calls'[c].flags /\ (calls'[c].landed = 0 => ata' = Absent)
    <3>1. c \in DOMAIN calls /\ calls[c].kind = "buy" /\ calls[c] \in CallType
      BY <1>0, <1>2, <2>1 DEF TypeOK
    <3>2. c = 1 /\ "rechunked" \notin calls[c].flags /\ (calls[c].landed = 0 => ata = Absent)
      BY <1>4, <3>1 DEF ChainSync
    <3>3. "rechunked" \notin calls'[c].flags
      BY <1>1, <3>1, <3>2
    <3>4. calls'[c].landed # 0
      <4>1. CASE t.kind \in BuyKinds
        <5>1. calls'[c].landed = calls[c].landed + Fill
          BY <1>1, <1>11, <3>1, <3>2, <4>1
        <5> QED BY <3>1, <5>1, BrokerAssumption DEF CallType
      <4>2. CASE t.kind \notin BuyKinds
        <5>1. ata # Absent /\ t.call # c
          BY <1>4, <1>12, <3>1, <4>2 DEF ChainSync
        <5> QED BY <1>1, <3>1, <3>2, <5>1
      <4> QED BY <4>1, <4>2
    <3> QED BY <3>2, <3>3, <3>4
  <2>2. \A s \in net' : s.kind \in BuyKinds <=> calls'[s.call].kind = "buy"
    <3>1. \A s \in net : s.call \in DOMAIN calls
      BY <1>0 DEF TypeOK, TxType
    <3>2. \A s \in net : s.kind \in BuyKinds <=> calls'[s.call].kind = "buy"
      BY <1>2, <1>4, <3>1 DEF ChainSync
    <3> QED BY <1>7, <3>2
  <2>3. \A s \in net' : s.st = "sent" => op'.pc = "wait" /\ Own(s)'
    BY <1>0, <1>4, <1>7, <1>8 DEF ChainSync
  <2>4. calls' # <<>>
    BY <1>2, <1>5
  <2> QED BY <2>1, <2>2, <2>3, <2>4 DEF ChainSync
<1>15. RowSync'
  <2>1. ASSUME row.st = "open", ~(Selling /\ Settled)
        PROVE  row.hold <= Avail' + (IF Selling THEN LastCall'.landed ELSE 0)
    <3>1. row.hold <= Avail + (IF Selling THEN LastCall.landed ELSE 0)
      BY <1>4, <2>1 DEF RowSync
    <3>2. CASE t.kind \in BuyKinds
      BY <1>11, <3>1, <3>2
    <3>3. CASE t.kind \notin BuyKinds
      <4>1. Selling /\ t.call = Len(calls) /\ OfCall(t) /\ ~Settled
        BY <1>13, <2>1, <3>3
      <4>2. t.kind \in {"sell", "jsell"} /\ (t.close => t.kind = "sell")
        BY <1>4, <4>1, PlainLeg
      <4>3. OrNone(ata') = OrNone(ata) - t.amount
        BY <1>0, <3>3, <4>2, ConfirmSell
      <4>4. LastCall'.landed = LastCall.landed + t.amount
        BY <1>6, <1>12, <3>3, <4>1
      <4>5. Avail + LastCall.landed = Avail' + LastCall'.landed
        BY <1>0, <1>6, <1>12, <3>3, <4>3, <4>4, OrNoneType
      <4> QED BY <3>1, <4>1, <4>5
    <3> QED BY <3>2, <3>3
  <2>2. row.st = "closed" \/ (row.st = "none" /\ op.pc = "idle") => Buys' = {} /\ ata' <= 0
    <3> SUFFICES ASSUME row.st = "closed" \/ (row.st = "none" /\ op.pc = "idle")
                 PROVE  Buys' = {} /\ ata' <= 0
      OBVIOUS
    <3>1. Buys = {} /\ ata <= 0
      BY <1>4 DEF RowSync
    <3>2. t.kind \notin BuyKinds
      BY <1>11, <3>1
    <3>3. ata' <= ata /\ ata \in Int /\ ata' \in Int
      BY <1>0, <3>2, ConfirmAta DEF BuyKinds
    <3> QED BY <1>10, <3>1, <3>3
  <2>3. row.st # "closed" => \A s \in net' : InFlight(s) /\ s.kind \notin BuyKinds =>
            Selling /\ s.call = Len(calls)
    BY <1>4, <1>9 DEF RowSync
  <2>4. Selling /\ op.full /\ op.pc # "size" /\ (op.pc = "return" => op.res = "ok") => Buys' = {}
    BY <1>4, <1>10 DEF RowSync
  <2> QED BY <1>0, <1>2, <1>4, <1>6, <1>8, <2>1, <2>2, <2>3, <2>4 DEF RowSync
<1>16. ASSUME Buying PROVE BuySync'
  <2>1. BuySync /\ row.st = "none" /\ ~Selling
    BY <1>4, <1>16 DEF Synced, RowSync, Buying, Selling
  <2>2. t.kind \in BuyKinds
    BY <1>13, <2>1
  <2>3. Len(calls) = 1
    BY <1>0, <1>4, <1>5, <1>16 DEF CallInv, Buying, ChainSync, LastCall
  <2>4. LastCall'.landed = Fill /\ LastCall'.landed > 0
    <3>1. LastCall.landed = 0
      BY <1>11, <2>2, <2>3 DEF LastCall
    <3> QED BY <1>6, <1>11, <2>2, <2>3, <3>1, BrokerAssumption
  <2>5. op.pc = "return" => op.res = "ok" /\ 0 < op.size /\ op.size <= Avail'
    BY <1>11, <2>1, <2>2 DEF BuySync
  <2> QED BY <1>0, <1>11, <2>1, <2>2, <2>4, <2>5 DEF BuySync
<1>17. ASSUME Selling PROVE SellSync' /\ FlightSync'
  <2>1. SellSync /\ FlightSync /\ row.st = "open" /\ t.kind \notin BuyKinds
    BY <1>4, <1>11, <1>17 DEF Synced, RowSync
  <2>2. t.call = Len(calls) /\ OfCall(t)
    BY <1>13, <2>1
  <2>3. SellSync' <=> Ahead(op', OrNone(ata)' + Shift', LastCall'.landed - Shift', LastCall'.want)
    BY DEF SellSync, Ahead, PartAhead, Unmoved, Rest, Positive, Routed, OnLeg
  <2>4. CASE Settled
    <3>1. SellSync'
      BY <1>0, <2>3, <2>4, AheadMoved DEF Settled
    <3> QED BY <1>8, <2>4, <3>1 DEF FlightSync
  <2>5. CASE ~Settled
    <3>1. /\ op.pc \in {"wait", "confirm"} /\ (op.pc = "wait" => Own(t))
          /\ t.amount = op.leg.amount /\ \A s \in net : OfCall(s) => s = t
          /\ t.kind \in {"sell", "jsell"} /\ (t.close => t.kind = "sell")
      BY <1>4, <1>17, <2>2, <2>5, PlainLeg
    <3>2. \A s \in net' : ~OfCall(s)
      BY <1>7, <1>9, <3>1 DEF OfCall
    <3>3. Shift = 0
      <4>1. op.pc = "wait" => ~OwnLanded
        BY <1>0, <3>1 DEF OwnLanded, Own, TypeOK
      <4> QED BY <2>2, <3>1, <4>1 DEF Shift
    <3>4. Shift' = t.amount
      <4>1. CASE op.pc = "wait"
        <5>1. u \in net' /\ Own(u)'
          BY <1>7, <1>8, <3>1, <4>1 DEF Own
        <5>2. OwnLanded'
          BY <1>7, <5>1 DEF OwnLanded
        <5> QED BY <1>0, <3>1, <4>1, <5>2 DEF Shift
      <4>2. CASE op.pc = "confirm"
        BY <1>0, <1>8, <3>1, <3>2, <4>2 DEF Shift
      <4> QED BY <3>1, <4>1, <4>2
    <3>5. OrNone(ata)' = OrNone(ata) - t.amount
      <4>1. OrNone(ata') = OrNone(ata) - t.amount
        BY <1>0, <2>1, <3>1, ConfirmSell
      <4> QED BY <4>1 DEF OrNone
    <3>6. LastCall'.landed = LastCall.landed + t.amount
      BY <1>6, <1>12, <2>1, <2>2
    <3>7. /\ OrNone(ata)' + Shift' = OrNone(ata) + Shift
          /\ LastCall'.landed - Shift' = LastCall.landed - Shift
      BY <1>0, <1>6, <1>12, <2>1, <3>3, <3>4, <3>5, <3>6, OrNoneType
    <3>8. SellSync'
      BY <1>0, <1>6, <2>1, <2>3, <3>7 DEF SellSync
    <3>9. FlightSync'
      BY <1>8, <3>2 DEF FlightSync
    <3> QED BY <3>8, <3>9
  <2> QED BY <2>4, <2>5
<1> QED BY <1>8, <1>14, <1>15, <1>16, <1>17 DEF Synced

\* A call begins: nothing of it is on the chain.
LEMMA CallSync ==
    ASSUME BrokerInv, SyncInv, Call
    PROVE  SyncInv'
<1> SUFFICES ASSUME Clean' PROVE Synced'
  BY DEF SyncInv
<1> DEFINE n == Len(calls)
<1>0. /\ TypeOK /\ op.pc = "idle" /\ UNCHANGED <<ata, net, row>>
      /\ calls \in Seq(CallType) /\ n \in Nat /\ DOMAIN calls = 1..n
      /\ \A t \in net : t.call \in 1..n
  <2>1. /\ TypeOK /\ op.pc = "idle" /\ UNCHANGED <<ata, net, row>>
    BY DEF BrokerInv, Call, CallBuy, CallSell
  <2>2. calls \in Seq(CallType) /\ net \subseteq TxType
    BY <2>1 DEF TypeOK
  <2>3. n \in Nat /\ DOMAIN calls = 1..n
    BY <2>2
  <2> QED BY <2>1, <2>2, <2>3 DEF TxType
<1>1. ~Selling /\ ~Buying
  BY <1>0 DEF Selling, Buying
<1>2. ASSUME NEW e \in CallType, calls' = Append(calls, e)
      PROVE  /\ Clean /\ Synced
             /\ DOMAIN calls' = 1..(n + 1) /\ Len(calls') = n + 1 /\ LastCall' = e /\ calls'[n + 1] = e
             /\ \A c \in 1..n : calls'[c] = calls[c]
             /\ calls' # <<>> /\ \A t \in net : ~OfCall(t)'
  <2>1. /\ DOMAIN calls' = 1..(n + 1) /\ Len(calls') = n + 1 /\ calls'[n + 1] = e
        /\ \A c \in 1..n : calls'[c] = calls[c]
        /\ calls' # <<>>
    BY <1>0, <1>2
  <2> HIDE DEF n
  <2>2. LastCall' = e
    BY <2>1 DEF LastCall
  <2>3. \A c \in 1..n : c \in DOMAIN calls' /\ c # n + 1
    BY <1>0, <2>1
  <2>4. Clean
    BY <1>0, <2>1, <2>3 DEF Clean
  <2>5. \A t \in net : ~OfCall(t)'
    BY <1>0, <2>1, <2>3 DEF OfCall
  <2> QED BY <2>1, <2>2, <2>4, <2>5 DEF SyncInv
<1> HIDE DEF n
<1>3. Buys' = Buys /\ Avail' = Avail /\ \A t : InFlight(t)' <=> InFlight(t)
  BY <1>0 DEF Buys, Avail, OrNone, InFlight
<1>4. ASSUME CallBuy PROVE Synced'
  <2>t. PICK e : e = [kind |-> "buy", full |-> FALSE, want |-> Fill, landed |-> 0,
                      flags |-> {}, res |-> "none"]
    OBVIOUS
  <2>1. /\ calls' = Append(calls, e) /\ op' = [IdleOp EXCEPT !.pc = "prepare", !.call = "buy"]
        /\ row.st = "none" /\ calls = <<>>
    BY <1>4, <2>t DEF CallBuy, NewCall
  <2>2. e \in CallType /\ e.kind = "buy" /\ e.landed = 0 /\ e.flags = {}
    BY <2>t, BrokerAssumption DEF CallType
  <2>3. /\ Synced /\ DOMAIN calls' = 1..(n + 1) /\ LastCall' = e /\ calls'[n + 1] = e /\ calls' # <<>>
    BY <1>2, <2>1, <2>2
  <2>4. n = 0 /\ net = {}
    <3>1. n = 0
      BY <2>1 DEF n
    <3>2. 1..0 = {}
      OBVIOUS
    <3> QED BY <1>0, <3>1, <3>2
  <2>5. ata = Absent
    BY <2>1, <2>3 DEF Synced, ChainSync
  <2>6. op'.pc = "prepare" /\ op'.call = "buy" /\ op'.parts = 0
    BY <2>1 DEF IdleOp
  <2>7. 1..(0 + 1) = {1}
    OBVIOUS
  <2>8. ChainSync'
    BY <1>0, <2>2, <2>3, <2>4, <2>5, <2>7 DEF ChainSync
  <2>9. RowSync'
    BY <1>0, <2>1, <2>4, <2>6 DEF RowSync, Selling, Buying
  <2>10. BuySync'
    BY <2>2, <2>3, <2>6 DEF BuySync
  <2> QED BY <2>6, <2>8, <2>9, <2>10 DEF Synced, Selling
<1>5. ASSUME NEW full \in BOOLEAN, CallSell(full) PROVE Synced'
  <2>t. PICK want : want = IF full THEN row.hold ELSE row.hold \div 2
    OBVIOUS
  <2>e. PICK e : e = [kind |-> "sell", full |-> full, want |-> want, landed |-> 0,
                      flags |-> {}, res |-> "none"]
    OBVIOUS
  <2>1. /\ calls' = Append(calls, e) /\ row.st = "open"
        /\ op' = [IdleOp EXCEPT !.pc = "size", !.call = "sell", !.full = full, !.size = want]
    BY <1>5, <2>t, <2>e DEF CallSell, NewCall
  <2>2. want \in Nat /\ row.hold \in Nat /\ (~full /\ row.hold > 0 => want < row.hold)
    <3>1. row.hold \in Nat
      BY <1>0 DEF TypeOK
    <3> QED BY <2>t, <3>1
  <2>3. e \in CallType /\ e.kind = "sell" /\ e.landed = 0 /\ e.want = want
    BY <2>e, <2>2 DEF CallType
  <2>4. /\ Synced /\ DOMAIN calls' = 1..(n + 1) /\ Len(calls') = n + 1 /\ LastCall' = e
        /\ calls'[n + 1] = e /\ \A c \in 1..n : calls'[c] = calls[c]
        /\ calls' # <<>> /\ \A t \in net : ~OfCall(t)'
    BY <1>2, <2>1, <2>3
  <2>5. /\ op'.pc = "size" /\ op'.call = "sell" /\ op'.full = full /\ op'.moved = FALSE
    BY <2>1 DEF IdleOp
  <2>6. ChainSync /\ RowSync
    BY <2>4 DEF Synced
  <2>7. ChainSync'
    <3>1. \A c \in DOMAIN calls' : c = n + 1 \/ c \in 1..n
      BY <1>0, <2>4
    <3>2. ASSUME NEW c \in DOMAIN calls', calls'[c].kind = "buy"
          PROVE  c = 1 /\ "rechunked" \notin calls'[c].flags /\ (calls'[c].landed = 0 => ata' = Absent)
      <4>1. c \in 1..n
        BY <2>3, <2>4, <3>1, <3>2
      <4> QED BY <1>0, <2>4, <2>6, <3>2, <4>1 DEF ChainSync
    <3>3. \A t \in net' : t.kind \in BuyKinds <=> calls'[t.call].kind = "buy"
      BY <1>0, <2>4, <2>6 DEF ChainSync
    <3>4. \A t \in net' : t.st # "sent"
      BY <1>0, <2>6 DEF ChainSync
    <3> QED BY <2>4, <3>2, <3>3, <3>4 DEF ChainSync
  <2>8. RowSync'
    <3>1. row.hold > 0 /\ row.hold <= Avail + 0
      BY <1>1, <2>1, <2>6 DEF RowSync
    <3>2. \A t \in net : InFlight(t) => t.kind \in BuyKinds
      BY <1>1, <2>1, <2>6 DEF RowSync
    <3> QED BY <1>0, <1>3, <2>1, <2>2, <2>3, <2>4, <2>5, <3>1, <3>2 DEF RowSync, Selling, Buying
  <2>9. SellSync'
    <3>1. SellSync' <=> Ahead(op', OrNone(ata)' + Shift', LastCall'.landed - Shift', LastCall'.want)
      BY DEF SellSync, Ahead, PartAhead, Unmoved, Rest, Positive, Routed, OnLeg
    <3>2. Shift' = 0
      BY <2>5 DEF Shift
    <3>3. LastCall'.landed - Shift' = 0
      BY <2>3, <2>4, <3>2
    <3>4. ~Routed(op') /\ ~OnLeg(op')
      BY <2>5 DEF Routed, OnLeg
    <3>5. Ahead(op', OrNone(ata)' + Shift', 0, LastCall'.want)
      BY <2>5, <3>4 DEF Ahead, Unmoved, PartAhead
    <3> QED BY <3>1, <3>3, <3>5
  <2>10. FlightSync'
    BY <1>0, <2>4 DEF FlightSync
  <2> QED BY <2>5, <2>7, <2>8, <2>9, <2>10 DEF Synced, Buying
<1> QED BY <1>4, <1>5 DEF Call

\* A call returns, and the manager believes it.
LEMMA ReturnSync ==
    ASSUME BrokerInv, SyncInv, ReturnCall
    PROVE  SyncInv'
<1> SUFFICES ASSUME Clean' PROVE Synced'
  BY DEF SyncInv
<1> DEFINE x == IF op.res # "ok" /\ op.moved THEN {"unsure"} ELSE {}
<1>0. /\ TypeOK /\ CallInv /\ OnceInv /\ ExitInv /\ op.pc = "return" /\ row' = RowAfter /\ op' = IdleOp
      /\ UNCHANGED <<ata, net>>
  BY DEF BrokerInv, ReturnCall
<1>1. /\ Len(calls') = Len(calls) /\ DOMAIN calls' = DOMAIN calls
      /\ \A c \in DOMAIN calls :
           /\ calls'[c].kind = calls[c].kind /\ calls'[c].landed = calls[c].landed
           /\ calls'[c].flags = calls[c].flags \cup (IF c = Len(calls) THEN x ELSE {})
  BY <1>0, ReturnLedger
<1>2. /\ calls # <<>> /\ Len(calls) \in DOMAIN calls /\ LastCall \in CallType
      /\ LastCall.kind = op.call /\ LastCall.full = op.full
      /\ LastCall.landed \in Nat /\ LastCall.want \in Nat
      /\ op.call \in {"buy", "sell"}
  BY <1>0, LastOne DEF CallInv, CallType
<1>3. Clean /\ (op.res # "ok" => ~op.moved) /\ "short" \notin LastCall.flags /\ "rechunked" \notin x
  <2>1. \A c \in DOMAIN calls : calls[c].flags \subseteq calls'[c].flags
    BY <1>1
  <2>2. Clean
    BY <1>1, <2>1 DEF Clean
  <2>3. x \subseteq {"rechunked"}
    BY <1>1, <1>2 DEF Clean
  <2>4. "short" \notin LastCall.flags
    BY <1>2, <2>2 DEF Clean, LastCall
  <2> QED BY <2>2, <2>3, <2>4
<1>4. Synced /\ ChainSync /\ RowSync
  BY <1>3 DEF SyncInv, Synced
<1>5. /\ Buys' = Buys /\ Avail' = Avail /\ Avail \in Nat /\ \A t : InFlight(t)' <=> InFlight(t)
  BY <1>0, OrNoneType, BrokerAssumption DEF Buys, Avail, OrNone, InFlight
<1>6. op'.pc = "idle" /\ ~Selling' /\ ~Buying'
  BY <1>0 DEF IdleOp, Selling, Buying
<1>7. ChainSync'
  <2>1. ASSUME NEW c \in DOMAIN calls', calls'[c].kind = "buy"
        PROVE  c = 1 /\ "rechunked" \notin calls'[c].flags /\ (calls'[c].landed = 0 => ata' = Absent)
    BY <1>0, <1>1, <1>3, <1>4, <2>1 DEF ChainSync
  <2>2. \A t \in net' : t.kind \in BuyKinds <=> calls'[t.call].kind = "buy"
    <3>1. \A t \in net : t.call \in DOMAIN calls
      BY <1>0 DEF TypeOK, TxType
    <3> QED BY <1>0, <1>1, <1>4, <3>1 DEF ChainSync
  <2>3. \A t \in net' : t.st # "sent"
    BY <1>0, <1>4 DEF ChainSync
  <2>4. calls' # <<>>
    BY <1>1, <1>2
  <2> QED BY <2>1, <2>2, <2>3, <2>4 DEF ChainSync
<1>8. ASSUME row'.st = "open" => row'.hold > 0 /\ row'.hold <= Avail,
             row'.st \in {"closed", "none"} => Buys = {} /\ ata <= 0,
             row'.st # "closed" => \A t \in net : InFlight(t) => t.kind \in BuyKinds
      PROVE  Synced'
  <2>1. RowSync'
    BY <1>0, <1>5, <1>6, <1>8 DEF RowSync
  <2> QED BY <1>6, <1>7, <2>1 DEF Synced
<1>9. CASE op.call = "buy"
  <2>1. Buying /\ BuySync /\ row.st = "none"
    BY <1>0, <1>4, <1>9 DEF Buying, Synced, RowSync
  <2>2. \A t \in net : InFlight(t) => t.kind \in BuyKinds
    BY <1>4, <1>9, <2>1 DEF RowSync, Selling
  <2>3. CASE op.res = "ok"
    <3>1. row' = [st |-> "open", hold |-> op.size]
      BY <1>0, <1>9, <2>3 DEF RowAfter
    <3>2. op.size > 0 /\ op.size <= Avail
      <4>1. op.size \in Nat
        BY <1>0 DEF TypeOK, OpType
      <4> QED BY <1>0, <2>1, <2>3, <4>1 DEF BuySync
    <3> QED BY <1>8, <2>2, <3>1, <3>2
  <2>4. CASE op.res # "ok"
    <3>1. row' = row
      BY <1>0, <2>4 DEF RowAfter
    <3>2. LastCall.landed = 0 /\ Buys = {}
      BY <1>0, <2>1, <2>4 DEF BuySync
    <3>3. ata = Absent
      BY <1>2, <1>4, <1>9, <3>2 DEF ChainSync, LastCall
    <3>4. ata <= 0
      BY <3>3 DEF Absent
    <3> QED BY <1>8, <2>1, <2>2, <3>1, <3>2, <3>4
  <2> QED BY <2>3, <2>4
<1>10. CASE op.call = "sell"
  <2>1. Selling /\ SellSync /\ FlightSync /\ row.st = "open" /\ row.hold > 0 /\ row.hold \in Nat
    BY <1>0, <1>4, <1>10 DEF Selling, Synced, RowSync, TypeOK
  <2>2. Ahead(op, OrNone(ata) + 0, LastCall.landed - 0, LastCall.want)
    <3>1. Shift = 0
      BY <1>0 DEF Shift
    <3> QED BY <2>1, <3>1 DEF SellSync
  <2>3. ~Settled => \A t \in net : InFlight(t) => t.kind \in BuyKinds
    <3> SUFFICES ASSUME ~Settled, NEW t \in net, InFlight(t), t.kind \notin BuyKinds PROVE FALSE
      OBVIOUS
    <3>1. OfCall(t)
      BY <1>4, <2>1 DEF RowSync, OfCall
    <3> QED BY <1>0, <2>1, <3>1 DEF FlightSync
  <2>4. ~Settled => row.hold <= Avail + LastCall.landed
    BY <1>4, <2>1 DEF RowSync
  <2>5. CASE op.res # "ok"
    <3>1. row' = row /\ ~op.moved
      BY <1>0, <1>3, <2>5 DEF RowAfter
    <3>2. ~Settled /\ LastCall.landed = 0
      BY <1>2, <2>2, <3>1 DEF Settled, Ahead, Unmoved
    <3>3. row.hold <= Avail
      BY <1>5, <2>1, <2>4, <3>2
    <3> QED BY <1>8, <2>1, <2>3, <3>1, <3>2, <3>3
  <2>6. CASE op.res = "ok" /\ op.full
    <3>1. row' = [st |-> "closed", hold |-> 0]
      BY <1>0, <1>10, <2>6 DEF RowAfter
    <3>2. ata <= 0
      BY <1>0, <1>3, <1>10, <2>6 DEF ExitInv, ExitShape
    <3>3. Buys = {}
      BY <1>0, <1>4, <2>1, <2>6 DEF RowSync
    <3> QED BY <1>8, <3>1, <3>2, <3>3
  <2>7. CASE op.res = "ok" /\ ~op.full
    <3> DEFINE h == row.hold - LastCall.want
    <3>1. row' = [row EXCEPT !.hold = h]
      BY <1>0, <1>10, <2>7 DEF RowAfter, LastCall
    <3>2. LastCall.want < row.hold /\ ~Settled
      BY <1>4, <2>1, <2>7 DEF RowSync, Settled
    <3>3. LastCall.landed <= LastCall.want
      BY <1>0, <1>2, <2>2, <2>7 DEF Ahead, PartAhead
    <3>4. h > 0 /\ h <= Avail
      BY <1>2, <1>5, <2>1, <2>4, <3>2, <3>3
    <3>5. row'.st = "open" /\ row'.hold = h
      BY <1>0, <2>1, <3>1 DEF TypeOK
    <3> HIDE DEF h
    <3> QED BY <1>8, <2>3, <3>2, <3>4, <3>5
  <2> QED BY <2>5, <2>6, <2>7
<1> QED BY <1>2, <1>9, <1>10

\* Nothing the invariant looks at changes.
LEMMA SyncFrame ==
    ASSUME SyncInv, UNCHANGED <<ata, net, op, row, calls>>
    PROVE  SyncInv'
<1>1. (Clean' <=> Clean) /\ (Selling' <=> Selling) /\ (Buying' <=> Buying) /\ LastCall' = LastCall
  BY DEF Clean, Selling, Buying, LastCall
<1>2. Buys' = Buys /\ Avail' = Avail /\ OrNone(ata)' = OrNone(ata) /\ (Settled' <=> Settled)
  BY DEF Buys, Avail, OrNone, InFlight, Settled
<1>3. /\ OwnLanded' <=> OwnLanded
      /\ Shift' = Shift
  BY DEF OwnLanded, Shift, Own, OfCall, InFlight
<1>4. ChainSync => ChainSync'
  BY DEF ChainSync, Own
<1>5. RowSync => RowSync'
  BY <1>1, <1>2 DEF RowSync, InFlight
<1>6. BuySync => BuySync'
  BY <1>1, <1>2, <1>3 DEF BuySync
<1>7. SellSync => SellSync'
  <2>1. SellSync' <=> Ahead(op', OrNone(ata)' + Shift', LastCall'.landed - Shift', LastCall'.want)
    BY DEF SellSync, Ahead, PartAhead, Unmoved, Rest, Positive, Routed, OnLeg
  <2> QED BY <1>1, <1>2, <1>3, <2>1 DEF SellSync
<1>8. FlightSync => FlightSync'
  BY <1>2 DEF FlightSync, OfCall, InFlight, Own
<1> QED BY <1>1, <1>4, <1>5, <1>6, <1>7, <1>8 DEF SyncInv, Synced

LEMMA InitSync == Init => SyncInv
<1> SUFFICES ASSUME Init PROVE Synced
  BY DEF SyncInv
<1>1. /\ op.pc = "idle" /\ net = {} /\ ata = Absent /\ row.st = "none" /\ calls = <<>>
  BY DEF Init, IdleOp
<1>2. ~Selling /\ ~Buying /\ Buys = {} /\ ata <= 0 /\ DOMAIN calls = {}
  BY <1>1 DEF Selling, Buying, Buys, Absent
<1>3. ChainSync
  BY <1>1, <1>2 DEF ChainSync
<1>4. RowSync
  BY <1>1, <1>2 DEF RowSync
<1> QED BY <1>2, <1>3, <1>4 DEF Synced

LEMMA StepSync == BrokerInv /\ SyncInv /\ [Next]_vars => SyncInv'
<1> SUFFICES ASSUME BrokerInv, SyncInv, [Next]_vars PROVE SyncInv'
  OBVIOUS
<1>1. CASE UNCHANGED vars
  BY <1>1, SyncFrame DEF vars
<1>2. CASE Call
  BY <1>2, CallSync
<1>3. CASE Running
  <2>1. CASE Leg
    <3>1. CASE BlockhashFails \/ (\E t \in net : WaitOk(t) \/ WaitFails(t) \/ WaitGivesUp(t))
      BY <3>1, LegSync
    <3>2. CASE SendAccepted
      BY <3>2, AcceptSync
    <3>3. CASE SendErrors
      BY <3>3, ErrorsSync
    <3> QED BY <2>1, <3>1, <3>2, <3>3 DEF Leg
  <2>2. CASE PollSeesSell \/ PollTimesOut
    BY <2>2, PollSync
  <2>3. CASE ReturnCall
    BY <2>3, ReturnSync
  <2>4. CASE \/ QuoteFound \/ QuoteFails \/ CloseAfterJupiter
             \/ BuyRefused \/ BuyRouted \/ BuyQuoted \/ NoBuyRoute \/ FillMeasured \/ FillFloored
             \/ SellRefused \/ SizeSell \/ RouteSell
             \/ DrainLeg \/ DrainStops \/ DrainRemainder
    BY <2>4, BetweenSync
  <2>5. CASE FillQuoted
    <3> DEFINE n == {"quoted"}
    <3>1. n \in SUBSET Notes /\ ~(n \subseteq {"rechunked"}) /\ Noted(n) /\ op.pc # "idle"
      BY <2>5 DEF FillQuoted, Notes
    <3> HIDE DEF n
    <3>2. TypeOK /\ calls # <<>>
      BY <3>1 DEF BrokerInv, CallInv
    <3> QED BY <3>1, <3>2, NotClean DEF SyncInv
  <2> QED BY <1>3, <2>1, <2>2, <2>3, <2>4, <2>5 DEF Running
<1>4. CASE Network
  <2>1. CASE Graduate
    BY <2>1, SyncFrame DEF Graduate
  <2>2. ASSUME NEW t \in net, Process(t) \/ Reject(t) \/ Drop(t) PROVE SyncInv'
    BY <2>2, UnlandedSync
  <2>3. ASSUME NEW t \in net, Confirm(t) PROVE SyncInv'
    BY <2>3, ConfirmSync
  <2> QED BY <1>4, <2>1, <2>2, <2>3 DEF Network
<1>5. CASE Finished
  BY <1>1, <1>5 DEF Finished
<1> QED BY <1>1, <1>2, <1>3, <1>4, <1>5 DEF Next

LEMMA SyncInvariance == Spec => [](BrokerInv /\ SyncInv)
<1> QED BY InitInv, StepInv, InitSync, StepSync, PTL DEF Spec

\* Once everything has settled the manager's row is true: with no ambiguous answer (a send
\* that lied, a wait or a poll that gave up on a live transaction, a dropped fork), no call
\* cut short and no fill taken from a Jupiter quote, an open row is backed by at least its
\* holdings in the token account, and without a row the wallet holds nothing.  This covers
\* retries, the reroute to Jupiter after a 6005, the second chunk list, the drain, misread
\* balances and a fill estimated on the curve.
THEOREM ManagerInSync == Spec => []InSync
<1>1. BrokerInv /\ SyncInv => InSync
  <2> SUFFICES ASSUME BrokerInv, SyncInv, Idle, net = {}, Flags \subseteq {"rechunked"}
               PROVE  IF row.st = "open" THEN row.hold <= ata ELSE ata <= 0
    BY DEF InSync
  <2>1. Clean
    BY DEF Clean, Flags
  <2>2. RowSync /\ ~Selling /\ op.pc = "idle" /\ Buys = {}
    BY <2>1 DEF SyncInv, Synced, Selling, Idle, Buys
  <2>3. row.st \in {"none", "open", "closed"} /\ row.hold \in Nat /\ TypeOK
    BY DEF BrokerInv, TypeOK
  <2>4. CASE row.st = "open"
    <3>1. row.hold > 0 /\ row.hold <= OrNone(ata) + 0
      BY <2>2, <2>4 DEF RowSync, Avail
    <3>2. ata # Absent
      BY <2>3, <3>1 DEF OrNone
    <3> QED BY <2>3, <2>4, <3>1, <3>2, OrNoneType
  <2>5. CASE row.st # "open"
    BY <2>2, <2>3, <2>5 DEF RowSync
  <2> QED BY <2>4, <2>5
<1> QED BY <1>1, SyncInvariance, PTL
=============================================================================
