-------------------------------- MODULE Broker --------------------------------
(***************************************************************************)
(* The live broker (src/src/autobuy/pump_brocker.rs, jupiter_sell.rs) for  *)
(* one mint and one wallet: buy and sell calls made of transactions that   *)
(* are sent with retries, awaited and then confirmed by reading the        *)
(* wallet's token account (ATA).  RPC answers are unreliable: a send that  *)
(* reports an error may have reached the cluster, a status poll may fail   *)
(* while its transaction is on its way, and a transaction seen `processed` *)
(* may be dropped with its fork.                                           *)
(*                                                                         *)
(* Amounts are small numbers of tokens; the slack of sell_raw_delta_slack  *)
(* and the dust limit of the drain are far below one of them.  The cached  *)
(* SOL balance, prices and receipts in SOL are left out: the balance test  *)
(* of buy is a call that may fail.  MaxTries, ChunkParts, SlipSteps and    *)
(* MaxLegs stand for the code's 6 sends, 4 chunks, 3 slippage steps and 50 *)
(* drain legs; MaxCalls and MaxLive bound the manager and the network.     *)
(* Answers that are wrong or missing while the truth is otherwise are      *)
(* faults, MaxFaults of them in a behaviour; timeouts while there is       *)
(* nothing to see are not.                                                 *)
(***************************************************************************)
EXTENDS Integers, Sequences, FiniteSets

CONSTANTS Fill,        \* tokens a buy transaction receives
          Floor,       \* min_token_out, the receipt's fallback on the curve
          Quotes,      \* out amounts of a Jupiter quote, its receipt's fallback
          MaxTries,    \* max_retries of a send loop
          ChunkParts,  \* chunks of the second Jupiter attempt
          MinChunk,    \* smallest chunk worth sending
          SlipSteps,   \* slippage steps before the allow-pump attempt
          MaxLegs,     \* MAX_DRAIN_LEGS
          MaxCalls,    \* broker calls of a behaviour
          MaxLive,     \* transactions in the network at a time
          MaxFaults    \* faults of the RPC, the market and the chain

ASSUME BrokerAssumption ==
    /\ Fill \in Nat \ {0} /\ Floor \in 1..Fill
    /\ Quotes \subseteq Nat /\ Quotes # {}
    /\ MaxTries \in Nat \ {0} /\ ChunkParts \in Nat \ {0} /\ MinChunk \in Nat \ {0}
    /\ SlipSteps \in Nat /\ MaxLegs \in Nat /\ MaxCalls \in Nat /\ MaxLive \in Nat
    /\ MaxFaults \in Nat

VARIABLES
    curve,   \* "open" or "complete" (graduated)
    ata,     \* tokens in the ATA at confirmed commitment, Absent when it does not exist
    net,     \* transactions of the wallet that are not resolved yet, or just awaited
    op,      \* the broker call that is running
    row,     \* the manager's position: what it thinks it holds
    calls,   \* every call so far: what it asked for, what it moved, what went wrong
    faults   \* faults left

vars == <<curve, ata, net, op, row, calls, faults>>

Absent == -1
NoLeg == [kind |-> "none", amount |-> 0, close |-> FALSE]
IdleOp == [pc |-> "idle", call |-> "none", full |-> FALSE, size |-> 0, clamped |-> FALSE,
           pre |-> 0, leg |-> NoLeg, tries |-> 0, tx |-> 0, parts |-> 0, chunks |-> <<>>,
           jamt |-> 0, jpre |-> 0, cpre |-> 0, jclose |-> FALSE, slip |-> 0,
           rebuilt |-> FALSE, draining |-> FALSE, legs |-> 0, moved |-> FALSE, res |-> "none"]

\* SolanaBroker::new and a mint that is not held.
Init ==
    /\ curve = "open"
    /\ ata = Absent
    /\ net = {}
    /\ op = IdleOp
    /\ row = [st |-> "none", hold |-> 0]
    /\ calls = <<>>
    /\ faults = MaxFaults

\* A step that is a fault if b holds.
Costs(b) == faults' = IF b THEN faults - 1 ELSE faults
Affordable(b) == b => faults > 0

\* What the ledger of the running call remembers: a fault or a way out it took.
Noted(s) == calls' = [calls EXCEPT ![Len(calls)].flags = @ \cup s]

\* fetch_token_account_raw: the balance at confirmed, or an error; always an error
\* when the account does not exist.
ReadFailed == -2
AtaRead == ({ata} \ {Absent}) \cup (IF ata = Absent \/ faults > 0 THEN {ReadFailed} ELSE {})
Misread(r) == r = ReadFailed /\ ata # Absent
OrZero(r) == IF r = ReadFailed THEN 0 ELSE r

-----------------------------------------------------------------------------
(***************************************************************************)
(* The network and the chain (external).                                   *)
(***************************************************************************)
Own(t) == t.id = op.tx
Landed(t) == t.st \in {"processed", "ok"}

\* Whether the program accepts the transaction in the present state of the chain.
Executable(t) ==
    CASE t.kind = "buy" -> curve = "open"
      [] t.kind = "jbuy" -> TRUE
      [] t.kind \in {"sell", "drain"} ->
            /\ ata >= t.amount
            /\ t.amount > 0 => curve = "open"
            /\ t.close => ata = t.amount
      [] t.kind = "jsell" -> ata >= t.amount
      [] OTHER -> ata = 0

AtaAfter(t) ==
    IF t.kind \in {"buy", "jbuy"} THEN (IF ata = Absent THEN 0 ELSE ata) + Fill
    ELSE IF t.kind \in {"jclose", "dclose"} \/ t.close THEN Absent
    ELSE ata - t.amount

MovedBy(t) == IF t.kind \in {"buy", "jbuy"} THEN Fill ELSE t.amount

\* A resolved transaction is kept only while the broker is waiting for it.
Resolved(t, st) == net' = (net \ {t}) \cup (IF Own(t) THEN {[t EXCEPT !.st = st]} ELSE {})

Process(t) ==
    /\ t.st = "sent" /\ Executable(t)
    /\ net' = (net \ {t}) \cup {[t EXCEPT !.st = "processed"]}
    /\ UNCHANGED <<curve, ata, op, row, calls, faults>>

Confirm(t) ==
    /\ t.st = "processed" /\ Executable(t)
    /\ ata' = AtaAfter(t)
    /\ Resolved(t, "ok")
    /\ calls' = [c \in DOMAIN calls |->
            [calls[c] EXCEPT
                !.landed = IF c = t.call THEN @ + MovedBy(t) ELSE @,
                !.flags = IF /\ c = Len(calls) /\ op.call = "sell"
                             /\ t.kind \in {"buy", "jbuy"}
                          THEN @ \cup {"short"} ELSE @]]
    /\ UNCHANGED <<curve, op, row, faults>>

\* Execution fails: 6005 when the curve is complete, slippage on a Jupiter route, or
\* any other error.
RejectCodes(t) ==
    {"err"} \cup (IF curve = "complete" /\ t.kind \notin {"jclose", "dclose"} THEN {"6005"} ELSE {})
            \cup (IF t.kind = "jsell" THEN {"slip"} ELSE {})

Reject(t) ==
    /\ t.st = "sent"
    /\ Affordable(Executable(t))
    /\ \E code \in RejectCodes(t) : Resolved(t, code)
    /\ Costs(Executable(t))
    /\ UNCHANGED <<curve, ata, op, row, calls>>

\* The blockhash expires, or the fork that processed the transaction is abandoned.
Drop(t) ==
    /\ t.st \in {"sent", "processed"}
    /\ Affordable(t.st = "processed" /\ Executable(t))
    /\ Resolved(t, "gone")
    /\ calls' = IF t.st = "sent" THEN calls
                ELSE [calls EXCEPT ![t.call].flags = @ \cup {"unsure"}]
    /\ Costs(t.st = "processed" /\ Executable(t))
    /\ UNCHANGED <<curve, ata, op, row>>

Graduate ==
    /\ curve = "open"
    /\ curve' = "complete"
    /\ UNCHANGED <<ata, net, op, row, calls, faults>>

Network == Graduate \/ \E t \in net : Process(t) \/ Confirm(t) \/ Reject(t) \/ Drop(t)

-----------------------------------------------------------------------------
(***************************************************************************)
(* How a leg's end continues the call.                                     *)
(***************************************************************************)
Done(o, res) == [IdleOp EXCEPT !.pc = "return", !.call = o.call, !.full = o.full,
                               !.size = o.size, !.moved = o.moved, !.res = res]

SendLeg(o, kind, amount, close) ==
    [o EXCEPT !.pc = "send", !.tries = 0, !.tx = 0,
              !.leg = [kind |-> kind, amount |-> amount, close |-> close]]

\* jupiter_chunk_amounts: equal chunks, the last takes the remainder; small totals
\* are not split.
ChunkAmounts(total, parts) ==
    IF parts <= 1 \/ total < parts * MinChunk THEN <<total>>
    ELSE [i \in 1..parts |-> IF i < parts THEN total \div parts
                             ELSE total - (total \div parts) * (parts - 1)]

\* A chunk list is worked off from the first chunk, each with fresh slippage steps.
Quoting(o) == [o EXCEPT !.pc = "quote", !.slip = 0, !.rebuilt = FALSE, !.tx = 0, !.tries = 0,
                        !.leg = NoLeg]

\* sell_tokens_post_graduation: one chunk first.
StartJupiter(o, pre, amount, close) ==
    Quoting([o EXCEPT !.parts = 1, !.chunks = ChunkAmounts(amount, 1), !.jamt = amount,
                      !.jpre = pre, !.cpre = pre, !.jclose = close])

\* A failed chunk: everything is tried again in ChunkParts chunks, from the balance and
\* the amount the call began with; then JupiterSellExhausted.
ChunkFailed(o) ==
    IF o.parts = 1
    THEN Quoting([o EXCEPT !.parts = 2, !.chunks = ChunkAmounts(o.jamt, ChunkParts), !.cpre = o.jpre])
    ELSE Done(o, "exhausted")

\* The next chunk, or the end of the Jupiter sale.
ChunkDone(o) ==
    LET p == [o EXCEPT !.chunks = Tail(@), !.cpre = IF @ > Head(o.chunks) THEN @ - Head(o.chunks) ELSE 0]
    IN  IF p.chunks # <<>> THEN Quoting(p)
        ELSE IF p.draining THEN [p EXCEPT !.pc = "rem", !.tx = 0]
        ELSE Done(p, "ok")

\* send_with_retries, send_versioned_jupiter_with_retries returned a signature.
OnSent(o) ==
    CASE o.leg.kind \in {"buy", "jbuy"} -> [o EXCEPT !.pc = "fill", !.tx = 0]
      [] o.leg.kind = "jclose" -> ChunkDone(o)
      [] OTHER -> [o EXCEPT !.pc = "confirm", !.tx = 0]

\* They returned an error of class e.
OnFailed(o, e) ==
    CASE o.leg.kind = "buy" -> IF e = "6005" THEN [o EXCEPT !.pc = "jquote", !.tx = 0] ELSE Done(o, "err")
      [] o.leg.kind = "sell" ->
            IF e = "6005" /\ o.leg.amount > 0
            THEN StartJupiter(o, o.pre, o.leg.amount, o.leg.close) ELSE Done(o, "err")
      [] o.leg.kind = "drain" ->
            IF e = "6005" THEN StartJupiter(o, o.pre, o.pre, TRUE) ELSE Done(o, "err")
      [] o.leg.kind = "jsell" ->
            CASE e = "6005" /\ ~o.rebuilt -> [o EXCEPT !.pc = "quote", !.rebuilt = TRUE, !.tx = 0]
              [] e = "slip" /\ o.slip < SlipSteps ->
                    [o EXCEPT !.pc = "quote", !.slip = @ + 1, !.rebuilt = FALSE, !.tx = 0]
              [] OTHER -> ChunkFailed(o)
      [] o.leg.kind = "jclose" -> ChunkDone(o)
      [] OTHER -> Done(o, "err")

\* What the ledger notes when o continues as p: Jupiter is tried again with the whole
\* amount, or takes over only the clamped part of a full exit, without a drain.
Rerouted(o, p) ==
    (IF o.parts = 1 /\ p.parts = 2 THEN {"rechunked"} ELSE {}) \cup
    (IF o.leg.kind = "sell" /\ p.pc = "quote" /\ o.full /\ o.clamped THEN {"short"} ELSE {})

\* Variant: a failed wait is treated like a failed send, and the leg is sent again.
FailResends(e, notes) ==
    \E o \in {IF op.pc = "wait" /\ op.tries + 1 < MaxTries /\ e = "custom"
              THEN [op EXCEPT !.pc = "send", !.tries = @ + 1, !.tx = 0]
              ELSE OnFailed(op, e)} :
        op' = o /\ Noted(notes \cup Rerouted(op, o))

Fail(e, notes) ==
    \E o \in {OnFailed(op, e)} : op' = o /\ Noted(notes \cup Rerouted(op, o))

-----------------------------------------------------------------------------
(***************************************************************************)
(* One leg: send with retries, then wait.                                  *)
(***************************************************************************)
Sending == op.pc = "send" /\ UNCHANGED <<curve, ata, row>>
Jupiter == op.leg.kind \in {"jbuy", "jsell"}
Room == Cardinality(net) < MaxLive
LastTry == op.tries + 1 >= MaxTries
NewTx(st) == [id |-> CHOOSE i \in 1..MaxLive + 1 : \A t \in net : t.id # i,
              call |-> Len(calls), kind |-> op.leg.kind, amount |-> op.leg.amount,
              close |-> op.leg.close, st |-> st]

\* Variant: the attempts are not bounded.
BlockhashRetried ==
    /\ Sending /\ faults > 0
    /\ Costs(TRUE)
    /\ IF Jupiter THEN Fail("custom", {})
       ELSE op' = [op EXCEPT !.tries = @ + 1] /\ UNCHANGED calls
    /\ UNCHANGED net

\* get_latest_blockhash fails: retried on the pump path, fatal on the Jupiter path.
BlockhashFails ==
    /\ Sending /\ faults > 0
    /\ Costs(TRUE)
    /\ IF LastTry \/ Jupiter THEN Fail("custom", {})
       ELSE op' = [op EXCEPT !.tries = @ + 1] /\ UNCHANGED calls
    /\ UNCHANGED net

\* The RPC accepts the transaction and returns its signature.
SendAccepted ==
    /\ Sending /\ Room
    /\ net' = net \cup {NewTx("sent")}
    /\ op' = [op EXCEPT !.pc = "wait", !.tx = NewTx("sent").id]
    /\ UNCHANGED <<calls, faults>>

\* Variant: an endless send loop.
SendErrorsUncounted ==
    /\ Sending
    /\ UNCHANGED <<net, op, calls, faults>>

\* The send reports an error.  The transaction may have reached the cluster all the
\* same; the next attempt signs a new one over a new blockhash.  (When the network of the
\* model is full a send can only fail.)
SendErrors ==
    /\ Sending /\ Affordable(Room) /\ Costs(Room)
    /\ \E reached \in BOOLEAN, e \in RejectCodes(op.leg) :
          /\ reached => Room
          /\ net' = IF reached THEN net \cup {NewTx("sent")} ELSE net
          /\ LET notes == IF reached THEN {"lied"} ELSE {}
             IN IF LastTry THEN Fail(e, notes)
                ELSE op' = [op EXCEPT !.tries = @ + 1] /\ Noted(notes)

Waiting(t) == op.pc = "wait" /\ Own(t) /\ UNCHANGED <<curve, ata, row>>
Forget(t) == net' = IF t.st \in {"sent", "processed"} THEN net ELSE net \ {t}

\* wait_until_signature_confirmed_ok: confirmed, or processed (accepted early).
WaitOk(t) ==
    /\ Waiting(t) /\ Landed(t)
    /\ op' = OnSent(op) /\ Forget(t)
    /\ UNCHANGED <<calls, faults>>

\* The transaction failed on chain.
WaitFails(t) ==
    /\ Waiting(t) /\ t.st \in {"err", "6005", "slip"}
    /\ Fail(t.st, {}) /\ Forget(t)
    /\ UNCHANGED faults

\* get_signature_statuses fails, or nothing is seen for 90 s: an error, although the
\* transaction may land or have landed.
WaitGivesUp(t) ==
    /\ Waiting(t) /\ Affordable(t.st \notin {"sent", "gone"})
    /\ Fail("custom", IF t.st = "gone" THEN {} ELSE {"unsure"}) /\ Forget(t)
    /\ Costs(t.st \notin {"sent", "gone"})

Leg == BlockhashFails \/ SendAccepted \/ SendErrors
       \/ \E t \in net : WaitOk(t) \/ WaitFails(t) \/ WaitGivesUp(t)

-----------------------------------------------------------------------------
(***************************************************************************)
(* The confirmation of a sell leg on the token account.                    *)
(***************************************************************************)
ExpectClosed == op.leg.close \/ op.leg.kind = "dclose"

\* poll_ata_confirms_sell sees what it waits for.
AtaConfirms ==
    IF ExpectClosed THEN ata = Absent
    ELSE ata # Absent /\ (IF op.leg.kind = "jsell" THEN op.cpre ELSE op.pre) - ata >= op.leg.amount

\* Variant: a clamped full exit ends with its first leg.
SellConfirmedNoDrain(o) ==
    CASE o.leg.kind = "sell" -> Done(o, "ok")
      [] o.leg.kind = "drain" -> [o EXCEPT !.pc = "drain", !.legs = @ + 1]
      [] o.leg.kind = "dclose" -> Done(o, "ok")
      [] OTHER -> IF o.jclose /\ Len(o.chunks) = 1 THEN [o EXCEPT !.pc = "jread"] ELSE ChunkDone(o)

\* What follows a confirmed sell leg.
SellConfirmed(o) ==
    CASE o.leg.kind = "sell" ->
            IF o.full /\ o.clamped THEN [o EXCEPT !.pc = "drain", !.draining = TRUE] ELSE Done(o, "ok")
      [] o.leg.kind = "drain" -> [o EXCEPT !.pc = "drain", !.legs = @ + 1]
      [] o.leg.kind = "dclose" -> Done(o, "ok")
      [] OTHER -> IF o.jclose /\ Len(o.chunks) = 1 THEN [o EXCEPT !.pc = "jread"] ELSE ChunkDone(o)

PollSeesSell ==
    /\ op.pc = "confirm" /\ AtaConfirms
    /\ op' = SellConfirmed([op EXCEPT !.moved = TRUE])
    /\ UNCHANGED <<curve, ata, net, row, calls, faults>>

\* The poll runs into its timeout, on a balance that did not drop or on failing reads.
PollTimesOut ==
    /\ op.pc = "confirm" /\ Affordable(AtaConfirms) /\ Costs(AtaConfirms)
    /\ \E o \in {IF op.leg.kind = "jsell" THEN ChunkFailed(op) ELSE Done(op, "err")} :
          op' = o /\ Noted({"unsure"} \cup Rerouted(op, o))
    /\ UNCHANGED <<curve, ata, net, row>>

-----------------------------------------------------------------------------
(***************************************************************************)
(* Jupiter quotes.                                                         *)
(***************************************************************************)
\* A v2 order is asked for neither after a 6005 nor in the allow-pump attempt.
V2Choices == IF op.rebuilt \/ op.slip = SlipSteps THEN {FALSE} ELSE BOOLEAN

\* A build is found: exclude-Pump, v2 order or allow-pump.  A v2 order is executed once,
\* a v1 swap is sent with retries.
QuoteFound ==
    /\ op.pc = "quote"
    /\ \E v2 \in V2Choices :
          op' = [SendLeg(op, "jsell", Head(op.chunks), FALSE) EXCEPT
                    !.tries = IF v2 THEN MaxTries - 1 ELSE 0]
    /\ UNCHANGED <<curve, ata, net, row, calls, faults>>

\* No route, an HTTP error or an unusable answer from every fallback.
QuoteFails ==
    /\ op.pc = "quote" /\ faults > 0 /\ Costs(TRUE)
    /\ \E o \in {ChunkFailed(op)} : op' = o /\ Noted(Rerouted(op, o))
    /\ UNCHANGED <<curve, ata, net, row>>

\* After the last chunk of a full exit: close the ATA when it reads empty.
CloseAfterJupiter ==
    /\ op.pc = "jread"
    /\ \E r \in AtaRead :
          /\ op' = IF r = 0 THEN SendLeg(op, "jclose", 0, FALSE) ELSE ChunkDone(op)
          /\ Costs(Misread(r))
    /\ UNCHANGED <<curve, ata, net, row, calls>>

-----------------------------------------------------------------------------
(***************************************************************************)
(* buy.                                                                    *)
(***************************************************************************)
NewCall(kind, full, want) ==
    calls' = Append(calls, [kind |-> kind, full |-> full, want |-> want, landed |-> 0,
                            flags |-> {}, res |-> "none"])

\* The manager calls buy once for a position.
CallBuy ==
    /\ op.pc = "idle" /\ row.st = "none" /\ calls = <<>>
    /\ NewCall("buy", FALSE, Fill)
    /\ op' = [IdleOp EXCEPT !.pc = "prepare", !.call = "buy"]
    /\ UNCHANGED <<curve, ata, net, row, faults>>

\* The cached balance is too low, wait_for_account_visible does not see the mint in time,
\* or its token program cannot be read.
BuyRefused ==
    /\ op.pc = "prepare" /\ faults > 0 /\ Costs(TRUE)
    /\ op' = Done(op, "err")
    /\ UNCHANGED <<curve, ata, net, row, calls>>

\* The curve is read (a failed read counts as open) and the transaction is built.
BuyRouted ==
    /\ op.pc = "prepare"
    /\ \E read \in BOOLEAN, r \in AtaRead :
          /\ Affordable(~read \/ Misread(r)) /\ Costs(~read \/ Misread(r))
          /\ LET o == [op EXCEPT !.pre = OrZero(r)]
             IN op' = IF read /\ curve = "complete" THEN [o EXCEPT !.pc = "jquote"]
                      ELSE SendLeg(o, "buy", 0, FALSE)
    /\ UNCHANGED <<curve, ata, net, row, calls>>

\* buy_tokens_post_graduation: the balance before is read again and a swap is built, or
\* post_grad_no_route.
BuyQuoted ==
    /\ op.pc = "jquote"
    /\ \E r \in AtaRead : op' = [SendLeg(op, "jbuy", 0, FALSE) EXCEPT !.pre = OrZero(r)] /\ Costs(Misread(r))
    /\ UNCHANGED <<curve, ata, net, row, calls>>

NoBuyRoute ==
    /\ op.pc = "jquote" /\ faults > 0 /\ Costs(TRUE)
    /\ op' = Done(op, "err")
    /\ UNCHANGED <<curve, ata, net, row, calls>>

\* poll_token_balance_increase: the fill is measured, or estimated after 15 s.
FillMeasured ==
    /\ op.pc = "fill" /\ ata > op.pre
    /\ op' = [Done(op, "ok") EXCEPT !.size = ata - op.pre]
    /\ UNCHANGED <<curve, ata, net, row, calls, faults>>

\* The estimate on the curve is min_token_out, which the program guarantees.
FillFloored ==
    /\ op.pc = "fill" /\ op.leg.kind = "buy"
    /\ op' = [Done(op, "ok") EXCEPT !.size = Floor]
    /\ UNCHANGED <<curve, ata, net, row, calls, faults>>

\* The estimate on Jupiter is the quote's outAmount, from before slippage: more or less
\* than what arrived, and 0 when it did not parse.
FillQuoted ==
    /\ op.pc = "fill" /\ op.leg.kind = "jbuy"
    /\ \E q \in Quotes : op' = [Done(op, "ok") EXCEPT !.size = q]
    /\ Noted({"quoted"})
    /\ UNCHANGED <<curve, ata, net, row, faults>>

-----------------------------------------------------------------------------
(***************************************************************************)
(* sell.                                                                   *)
(***************************************************************************)
\* The manager sells half of what it holds, or all of it.
CallSell(full) ==
    /\ op.pc = "idle" /\ row.st = "open" /\ Len(calls) < MaxCalls
    /\ full \/ row.hold > 1
    /\ LET want == IF full THEN row.hold ELSE row.hold \div 2
       IN /\ NewCall("sell", full, want)
          /\ op' = [IdleOp EXCEPT !.pc = "size", !.call = "sell", !.full = full, !.size = want]
    /\ UNCHANGED <<curve, ata, net, row, faults>>

\* fetch_mint_token_kind fails.
SellRefused ==
    /\ op.pc = "size" /\ faults > 0 /\ Costs(TRUE)
    /\ op' = Done(op, "err")
    /\ UNCHANGED <<curve, ata, net, row, calls>>

\* Variant: a full exit trusts the manager's amount.
SizeSellBlind ==
    /\ op.pc = "size"
    /\ op' = [op EXCEPT !.pc = "route"]
    /\ UNCHANGED <<curve, ata, net, row, calls, faults>>

\* A full exit is sized by the ATA, or by the manager's amount when the read fails.
SizeSell ==
    /\ op.pc = "size"
    /\ \E r \in IF op.full THEN AtaRead ELSE {ReadFailed} :
          /\ op' = [op EXCEPT !.pc = "route", !.size = IF r = ReadFailed THEN @ ELSE r]
          /\ Noted(IF op.full /\ r = ReadFailed THEN {"short"} ELSE {})
          /\ Costs(op.full /\ Misread(r))
    /\ UNCHANGED <<curve, ata, net, row>>

\* pump_max_sellable_tokens_for_sol: the curve, complete or not, may have reserves for
\* less than the whole amount, or for nothing.
Sellable(n) == {0, 1, n} \cap 0..n

\* The curve is read, the amount clamped and the route chosen; high is a market cap of
\* 250 SOL and more.
RouteSell ==
    /\ op.pc = "route"
    /\ \E read \in BOOLEAN, high \in BOOLEAN, r \in AtaRead :
       \E s \in IF read THEN Sellable(op.size) ELSE {op.size} :
          LET clamped == s < op.size
              close == op.full /\ ~clamped
              viaJupiter == read /\ (curve = "complete" \/ high) /\ s > 0
              o == [op EXCEPT !.size = s, !.clamped = clamped, !.pre = OrZero(r)]
          IN /\ Affordable(~read \/ Misread(r)) /\ Costs(~read \/ Misread(r))
             /\ op' = CASE viaJupiter -> StartJupiter(o, OrZero(r), s, close)
                        [] ~viaJupiter /\ s = 0 /\ ~close -> Done(o, "err")
                        [] OTHER -> SendLeg(o, "sell", s, close)
             /\ Noted(IF viaJupiter /\ op.full /\ clamped THEN {"short"} ELSE {})
    /\ UNCHANGED <<curve, ata, net, row>>

-----------------------------------------------------------------------------
(***************************************************************************)
(* drain_pump_ata_after_clamped_full_exit.                                 *)
(***************************************************************************)
\* One leg: the rest of the balance through the curve as far as its reserves allow, or
\* through Jupiter after graduation.
DrainLeg ==
    /\ op.pc = "drain" /\ op.legs < MaxLegs
    /\ ata > 0
    /\ \E s \in Sellable(ata) \ {0} :
          LET o == [op EXCEPT !.pre = ata]
          IN op' = IF curve = "complete" THEN StartJupiter(o, ata, ata, TRUE)
                   ELSE SendLeg(o, "drain", s, FALSE)
    /\ UNCHANGED <<curve, ata, net, row, calls, faults>>

\* The balance reads zero or not at all, the curve cannot be read, nothing is sellable,
\* or the legs are used up.
DrainStops ==
    /\ op.pc = "drain"
    /\ op' = [op EXCEPT !.pc = "rem"]
    /\ UNCHANGED <<curve, ata, net, row, calls, faults>>

\* The remainder (zero when it cannot be read): close the account, or leave the tokens
\* with a warning and report success.
DrainRemainder ==
    /\ op.pc = "rem"
    /\ \E r \in AtaRead :
          /\ IF OrZero(r) = 0 THEN op' = SendLeg(op, "dclose", 0, FALSE) /\ UNCHANGED calls
             ELSE op' = Done(op, "ok") /\ Noted({"short"})
          /\ Costs(Misread(r))
    /\ UNCHANGED <<curve, ata, net, row>>

-----------------------------------------------------------------------------
\* The manager's row after the call (manager.rs): a fill opens it, a full sell removes
\* it, a partial sell deducts what was asked for, an error changes nothing.
RowAfter ==
    IF op.res # "ok" THEN row
    ELSE IF op.call = "buy" THEN [st |-> "open", hold |-> op.size]
    ELSE IF op.full THEN [st |-> "closed", hold |-> 0]
    ELSE [row EXCEPT !.hold = @ - calls[Len(calls)].want]

ReturnCall ==
    /\ op.pc = "return"
    /\ row' = RowAfter
    /\ op' = IdleOp
    /\ calls' = [calls EXCEPT ![Len(calls)].res = op.res,
            ![Len(calls)].flags = @ \cup (IF op.res # "ok" /\ op.moved THEN {"unsure"} ELSE {})]
    /\ UNCHANGED <<curve, ata, net, faults>>

Call == CallBuy \/ \E full \in BOOLEAN : CallSell(full)

\* The steps of a running broker call.
Running ==
    \/ Leg \/ PollSeesSell \/ PollTimesOut
    \/ QuoteFound \/ QuoteFails \/ CloseAfterJupiter
    \/ BuyRefused \/ BuyRouted \/ BuyQuoted \/ NoBuyRoute \/ FillMeasured \/ FillFloored \/ FillQuoted
    \/ SellRefused \/ SizeSell \/ RouteSell
    \/ DrainLeg \/ DrainStops \/ DrainRemainder
    \/ ReturnCall

\* The manager has no position to sell, or has made its calls.
Finished ==
    /\ op.pc = "idle" /\ net = {}
    /\ row.st = "closed" \/ Len(calls) = MaxCalls \/ (row.st = "none" /\ calls # <<>>)
    /\ UNCHANGED vars

Next == Call \/ Running \/ Network \/ Finished

Spec == Init /\ [][Next]_vars

\* Every await of a call returns: RPC requests answer or time out.  Nothing is assumed
\* of the network.
FairSpec == Spec /\ WF_vars(Running)

-----------------------------------------------------------------------------
(***************************************************************************)
(* Properties.                                                             *)
(***************************************************************************)
Idle == op.pc = "idle"
Flags == UNION {calls[c].flags : c \in DOMAIN calls}

LegType == [kind : {"none", "buy", "jbuy", "sell", "drain", "dclose", "jsell", "jclose"},
            amount : Nat, close : BOOLEAN]
TxType == [id : 1..(MaxLive + 1), call : DOMAIN calls, kind : {"buy", "jbuy", "sell", "drain",
           "dclose", "jsell", "jclose"}, amount : Nat, close : BOOLEAN,
           st : {"sent", "processed", "ok", "err", "6005", "slip", "gone"}]
CallType == [kind : {"buy", "sell"}, full : BOOLEAN, want : Nat, landed : Nat,
             flags : SUBSET {"lied", "short", "unsure", "rechunked", "quoted"},
             res : {"none", "ok", "err", "exhausted"}]
OpType == [pc : {"idle", "prepare", "jquote", "fill", "size", "route", "send", "wait",
                 "confirm", "quote", "jread", "drain", "rem", "return"},
           call : {"none", "buy", "sell"}, full : BOOLEAN, size : Nat, clamped : BOOLEAN,
           pre : Nat, leg : LegType, tries : 0..(MaxTries - 1), tx : 0..(MaxLive + 1),
           parts : 0..2, chunks : Seq(Nat), jamt : Nat, jpre : Nat, cpre : Nat,
           jclose : BOOLEAN, slip : 0..SlipSteps, rebuilt : BOOLEAN, draining : BOOLEAN,
           legs : 0..MaxLegs, moved : BOOLEAN, res : {"none", "ok", "err", "exhausted"}]

\* Type invariant: retries, slippage steps and drain legs stay within their limits, the
\* ATA never holds a negative amount, and transactions in the network have ids of their
\* own, one of which is the call's while it waits.
TypeOK ==
    /\ curve \in {"open", "complete"}
    /\ ata \in Nat \cup {Absent}
    /\ row \in [st : {"none", "open", "closed"}, hold : Nat]
    /\ calls \in Seq(CallType)
    /\ op \in OpType
    /\ net \subseteq TxType /\ IsFiniteSet(net)
    /\ faults \in Nat
    /\ \A s, t \in net : s.id = t.id => s = t
    /\ op.pc = "wait" => \E t \in net : Own(t)

\* sell(close_account_after = true) that returns Ok leaves tokens in the ATA for one of
\* four reasons only: a clamped amount routed to Jupiter, a drain that stopped short, an
\* amount taken from the manager because the ATA could not be read, or a buy that landed
\* meanwhile.
FullExitEmptied ==
    [][op.pc = "return" /\ op'.pc = "idle" /\ op.call = "sell" /\ op.full /\ op.res = "ok"
          => \/ ata <= 0
             \/ "short" \in calls[Len(calls)].flags]_vars

\* A call moves more tokens than it was asked to only when a send that reported an error
\* had reached the cluster, or when Jupiter was retried in chunks from the full amount.
TradesOnce ==
    \A c \in DOMAIN calls :
        (calls[c].kind = "buy" \/ ~calls[c].full) /\ calls[c].landed > calls[c].want
            => calls[c].flags \cap {"lied", "rechunked"} # {}

\* When no answer was ambiguous, no call was cut short and no fill was taken from a
\* Jupiter quote, the manager and the chain agree once everything has settled: an open
\* row is backed by at least its holdings in the ATA, and without a row the wallet holds
\* nothing.
InSync ==
    Idle /\ net = {} /\ Flags \subseteq {"rechunked"}
        => IF row.st = "open" THEN row.hold <= ata ELSE ata <= 0

\* Retries, slippage steps, chunks and drain legs are bounded: every call returns,
\* whatever the network does.
CallReturns == op.pc # "idle" ~> op.pc = "idle"

\* What the comment on poll_ata_confirms_sell promises: a sell does not leave the manager
\* with a row whose tokens it has sold and whose token account it has closed.
NoPhantomRow ==
    Idle /\ net = {} /\ row.st = "open" /\ ata = Absent
        => \A c \in DOMAIN calls : calls[c].kind = "sell" => calls[c].landed = 0
=============================================================================
