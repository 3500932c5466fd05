------------------------ MODULE PositionManagerProofs ------------------------
(***************************************************************************)
(* Proofs, for every set of mints, wallets and triggers and for any bound  *)
(* on the signals, of the safety properties of PositionManager, and of its *)
(* refinement of PositionLifecycle.                                        *)
(***************************************************************************)
EXTENDS PositionManagerRefinement, FiniteSetTheorems, TLAPS

\* What removing rows does to the types: the flags stay within the rows that are
\* left, and the fill counters of the other rows are kept.
LEMMA RemovePositionsType ==
    ASSUME TypeOK, NEW ks \in SUBSET positions, RemovePositions(ks)
    PROVE  /\ positions' \in SUBSET Key
           /\ isClosing' \in SUBSET positions'
           /\ pendingPartial' \in SUBSET positions'
           /\ triggered' \in [Key -> SUBSET Trigger]
           /\ lots' \in [Key -> Nat]
           /\ \A k \in positions' : lots'[k] > 0
<1>1. \A k \in ks : k \in Key /\ lots[k] \in Nat /\ lots[k] > 0
  BY DEF TypeOK
<1>2. lots' \in [Key -> Nat]
  <2>1. \A k \in Key : (IF k \in ks THEN lots[k] - 1 ELSE lots[k]) \in Nat
    BY <1>1 DEF TypeOK
  <2> QED BY <2>1 DEF RemovePositions
<1>3. \A k \in positions' : lots'[k] > 0
  BY DEF RemovePositions, TypeOK
<1> QED BY <1>2, <1>3 DEF RemovePositions, TypeOK

\* Every state of the actor is well typed.
THEOREM TypeCorrect == Spec => []TypeOK
<1>1. Init => TypeOK
  <2> SUFFICES ASSUME Init PROVE TypeOK
    OBVIOUS
  <2>1. /\ buysInFlight \in [Key -> Nat] /\ fullSells \in [Key -> Nat]
        /\ partialSells \in [Key -> Nat] /\ lots \in [Key -> Nat]
        /\ signals \in [Mint -> Nat] /\ fanout \in [Mint -> SUBSET Wallet]
        /\ triggered \in [Key -> SUBSET Trigger]
    BY DEF Init
  <2>2. /\ paused \in BOOLEAN /\ enabled \in SUBSET Wallet
        /\ positions \in SUBSET Key /\ isClosing \in SUBSET positions
        /\ pendingPartial \in SUBSET positions /\ pendingWalletBuys \in SUBSET Key
        /\ \A k \in positions : lots[k] > 0
    BY Zenon DEF Init
  <2> QED BY <2>1, <2>2 DEF Init, TypeOK
<1>2. TypeOK /\ [Next]_vars => TypeOK'
  <2> SUFFICES ASSUME TypeOK, [Next]_vars PROVE TypeOK'
    OBVIOUS
  <2> USE DEF posVars, buyVars, sellVars, mintVars, ctlVars
  <2>1. ASSUME NEW m \in Mint, UpdatePool(m) PROVE TypeOK'
    BY <2>1 DEF TypeOK, UpdatePool
  <2>2. ASSUME NEW m \in Mint, InitiateBuyRejected(m) PROVE TypeOK'
    BY <2>2 DEF TypeOK, InitiateBuyRejected
  <2>3. ASSUME NEW m \in Mint, InitiateBuyAdmitted(m) PROVE TypeOK'
    BY <2>3 DEF TypeOK, InitiateBuyAdmitted
  <2>4. ASSUME NEW m \in Mint, QuarantineExpires(m) PROVE TypeOK'
    BY <2>4 DEF TypeOK, QuarantineExpires
  <2>5. ASSUME NEW m \in Mint, ClearPendingMint(m) PROVE TypeOK'
    BY <2>5 DEF TypeOK, ClearPendingMint, OutlivedBy
  <2>6. ASSUME NEW m \in Mint, NEW ws \in SUBSET Wallet, AbandonPosition(m, ws)
        PROVE  TypeOK'
    <3> DEFINE gone == positions \cap ({m} \X ws)
    <3>1. RemovePositions(gone) /\ gone \in SUBSET positions
      BY <2>6 DEF AbandonPosition
    <3>2. closedMints' \in SUBSET Mint /\ poolCache' \in SUBSET Mint
      BY <2>6 DEF AbandonPosition, MaybeFinalizeClosedMint, TypeOK
    <3> QED BY <2>6, <3>1, <3>2, RemovePositionsType DEF TypeOK, AbandonPosition
  <2>7. ASSUME NEW m \in Mint, NEW w \in Wallet, ExecuteBuy(m, w) PROVE TypeOK'
    BY <2>7 DEF TypeOK, ExecuteBuy, Key
  <2>8. ASSUME NEW p \in BOOLEAN, SetPaused(p) PROVE TypeOK'
    BY <2>8 DEF TypeOK, SetPaused
  <2>9. ASSUME NEW ws \in SUBSET Wallet, ApplyConfigPatch(ws) PROVE TypeOK'
    BY <2>9 DEF TypeOK, ApplyConfigPatch
  <2>10. ASSUME NEW k \in Key, BuyCompleted(k) PROVE TypeOK'
    <3>0. k[1] \in Mint
      BY DEF Key
    <3>1. CASE BuyUnavailable(k)
      BY <3>0, <3>1 DEF TypeOK, BuyUnavailable, BuyReturns
    <3>2. CASE BuyFailed(k)
      BY <3>2 DEF TypeOK, BuyFailed, BuyReturns
    <3>3. CASE BuyAborted(k)
      BY <3>0, <3>3 DEF TypeOK, BuyAborted, BuyReturns
    <3>4. CASE BuyOpened(k)
      BY <3>4 DEF TypeOK, BuyOpened, BuyReturns
    <3> QED BY <2>10, <3>1, <3>2, <3>3, <3>4 DEF BuyCompleted
  <2>11. ASSUME NEW k \in Key, ExecuteFullSell(k) PROVE TypeOK'
    <3>0. k[1] \in Mint
      BY DEF Key
    <3>1. CASE FullSellIgnored(k)
      BY <3>1 DEF TypeOK, FullSellIgnored, TakeFullSell
    <3>2. CASE FullSellFailed(k)
      BY <3>2 DEF TypeOK, FullSellFailed, TakeFullSell
    <3>3. CASE FullSellDone(k)
      <4>1. RemovePositions({k}) /\ {k} \in SUBSET positions
        BY <3>3 DEF FullSellDone
      <4>2. /\ closedMints' \in SUBSET Mint /\ poolCache' \in SUBSET Mint
            /\ traded' \in SUBSET Mint /\ quarantine' \in SUBSET Mint
        BY <3>0, <3>3 DEF FullSellDone, MaybeFinalizeClosedMint, TypeOK
      <4> QED BY <3>3, <4>1, <4>2, RemovePositionsType
              DEF TypeOK, FullSellDone, TakeFullSell
    <3> QED BY <2>11, <3>1, <3>2, <3>3 DEF ExecuteFullSell
  <2>12. ASSUME NEW k \in Key, ExecutePartialSell(k) PROVE TypeOK'
    BY <2>12 DEF TypeOK, ExecutePartialSell, PartialSellSettled,
                 PartialSellExhausted, TakePartialSell
  <2>13. ASSUME NEW close, NEW part, NEW fired, Tick(close, part, fired) PROVE TypeOK'
    <3>1. close \subseteq positions /\ part \subseteq positions
      BY <2>13 DEF Tick, Managed
    <3>2. \A k \in part : fired[k] \in Trigger
      BY <2>13 DEF Tick, Untriggered
    <3> QED BY <2>13, <3>1, <3>2 DEF TypeOK, Tick
  <2>14. CASE UNCHANGED vars
    BY <2>14 DEF TypeOK, vars
  <2> QED
    BY <2>1, <2>2, <2>3, <2>4, <2>5, <2>6, <2>7, <2>8, <2>9, <2>10, <2>11,
       <2>12, <2>13, <2>14 DEF Next, TickStep
<1> QED BY <1>1, <1>2, PTL DEF Spec

-----------------------------------------------------------------------------
\* A position that is_closing or pending_partial_sell takes out of management has
\* the sell that will settle it on its way: no row is skipped forever.
THEOREM FlagsBackedAlways == Spec => []FlagsBacked
<1>1. Init => FlagsBacked
  BY DEF Init, FlagsBacked
<1>2. TypeOK /\ FlagsBacked /\ [Next]_vars => FlagsBacked'
  <2> SUFFICES ASSUME TypeOK, FlagsBacked, [Next]_vars PROVE FlagsBacked'
    OBVIOUS
  <2> USE DEF posVars, buyVars, sellVars, mintVars, ctlVars
  <2>1. ASSUME NEW m \in Mint, UpdatePool(m) \/ InitiateBuyRejected(m)
                 \/ InitiateBuyAdmitted(m) \/ QuarantineExpires(m) \/ ClearPendingMint(m)
        PROVE  FlagsBacked'
    BY <2>1 DEF FlagsBacked, UpdatePool, InitiateBuyRejected, InitiateBuyAdmitted,
                QuarantineExpires, ClearPendingMint
  <2>2. ASSUME NEW m \in Mint, NEW ws \in SUBSET Wallet, AbandonPosition(m, ws)
        PROVE  FlagsBacked'
    BY <2>2 DEF FlagsBacked, AbandonPosition, RemovePositions
  <2>3. ASSUME NEW m \in Mint, NEW w \in Wallet, ExecuteBuy(m, w) PROVE FlagsBacked'
    BY <2>3 DEF FlagsBacked, ExecuteBuy
  <2>4. ASSUME NEW p \in BOOLEAN, SetPaused(p) PROVE FlagsBacked'
    BY <2>4 DEF FlagsBacked, SetPaused
  <2>5. ASSUME NEW ws \in SUBSET Wallet, ApplyConfigPatch(ws) PROVE FlagsBacked'
    BY <2>5 DEF FlagsBacked, ApplyConfigPatch
  <2>6. ASSUME NEW k \in Key, BuyCompleted(k) PROVE FlagsBacked'
    BY <2>6 DEF FlagsBacked, BuyCompleted, BuyReturns, BuyUnavailable, BuyFailed,
                BuyAborted, BuyOpened
  <2>7. ASSUME NEW k \in Key, ExecuteFullSell(k) PROVE FlagsBacked'
    <3>1. /\ k \notin isClosing'
          /\ isClosing' \subseteq isClosing
          /\ pendingPartial' \subseteq pendingPartial
      BY <2>7 DEF ExecuteFullSell, FullSellIgnored, FullSellFailed, FullSellDone,
                  RemovePositions, TypeOK
    <3>2. /\ \A j \in Key : j # k => fullSells'[j] = fullSells[j]
          /\ partialSells' = partialSells
      BY <2>7 DEF ExecuteFullSell, FullSellIgnored, FullSellFailed, FullSellDone,
                  TakeFullSell, TypeOK
    <3> QED BY <3>1, <3>2 DEF FlagsBacked, TypeOK
  <2>8. ASSUME NEW k \in Key, ExecutePartialSell(k) PROVE FlagsBacked'
    <3>1. /\ k \notin pendingPartial'
          /\ isClosing' \subseteq isClosing
          /\ pendingPartial' \subseteq pendingPartial
      BY <2>8 DEF ExecutePartialSell, PartialSellSettled, PartialSellExhausted
    <3>2. /\ \A j \in Key : j # k => partialSells'[j] = partialSells[j]
          /\ fullSells' = fullSells
      BY <2>8 DEF ExecutePartialSell, PartialSellSettled, PartialSellExhausted,
                  TakePartialSell, TypeOK
    <3> QED BY <3>1, <3>2 DEF FlagsBacked, TypeOK
  <2>9. ASSUME NEW close, NEW part, NEW fired, Tick(close, part, fired)
        PROVE  FlagsBacked'
    <3>1. close \subseteq Key /\ part \subseteq Key
      BY <2>9 DEF Tick, Managed, TypeOK
    <3> QED BY <2>9, <3>1 DEF FlagsBacked, Tick, TypeOK
  <2>10. CASE UNCHANGED vars
    BY <2>10 DEF FlagsBacked, vars
  <2> QED
    BY <2>1, <2>2, <2>3, <2>4, <2>5, <2>6, <2>7, <2>8, <2>9, <2>10 DEF Next, TickStep
<1> QED BY <1>1, <1>2, TypeCorrect, PTL DEF Spec

\* While wallets of a signal still wait for their ExecuteBuy, the mint is pending.
THEOREM PendingCoversFanoutAlways == Spec => []PendingCoversFanout
<1>1. Init => PendingCoversFanout
  BY DEF Init, PendingCoversFanout
<1>2. TypeOK /\ PendingCoversFanout /\ [Next]_vars => PendingCoversFanout'
  <2> SUFFICES ASSUME TypeOK, PendingCoversFanout, [Next]_vars
               PROVE  PendingCoversFanout'
    OBVIOUS
  <2> USE DEF posVars, buyVars, sellVars, mintVars, ctlVars
  <2>1. ASSUME NEW m \in Mint, InitiateBuyAdmitted(m) PROVE PendingCoversFanout'
    BY <2>1 DEF PendingCoversFanout, InitiateBuyAdmitted, TypeOK
  <2>2. ASSUME NEW m \in Mint, ClearPendingMint(m) PROVE PendingCoversFanout'
    BY <2>2 DEF PendingCoversFanout, ClearPendingMint, TypeOK
  <2>3. ASSUME NEW m \in Mint, NEW w \in Wallet, ExecuteBuy(m, w)
        PROVE  PendingCoversFanout'
    BY <2>3 DEF PendingCoversFanout, ExecuteBuy, TypeOK
  <2>4. CASE UNCHANGED <<pendingMints, fanout>>
    BY <2>4 DEF PendingCoversFanout
  <2> QED
    BY <2>1, <2>2, <2>3, <2>4
       DEF Next, TickStep, vars, UpdatePool, InitiateBuyRejected, QuarantineExpires,
           AbandonPosition, SetPaused, ApplyConfigPatch, BuyCompleted, BuyReturns,
           BuyUnavailable, BuyFailed, BuyAborted, BuyOpened, ExecuteFullSell,
           FullSellIgnored, FullSellFailed, FullSellDone, TakeFullSell,
           ExecutePartialSell, PartialSellSettled, PartialSellExhausted,
           TakePartialSell, Tick
<1> QED BY <1>1, <1>2, TypeCorrect, PTL DEF Spec

\* A running buy belongs to a pending mint or to one whose fan-out it has outlived.
THEOREM BuysCoveredAlways == Spec => []BuysCovered
<1>1. Init => BuysCovered
  BY DEF Init, BuysCovered
<1>2. TypeOK /\ PendingCoversFanout /\ BuysCovered /\ [Next]_vars => BuysCovered'
  <2> SUFFICES ASSUME TypeOK, PendingCoversFanout, BuysCovered, [Next]_vars
               PROVE  BuysCovered'
    OBVIOUS
  <2> USE DEF posVars, buyVars, sellVars, mintVars, ctlVars
  <2>1. ASSUME NEW m \in Mint, InitiateBuyAdmitted(m) PROVE BuysCovered'
    BY <2>1 DEF BuysCovered, InitiateBuyAdmitted, TypeOK
  <2>2. ASSUME NEW m \in Mint, ClearPendingMint(m) PROVE BuysCovered'
    <3>1. \A k \in Key : k[1] = m => \E w \in Wallet : k = <<m, w>>
      BY DEF Key
    <3> QED BY <2>2, <3>1 DEF BuysCovered, ClearPendingMint, OutlivedBy, TypeOK
  <2>3. ASSUME NEW m \in Mint, NEW w \in Wallet, ExecuteBuy(m, w) PROVE BuysCovered'
    <3>1. <<m, w>> \in Key /\ <<m, w>>[1] = m
      BY DEF Key
    <3>2. m \in pendingMints
      BY <2>3 DEF ExecuteBuy, PendingCoversFanout
    <3> QED BY <2>3, <3>1, <3>2 DEF BuysCovered, ExecuteBuy, TypeOK
  <2>4. ASSUME NEW k \in Key, BuyReturns(k) PROVE BuysCovered'
    BY <2>4 DEF BuysCovered, BuyReturns, TypeOK
  <2>5. CASE UNCHANGED <<pendingMints, outlived, buysInFlight>>
    BY <2>5 DEF BuysCovered
  <2> QED
    BY <2>1, <2>2, <2>3, <2>4, <2>5
       DEF Next, TickStep, vars, UpdatePool, InitiateBuyRejected, QuarantineExpires,
           AbandonPosition, SetPaused, ApplyConfigPatch, BuyCompleted,
           BuyUnavailable, BuyFailed, BuyAborted, BuyOpened, ExecuteFullSell,
           FullSellIgnored, FullSellFailed, FullSellDone, TakeFullSell,
           ExecutePartialSell, PartialSellSettled, PartialSellExhausted,
           TakePartialSell, Tick
<1> QED BY <1>1, <1>2, TypeCorrect, PendingCoversFanoutAlways, PTL DEF Spec

\* max_open_positions bounds the open and pending mints whose buys did not outlive
\* their fan-out: admission takes a slot below the cap, no other step adds a mint
\* but the fill of a buy, and BuysCovered says whose buy that is.
THEOREM CapExactAlways == Spec => []CapExact
<1>1. Init => CapExact
  <2> SUFFICES ASSUME Init PROVE CapExact
    OBVIOUS
  <2>1. UniqueOpenMints \ outlived = {}
    BY DEF Init, UniqueOpenMints
  <2> QED BY <2>1, FS_EmptySet, ConstantsAssumption DEF CapExact
<1>2. TypeOK /\ BuysCovered /\ CapExact /\ [Next]_vars => CapExact'
  <2> SUFFICES ASSUME TypeOK, BuysCovered, CapExact, [Next]_vars PROVE CapExact'
    OBVIOUS
  <2> USE DEF posVars, buyVars, sellVars, mintVars, ctlVars
  <2>f. UniqueOpenMints \subseteq Mint /\ IsFiniteSet(UniqueOpenMints)
    <3>1. UniqueOpenMints \subseteq Mint
      BY DEF UniqueOpenMints, TypeOK, Key
    <3> QED BY <3>1, FS_Subset, ConstantsAssumption
  <2>1. ASSUME NEW m \in Mint, InitiateBuyAdmitted(m) PROVE CapExact'
    <3>1. Cardinality(UniqueOpenMints) < MaxOpen
      <4>1. Cardinality(UniqueOpenMints) \in Nat
        BY <2>f, FS_CardinalityType
      <4> QED BY <4>1, <2>1, ConstantsAssumption DEF InitiateBuyAdmitted, SignalRejected
    <3>2. /\ IsFiniteSet(UniqueOpenMints \cup {m})
          /\ Cardinality(UniqueOpenMints \cup {m}) <= MaxOpen
      <4>1. Cardinality(UniqueOpenMints) \in Nat
        BY <2>f, FS_CardinalityType
      <4>2. /\ IsFiniteSet(UniqueOpenMints \cup {m})
            /\ \/ Cardinality(UniqueOpenMints \cup {m}) = Cardinality(UniqueOpenMints)
               \/ Cardinality(UniqueOpenMints \cup {m}) = Cardinality(UniqueOpenMints) + 1
        BY <2>f, FS_AddElement
      <4> QED BY <3>1, <4>1, <4>2, ConstantsAssumption
    <3>3. (UniqueOpenMints \ outlived)' \subseteq UniqueOpenMints \cup {m}
      BY <2>1 DEF InitiateBuyAdmitted, UniqueOpenMints
    <3>4. /\ IsFiniteSet((UniqueOpenMints \ outlived)')
          /\ Cardinality((UniqueOpenMints \ outlived)')
               <= Cardinality(UniqueOpenMints \cup {m})
      BY <3>2, <3>3, FS_Subset
    <3>5. /\ Cardinality((UniqueOpenMints \ outlived)') \in Nat
          /\ Cardinality(UniqueOpenMints \cup {m}) \in Nat
      BY <3>2, <3>4, FS_CardinalityType
    <3> QED BY <3>2, <3>4, <3>5, ConstantsAssumption DEF CapExact
  <2>2. CASE (UniqueOpenMints \ outlived)' \subseteq UniqueOpenMints \ outlived
    <3>1. IsFiniteSet(UniqueOpenMints \ outlived)
      BY <2>f, FS_Subset
    <3>2. /\ IsFiniteSet((UniqueOpenMints \ outlived)')
          /\ Cardinality((UniqueOpenMints \ outlived)')
               <= Cardinality(UniqueOpenMints \ outlived)
      BY <2>2, <3>1, FS_Subset
    <3>3. /\ Cardinality((UniqueOpenMints \ outlived)') \in Nat
          /\ Cardinality(UniqueOpenMints \ outlived) \in Nat
      BY <3>1, <3>2, FS_CardinalityType
    <3> QED BY <3>2, <3>3, ConstantsAssumption DEF CapExact
  <2>3. \/ \E m \in Mint : InitiateBuyAdmitted(m)
        \/ pendingMints' \subseteq pendingMints /\ outlived \subseteq outlived'
    BY DEF Next, TickStep, vars, UpdatePool, InitiateBuyRejected, QuarantineExpires,
           ClearPendingMint, ExecuteBuy,
           AbandonPosition, SetPaused, ApplyConfigPatch, BuyCompleted, BuyReturns,
           BuyUnavailable, BuyFailed, BuyAborted, BuyOpened, ExecuteFullSell,
           FullSellIgnored, FullSellFailed, FullSellDone, TakeFullSell,
           ExecutePartialSell, PartialSellSettled, PartialSellExhausted,
           TakePartialSell, Tick
  <2>4. \A k \in positions' : k \in positions \/ (k \in Key /\ buysInFlight[k] > 0)
    BY DEF Next, TickStep, vars, UpdatePool, InitiateBuyRejected,
           InitiateBuyAdmitted, QuarantineExpires, ClearPendingMint, ExecuteBuy,
           AbandonPosition, RemovePositions, SetPaused, ApplyConfigPatch,
           BuyCompleted, BuyReturns, BuyUnavailable, BuyFailed, BuyAborted,
           BuyOpened, ExecuteFullSell, FullSellIgnored, FullSellFailed,
           FullSellDone, TakeFullSell, ExecutePartialSell, PartialSellSettled,
           PartialSellExhausted, TakePartialSell, Tick
  <2>5. CASE pendingMints' \subseteq pendingMints /\ outlived \subseteq outlived'
    <3>1. \A k \in positions' : k[1] \in UniqueOpenMints \cup outlived
      BY <2>4 DEF BuysCovered, UniqueOpenMints
    <3>2. (UniqueOpenMints \ outlived)' \subseteq UniqueOpenMints \ outlived
      BY <3>1, <2>5 DEF UniqueOpenMints
    <3> QED BY <3>2, <2>2
  <2> QED BY <2>1, <2>3, <2>5
<1> QED BY <1>1, <1>2, TypeCorrect, BuysCoveredAlways, PTL DEF Spec

\* pending_wallet_buys holds only keys whose broker.buy is running.
THEOREM WalletBuysRunningAlways == Spec => []WalletBuysRunning
<1>1. Init => WalletBuysRunning
  BY DEF Init, WalletBuysRunning
<1>2. TypeOK /\ WalletBuysRunning /\ [Next]_vars => WalletBuysRunning'
  <2> SUFFICES ASSUME TypeOK, WalletBuysRunning, [Next]_vars PROVE WalletBuysRunning'
    OBVIOUS
  <2> USE DEF posVars, buyVars, sellVars, mintVars, ctlVars
  <2>1. ASSUME NEW m \in Mint, NEW w \in Wallet, ExecuteBuy(m, w)
        PROVE  WalletBuysRunning'
    <3>1. <<m, w>> \in Key
      BY DEF Key
    <3> QED BY <2>1, <3>1 DEF WalletBuysRunning, ExecuteBuy, TypeOK
  <2>2. ASSUME NEW k \in Key, BuyReturns(k) PROVE WalletBuysRunning'
    BY <2>2 DEF WalletBuysRunning, BuyReturns, TypeOK
  <2>3. CASE UNCHANGED <<pendingWalletBuys, buysInFlight>>
    BY <2>3 DEF WalletBuysRunning
  <2> QED
    BY <2>1, <2>2, <2>3
       DEF Next, TickStep, vars, UpdatePool, InitiateBuyRejected, InitiateBuyAdmitted,
           QuarantineExpires, ClearPendingMint, AbandonPosition, SetPaused,
           ApplyConfigPatch, BuyCompleted, BuyUnavailable, BuyFailed, BuyAborted,
           BuyOpened, ExecuteFullSell, FullSellIgnored, FullSellFailed, FullSellDone,
           TakeFullSell, ExecutePartialSell, PartialSellSettled,
           PartialSellExhausted, TakePartialSell, Tick
<1> QED BY <1>1, <1>2, TypeCorrect, PTL DEF Spec

\* How one step may change rows, closed mints and quarantine: rows of a mint leave
\* the map only with the mint closed or another row of it left, closed_mints only
\* grows, and a mint enters the quarantine only in a step that leaves it closed or
\* still held.
LEMMA MintStep ==
    ASSUME TypeOK, [Next]_vars
    PROVE  /\ closedMints \subseteq closedMints'
           /\ \A m \in Mint : HasPosition(m, positions) =>
                  HasPosition(m, positions') \/ m \in closedMints'
           /\ \A m \in quarantine' \ quarantine :
                  HasPosition(m, positions') \/ m \in closedMints'
<1> USE DEF posVars, buyVars, sellVars, mintVars, ctlVars
<1>1. ASSUME NEW m \in Mint, NEW ws \in SUBSET Wallet, AbandonPosition(m, ws)
      PROVE  /\ closedMints \subseteq closedMints'
             /\ quarantine' = quarantine
             /\ \A n \in Mint : HasPosition(n, positions) =>
                    HasPosition(n, positions') \/ n \in closedMints'
  <2> DEFINE gone == positions \cap ({m} \X ws)
  <2>1. positions' = positions \ gone /\ MaybeFinalizeClosedMint(m, positions \ gone)
    BY <1>1 DEF AbandonPosition, RemovePositions
  <2>2. HasPosition(m, positions') \/ m \in closedMints'
    BY <2>1 DEF MaybeFinalizeClosedMint
  <2>3. \A n \in Mint : n # m /\ HasPosition(n, positions) => HasPosition(n, positions')
    BY <2>1 DEF HasPosition
  <2> QED BY <1>1, <2>1, <2>2, <2>3 DEF AbandonPosition, MaybeFinalizeClosedMint
<1>2. ASSUME NEW k \in Key, FullSellDone(k)
      PROVE  /\ closedMints \subseteq closedMints'
             /\ quarantine' \subseteq quarantine \cup {k[1]}
             /\ HasPosition(k[1], positions') \/ k[1] \in closedMints'
             /\ \A n \in Mint : HasPosition(n, positions) =>
                    HasPosition(n, positions') \/ n \in closedMints'
  <2>1. positions' = positions \ {k} /\ MaybeFinalizeClosedMint(k[1], positions \ {k})
    BY <1>2 DEF FullSellDone, RemovePositions
  <2>2. HasPosition(k[1], positions') \/ k[1] \in closedMints'
    BY <2>1 DEF MaybeFinalizeClosedMint
  <2>3. \A n \in Mint : n # k[1] /\ HasPosition(n, positions) => HasPosition(n, positions')
    BY <2>1 DEF HasPosition
  <2> QED BY <1>2, <2>1, <2>2, <2>3 DEF FullSellDone, MaybeFinalizeClosedMint
<1>3. CASE closedMints \subseteq closedMints' /\ positions \subseteq positions'
           /\ quarantine' \subseteq quarantine
  BY <1>3 DEF HasPosition
<1> QED
  BY <1>1, <1>2, <1>3
     DEF Next, TickStep, vars, UpdatePool, InitiateBuyRejected, InitiateBuyAdmitted,
         QuarantineExpires, ClearPendingMint, ExecuteBuy, SetPaused,
         ApplyConfigPatch, BuyCompleted, BuyReturns, BuyUnavailable, BuyFailed,
         BuyAborted, BuyOpened, ExecuteFullSell, FullSellIgnored, FullSellFailed,
         TakeFullSell, ExecutePartialSell, PartialSellSettled,
         PartialSellExhausted, TakePartialSell, Tick

\* The quarantine check of InitiateBuy is subsumed by the other two re-entry guards.
THEOREM QuarantineSubsumedAlways == Spec => []QuarantineSubsumed
<1>1. Init => QuarantineSubsumed
  BY DEF Init, QuarantineSubsumed
<1>2. TypeOK /\ QuarantineSubsumed /\ [Next]_vars => QuarantineSubsumed'
  <2> SUFFICES ASSUME TypeOK, QuarantineSubsumed, [Next]_vars,
                      NEW m \in quarantine'
               PROVE  m \in closedMints' \/ HasPosition(m, positions')
    BY DEF QuarantineSubsumed
  <2>1. CASE m \in quarantine
    BY <2>1, MintStep DEF QuarantineSubsumed, TypeOK
  <2>2. CASE m \notin quarantine
    BY <2>2, MintStep
  <2> QED BY <2>1, <2>2
<1> QED BY <1>1, <1>2, TypeCorrect, PTL DEF Spec

\* The step that removes the last position of a mint closes the mint.
THEOREM LastExitClosesMintAlways == Spec => LastExitClosesMint
<1>1. TypeOK /\ [Next]_vars =>
        [\A m \in Mint : HasPosition(m, positions) /\ ~HasPosition(m, positions')
                         => m \in closedMints']_vars
  BY MintStep
<1> QED BY <1>1, TypeCorrect, PTL DEF Spec, LastExitClosesMint

\* A closed mint with nothing in flight is never entered again: the guard on
\* closed_mints keeps new fan-outs away, and the old one is over because the mint
\* is no longer pending.
THEOREM DrainedStaysDrainedAlways == Spec => DrainedStaysDrained
<1>1. ASSUME TypeOK, PendingCoversFanout, [Next]_vars, NEW m \in Mint, Drained(m)
      PROVE  Drained(m)'
  <2> USE DEF posVars, buyVars, sellVars, mintVars, ctlVars
  <2>1. /\ m \in closedMints /\ m \notin pendingMints /\ fanout[m] = {}
        /\ \A w \in Wallet : <<m, w>> \notin positions /\ buysInFlight[<<m, w>>] = 0
    BY <1>1 DEF Drained, PendingCoversFanout, HasPosition
  <2>2. m \in closedMints'
    BY <1>1, <2>1, MintStep
  <2>3. m \notin pendingMints'
    BY <1>1, <2>1
       DEF Next, TickStep, vars, UpdatePool, InitiateBuyRejected, InitiateBuyAdmitted,
           SignalRejected, QuarantineExpires, ClearPendingMint, ExecuteBuy,
           AbandonPosition, SetPaused, ApplyConfigPatch, BuyCompleted, BuyReturns,
           BuyUnavailable, BuyFailed, BuyAborted, BuyOpened, ExecuteFullSell,
           FullSellIgnored, FullSellFailed, FullSellDone, TakeFullSell,
           ExecutePartialSell, PartialSellSettled, PartialSellExhausted,
           TakePartialSell, Tick
  <2>4. \A w \in Wallet : buysInFlight'[<<m, w>>] = 0
    <3>1. ASSUME NEW n \in Mint, NEW v \in Wallet, ExecuteBuy(n, v)
          PROVE  \A w \in Wallet : buysInFlight'[<<m, w>>] = 0
      <4>1. n # m
        BY <2>1, <3>1 DEF ExecuteBuy
      <4> QED BY <2>1, <3>1, <4>1 DEF ExecuteBuy, TypeOK, Key
    <3>2. ASSUME NEW k \in Key, BuyReturns(k)
          PROVE  \A w \in Wallet : buysInFlight'[<<m, w>>] = 0
      BY <2>1, <3>2 DEF BuyReturns, TypeOK, Key
    <3> QED
      BY <1>1, <2>1, <3>1, <3>2
         DEF Next, TickStep, vars, UpdatePool, InitiateBuyRejected,
             InitiateBuyAdmitted, QuarantineExpires, ClearPendingMint,
             AbandonPosition, SetPaused, ApplyConfigPatch, BuyCompleted,
             BuyUnavailable, BuyFailed, BuyAborted, BuyOpened, ExecuteFullSell,
             FullSellIgnored, FullSellFailed, FullSellDone, TakeFullSell,
             ExecutePartialSell, PartialSellSettled, PartialSellExhausted,
             TakePartialSell, Tick
  <2>5. ~HasPosition(m, positions')
    <3>1. \A k \in positions' : k \in positions \/ (k \in Key /\ buysInFlight[k] > 0)
      BY <1>1
         DEF Next, TickStep, vars, UpdatePool, InitiateBuyRejected,
             InitiateBuyAdmitted, QuarantineExpires, ClearPendingMint, ExecuteBuy,
             AbandonPosition, RemovePositions, SetPaused, ApplyConfigPatch,
             BuyCompleted, BuyReturns, BuyUnavailable, BuyFailed, BuyAborted,
             BuyOpened, ExecuteFullSell, FullSellIgnored, FullSellFailed,
             FullSellDone, TakeFullSell, ExecutePartialSell, PartialSellSettled,
             PartialSellExhausted, TakePartialSell, Tick
    <3>2. \A k \in Key : k[1] = m => \E w \in Wallet : k = <<m, w>>
      BY DEF Key
    <3>3. \A k \in Key : k[1] = m => k \notin positions /\ ~(buysInFlight[k] > 0)
      BY <2>1, <3>2
    <3> QED BY <3>1, <3>3, <1>1 DEF HasPosition, TypeOK
  <2> QED BY <2>2, <2>3, <2>4, <2>5 DEF Drained
<1>2. TypeOK /\ PendingCoversFanout /\ [Next]_vars =>
        [\A m \in Mint : Drained(m) => Drained(m)']_vars
  BY <1>1
<1> QED BY <1>2, TypeCorrect, PendingCoversFanoutAlways, PTL DEF Spec, DrainedStaysDrained

\* While paused, no step starts a broker.buy.
THEOREM PauseStartsNoBuyAlways == Spec => PauseStartsNoBuy
<1>1. ASSUME TypeOK, [Next]_vars, paused, NEW k \in Key
      PROVE  buysInFlight'[k] <= buysInFlight[k]
  <2> USE DEF posVars, buyVars, sellVars, mintVars, ctlVars
  <2>1. buysInFlight[k] \in Nat
    BY <1>1 DEF TypeOK
  <2>2. ASSUME NEW m \in Mint, NEW w \in Wallet, ExecuteBuy(m, w)
        PROVE  buysInFlight' = buysInFlight
    BY <1>1, <2>2 DEF ExecuteBuy
  <2>3. ASSUME NEW j \in Key, BuyReturns(j)
        PROVE  buysInFlight'[k] <= buysInFlight[k]
    BY <1>1, <2>1, <2>3 DEF BuyReturns, TypeOK
  <2>4. \/ buysInFlight' = buysInFlight
        \/ \E m \in Mint, w \in Wallet : ExecuteBuy(m, w)
        \/ \E j \in Key : BuyReturns(j)
    BY <1>1
       DEF Next, TickStep, vars, UpdatePool, InitiateBuyRejected, InitiateBuyAdmitted,
           QuarantineExpires, ClearPendingMint, AbandonPosition, SetPaused,
           ApplyConfigPatch, BuyCompleted, BuyUnavailable, BuyFailed, BuyAborted,
           BuyOpened, ExecuteFullSell, FullSellIgnored, FullSellFailed, FullSellDone,
           TakeFullSell, ExecutePartialSell, PartialSellSettled,
           PartialSellExhausted, TakePartialSell, Tick
  <2> QED BY <2>1, <2>2, <2>3, <2>4
<1>2. TypeOK /\ [Next]_vars =>
        [paused => \A k \in Key : buysInFlight'[k] <= buysInFlight[k]]_vars
  BY <1>1
<1> QED BY <1>2, TypeCorrect, PTL DEF Spec, PauseStartsNoBuy

-----------------------------------------------------------------------------
(***************************************************************************)
(* With one signal per mint a key goes through its stages once: waiting    *)
(* for its ExecuteBuy, buying, held.  FillsTracked alone is not inductive: *)
(* that BuyOpened never overwrites a row rests on the stages excluding     *)
(* each other, and that on no second fan-out starting after the first.     *)
(***************************************************************************)
SingleTrip(m, w) ==
    LET k == <<m, w>>
    IN  /\ signals[m] <= 1
        /\ signals[m] = 0 => w \notin fanout[m] /\ k \notin positions /\ buysInFlight[k] = 0
        /\ w \in fanout[m] => k \notin positions /\ buysInFlight[k] = 0
        /\ k \in positions => buysInFlight[k] = 0
        /\ buysInFlight[k] <= 1
        /\ lots[k] = IF k \in positions THEN 1 ELSE 0

SingleTripInv == \A m \in Mint, w \in Wallet : SingleTrip(m, w)

\* No step leaves a key in two stages at once when each mint is signalled once.
LEMMA SingleTripStep ==
    ASSUME MaxSignals = 1, TypeOK, SingleTripInv, [Next]_vars
    PROVE  SingleTripInv'
<1> SUFFICES ASSUME NEW m \in Mint, NEW w \in Wallet PROVE SingleTrip(m, w)'
  BY DEF SingleTripInv
<1> DEFINE k == <<m, w>>
<1>1. SingleTrip(m, w) /\ k \in Key
  BY DEF SingleTripInv, Key
<1>2. /\ signals[m] \in Nat /\ buysInFlight[k] \in Nat /\ lots[k] \in Nat
  BY <1>1 DEF TypeOK
<1> USE DEF posVars, buyVars, sellVars, mintVars, ctlVars
<1>3. ASSUME NEW n \in Mint, InitiateBuyRejected(n) \/ InitiateBuyAdmitted(n)
      PROVE  SingleTrip(m, w)'
  <2>1. CASE n = m
    <3>1. signals[m] = 0 /\ signals'[m] = 1
      BY <1>2, <1>3, <2>1 DEF InitiateBuyRejected, InitiateBuyAdmitted, TypeOK
    <3> QED BY <1>1, <1>3, <3>1 DEF SingleTrip, InitiateBuyRejected, InitiateBuyAdmitted
  <2>2. CASE n # m
    <3>1. signals'[m] = signals[m] /\ fanout'[m] = fanout[m]
      BY <1>3, <2>2 DEF InitiateBuyRejected, InitiateBuyAdmitted, TypeOK
    <3> QED BY <1>1, <1>3, <3>1 DEF SingleTrip, InitiateBuyRejected, InitiateBuyAdmitted
  <2> QED BY <2>1, <2>2
<1>4. ASSUME NEW n \in Mint, NEW ws \in SUBSET Wallet, AbandonPosition(n, ws)
      PROVE  SingleTrip(m, w)'
  BY <1>1, <1>2, <1>4 DEF SingleTrip, AbandonPosition, RemovePositions
<1>5. ASSUME NEW n \in Mint, NEW v \in Wallet, ExecuteBuy(n, v)
      PROVE  SingleTrip(m, w)'
  <2>1. CASE n = m /\ v = w
    <3>1. w \in fanout[m] /\ w \notin fanout'[m] /\ signals' = signals
      BY <1>5, <2>1 DEF ExecuteBuy, TypeOK
    <3>2. buysInFlight'[k] <= 1 /\ positions' = positions /\ lots' = lots
      BY <1>1, <1>5, <2>1, <3>1 DEF ExecuteBuy, TypeOK, SingleTrip
    <3> QED BY <1>1, <1>2, <3>1, <3>2 DEF SingleTrip
  <2>2. CASE ~(n = m /\ v = w)
    <3>1. /\ w \in fanout'[m] <=> w \in fanout[m]
          /\ buysInFlight'[k] = buysInFlight[k]
      BY <1>1, <1>5, <2>2 DEF ExecuteBuy, TypeOK, Key
    <3> QED BY <1>1, <1>5, <3>1 DEF SingleTrip, ExecuteBuy
  <2> QED BY <2>1, <2>2
<1>6. ASSUME NEW j \in Key, BuyCompleted(j) PROVE SingleTrip(m, w)'
  <2>1. /\ fanout' = fanout /\ signals' = signals
        /\ buysInFlight[j] > 0
        /\ buysInFlight' = [buysInFlight EXCEPT ![j] = @ - 1]
    BY <1>6 DEF BuyCompleted, BuyUnavailable, BuyFailed, BuyAborted, BuyOpened, BuyReturns
  <2>2. CASE j # k
    <3>1. buysInFlight'[k] = buysInFlight[k] /\ lots'[k] = lots[k]
          /\ (k \in positions' <=> k \in positions)
      BY <1>1, <1>6, <2>1, <2>2
         DEF TypeOK, BuyCompleted, BuyUnavailable, BuyFailed, BuyAborted, BuyOpened
    <3> QED BY <1>1, <2>1, <3>1 DEF SingleTrip
  <2>3. CASE j = k
    <3>1. /\ buysInFlight[k] = 1 /\ buysInFlight'[k] = 0
          /\ k \notin positions /\ lots[k] = 0 /\ w \notin fanout[m] /\ signals[m] = 1
      BY <1>1, <1>2, <2>1, <2>3 DEF SingleTrip, TypeOK
    <3>2. lots'[k] = IF k \in positions' THEN 1 ELSE 0
      BY <1>1, <1>6, <2>3, <3>1
         DEF TypeOK, BuyCompleted, BuyUnavailable, BuyFailed, BuyAborted, BuyOpened
    <3> QED BY <2>1, <3>1, <3>2 DEF SingleTrip
  <2> QED BY <2>2, <2>3
<1>7. ASSUME NEW j \in Key, FullSellDone(j) PROVE SingleTrip(m, w)'
  BY <1>1, <1>2, <1>7 DEF SingleTrip, FullSellDone, TakeFullSell, RemovePositions
<1>8. CASE UNCHANGED <<signals, fanout, positions, buysInFlight, lots>>
  BY <1>1, <1>8 DEF SingleTrip
<1> QED
  BY <1>3, <1>4, <1>5, <1>6, <1>7, <1>8
     DEF Next, TickStep, vars, UpdatePool, QuarantineExpires, ClearPendingMint,
         SetPaused, ApplyConfigPatch, ExecuteFullSell, FullSellIgnored,
         FullSellFailed, TakeFullSell, ExecutePartialSell, PartialSellSettled,
         PartialSellExhausted, TakePartialSell, Tick

\* With one signal per mint, no key is ever in two stages at once.
THEOREM SingleTripAlways ==
    ASSUME MaxSignals = 1
    PROVE  Spec => []SingleTripInv
<1>1. Init => SingleTripInv
  BY DEF Init, SingleTripInv, SingleTrip, Key
<1>2. TypeOK /\ SingleTripInv /\ [Next]_vars => SingleTripInv'
  BY SingleTripStep
<1> QED BY <1>1, <1>2, TypeCorrect, PTL DEF Spec

\* With one signal per mint, every unsold fill is the one its row manages.
THEOREM FillsTrackedAlways == Spec => []FillsTracked
<1>1. CASE MaxSignals = 1
  <2>1. SingleTripInv => FillsTracked
    <3> SUFFICES ASSUME SingleTripInv, NEW k \in Key
                 PROVE  lots[k] = IF k \in positions THEN 1 ELSE 0
      BY DEF FillsTracked
    <3>1. PICK m \in Mint, w \in Wallet : k = <<m, w>>
      BY DEF Key
    <3> QED BY <3>1 DEF SingleTripInv, SingleTrip
  <2>2. Spec => []SingleTripInv
    BY <1>1, SingleTripAlways
  <2> QED BY <2>1, <2>2, PTL
<1>2. CASE MaxSignals # 1
  <2>1. FillsTracked
    BY <1>2 DEF FillsTracked
  <2> QED BY <2>1, PTL
<1> QED BY <1>1, <1>2

-----------------------------------------------------------------------------
(***************************************************************************)
(* The refinement of PositionLifecycle.                                    *)
(***************************************************************************)

\* One step of the actor moves every row by at most one move of the lifecycle.
LEMMA RowStep ==
    ASSUME MaxSignals = 1, TypeOK, SingleTripInv, SingleTripInv', TypeOK', [Next]_vars,
           NEW k \in Key
    PROVE  \/ PhaseOf(k)' = PhaseOf(k)
           \/ /\ <<PhaseOf(k), PhaseOf(k)'>> \in Lifecycle!Moves
              /\ PhaseOf(k)' = "buying" => k \in spentBar' \ spentBar
<1> USE DEF posVars, buyVars, sellVars, mintVars, ctlVars
<1>0. PICK m \in Mint, w \in Wallet : k = <<m, w>>
  BY DEF Key
<1>1. /\ SingleTrip(m, w) /\ SingleTrip(m, w)'
      /\ k[1] = m /\ k[2] = w
      /\ buysInFlight[k] \in Nat /\ buysInFlight'[k] \in Nat /\ signals[m] \in Nat
  BY <1>0 DEF SingleTripInv, TypeOK
<1>3. CASE k \in positions
  <2>1. buysInFlight[k] = 0
    BY <1>0, <1>1, <1>3 DEF SingleTrip
  <2>2. buysInFlight'[k] = 0
    <3>1. w \notin fanout[m]
      BY <1>0, <1>1, <1>3 DEF SingleTrip
    <3>2. ASSUME NEW n \in Mint, NEW v \in Wallet, ExecuteBuy(n, v)
          PROVE  buysInFlight'[k] = 0
      <4>1. <<n, v>> # k
        BY <1>0, <3>1, <3>2 DEF ExecuteBuy
      <4> QED BY <2>1, <3>2, <4>1 DEF ExecuteBuy, TypeOK
    <3>3. ASSUME NEW j \in Key, BuyReturns(j) PROVE buysInFlight'[k] = 0
      <4>1. j # k
        BY <2>1, <3>3 DEF BuyReturns
      <4> QED BY <2>1, <3>3, <4>1 DEF BuyReturns, TypeOK
    <3> QED
      BY <2>1, <3>2, <3>3
         DEF Next, TickStep, vars, UpdatePool, InitiateBuyRejected,
             InitiateBuyAdmitted, QuarantineExpires, ClearPendingMint,
             AbandonPosition, SetPaused, ApplyConfigPatch, BuyCompleted,
             BuyUnavailable, BuyFailed, BuyAborted, BuyOpened, ExecuteFullSell,
             FullSellIgnored, FullSellFailed, FullSellDone, TakeFullSell,
             ExecutePartialSell, PartialSellSettled, PartialSellExhausted,
             TakePartialSell, Tick
  <2>3. PhaseOf(k) \in {"held", "exiting"} /\ PhaseOf(k)' \in {"held", "exiting", "flat"}
    BY <1>3, <2>2 DEF PhaseOf
  <2> QED BY <2>3 DEF Lifecycle!Moves
<1>4. CASE k \notin positions /\ buysInFlight[k] > 0
  <2>1. k \notin isClosing'
    BY <1>4
       DEF TypeOK, Next, TickStep, vars, UpdatePool, InitiateBuyRejected,
           InitiateBuyAdmitted, QuarantineExpires, ClearPendingMint, ExecuteBuy,
           AbandonPosition, RemovePositions, SetPaused, ApplyConfigPatch,
           BuyCompleted, BuyReturns, BuyUnavailable, BuyFailed, BuyAborted,
           BuyOpened, ExecuteFullSell, FullSellIgnored, FullSellFailed,
           FullSellDone, TakeFullSell, ExecutePartialSell, PartialSellSettled,
           PartialSellExhausted, TakePartialSell, Tick, Managed
  <2>2. PhaseOf(k) = "buying" /\ PhaseOf(k)' \in {"buying", "held", "flat"}
    BY <1>4, <2>1 DEF PhaseOf
  <2> QED BY <2>2 DEF Lifecycle!Moves
<1>5. CASE k \notin positions /\ buysInFlight[k] = 0
  <2>1. ASSUME NEW n \in Mint, NEW v \in Wallet, ExecuteBuy(n, v), <<n, v>> = k
        PROVE  /\ PhaseOf(k)' \in {"flat", "buying"}
               /\ k \in spentBar' \ spentBar
    <3>1. n = m /\ v = w
      BY <1>0, <2>1
    <3>2. w \in fanout[m] /\ w \notin fanout'[m] /\ signals'[m] = signals[m]
          /\ positions' = positions
      BY <2>1, <3>1 DEF ExecuteBuy, TypeOK
    <3>3. signals[m] > 0
      BY <1>1, <3>2 DEF SingleTrip
    <3> QED BY <1>1, <1>5, <3>2, <3>3 DEF PhaseOf, spentBar
  <2>2. ASSUME NEW n \in Mint, NEW v \in Wallet, ExecuteBuy(n, v), <<n, v>> # k
        PROVE  PhaseOf(k)' = "flat"
    <3>1. buysInFlight'[k] = 0 /\ positions' = positions
      BY <1>5, <2>2 DEF ExecuteBuy, TypeOK
    <3> QED BY <1>5, <3>1 DEF PhaseOf
  <2>3. ASSUME NEW j \in Key, BuyCompleted(j) PROVE PhaseOf(k)' = "flat"
    <3>1. BuyReturns(j) /\ positions' \subseteq positions \cup {j}
      BY <2>3 DEF BuyCompleted, BuyUnavailable, BuyFailed, BuyAborted, BuyOpened
    <3>2. j # k
      BY <1>5, <3>1 DEF BuyReturns
    <3>3. buysInFlight'[k] = 0 /\ k \notin positions'
      BY <1>5, <3>1, <3>2 DEF BuyReturns, TypeOK
    <3> QED BY <3>3 DEF PhaseOf
  <2>4. CASE buysInFlight' = buysInFlight /\ positions' \subseteq positions
    <3>1. PhaseOf(k)' = "flat"
      BY <1>5, <2>4 DEF PhaseOf
    <3> QED BY <1>5, <3>1 DEF PhaseOf
  <2>5. PhaseOf(k) = "flat"
    BY <1>5 DEF PhaseOf
  <2>6. \/ buysInFlight' = buysInFlight /\ positions' \subseteq positions
        \/ \E n \in Mint, v \in Wallet : ExecuteBuy(n, v)
        \/ \E j \in Key : BuyCompleted(j)
    BY DEF Next, TickStep, vars, UpdatePool, InitiateBuyRejected,
           InitiateBuyAdmitted, QuarantineExpires, ClearPendingMint,
           AbandonPosition, RemovePositions, SetPaused, ApplyConfigPatch,
           ExecuteFullSell, FullSellIgnored, FullSellFailed, FullSellDone,
           TakeFullSell, ExecutePartialSell, PartialSellSettled,
           PartialSellExhausted, TakePartialSell, Tick
  <2> QED BY <2>1, <2>2, <2>3, <2>4, <2>5, <2>6 DEF Lifecycle!Moves
<1> QED BY <1>1, <1>3, <1>4, <1>5

\* A spent row stays spent: a second fan-out would need a second signal.
LEMMA SpentGrows ==
    ASSUME MaxSignals = 1, TypeOK, [Next]_vars
    PROVE  spentBar \subseteq spentBar'
<1> USE DEF posVars, buyVars, sellVars, mintVars, ctlVars
<1> SUFFICES ASSUME NEW m \in Mint, signals[m] > 0
             PROVE  signals'[m] > 0 /\ fanout'[m] \subseteq fanout[m]
  BY DEF spentBar, Key
<1>0. signals[m] \in Nat
  BY DEF TypeOK
<1>1. ASSUME NEW n \in Mint, InitiateBuyRejected(n) \/ InitiateBuyAdmitted(n)
      PROVE  signals'[m] > 0 /\ fanout'[m] \subseteq fanout[m]
  <2>1. n # m
    BY <1>0, <1>1 DEF InitiateBuyRejected, InitiateBuyAdmitted
  <2> QED BY <1>1, <2>1 DEF InitiateBuyRejected, InitiateBuyAdmitted, TypeOK
<1>2. ASSUME NEW n \in Mint, NEW v \in Wallet, ExecuteBuy(n, v)
      PROVE  signals'[m] > 0 /\ fanout'[m] \subseteq fanout[m]
  BY <1>2 DEF ExecuteBuy, TypeOK
<1>3. CASE UNCHANGED <<signals, fanout>>
  BY <1>3
<1> QED
  BY <1>1, <1>2, <1>3
     DEF Next, TickStep, vars, UpdatePool, QuarantineExpires, ClearPendingMint,
         AbandonPosition, SetPaused, ApplyConfigPatch, BuyCompleted, BuyReturns,
         BuyUnavailable, BuyFailed, BuyAborted, BuyOpened, ExecuteFullSell,
         FullSellIgnored, FullSellFailed, FullSellDone, TakeFullSell,
         ExecutePartialSell, PartialSellSettled, PartialSellExhausted,
         TakePartialSell, Tick

\* The actor, given at most one signal per mint, implements the lifecycle: a row is
\* bought at most once and is never bought again after its sale.
THEOREM Refinement ==
    ASSUME MaxSignals = 1
    PROVE  Spec => ImplementsLifecycle
<1>1. Init => Lifecycle!Init
  <2> SUFFICES ASSUME Init PROVE Lifecycle!Init
    OBVIOUS
  <2>1. \A k \in Key : PhaseOf(k) = "flat"
    BY DEF Init, PhaseOf
  <2>2. \A k \in Key : ~(signals[k[1]] > 0)
    BY DEF Init, Key
  <2> QED BY <2>1, <2>2 DEF Lifecycle!Init, phaseBar, spentBar
<1>2. TypeOK /\ TypeOK' /\ SingleTripInv /\ SingleTripInv' /\ [Next]_vars
        => [Lifecycle!Next]_<<phaseBar, spentBar>>
  <2> SUFFICES ASSUME TypeOK, TypeOK', SingleTripInv, SingleTripInv', [Next]_vars
               PROVE  Lifecycle!Next
    OBVIOUS
  <2>1. \A k \in Key : phaseBar[k] = PhaseOf(k) /\ phaseBar'[k] = PhaseOf(k)'
    BY DEF phaseBar
  <2>2. phaseBar' \in [Key -> Lifecycle!Phase]
    BY DEF phaseBar, PhaseOf, Lifecycle!Phase
  <2>3. spentBar \subseteq spentBar' /\ spentBar' \subseteq Key
    BY SpentGrows DEF spentBar
  <2>4. ASSUME NEW k \in Key
        PROVE  \/ phaseBar'[k] = phaseBar[k]
               \/ /\ <<phaseBar[k], phaseBar'[k]>> \in Lifecycle!Moves
                  /\ phaseBar'[k] = "buying" => k \in spentBar' \ spentBar
    BY <2>1, RowStep
  <2> QED BY <2>2, <2>3, <2>4 DEF Lifecycle!Next
<1>3. Spec => []SingleTripInv
  BY SingleTripAlways
<1> QED BY <1>1, <1>2, <1>3, TypeCorrect, PTL DEF Spec, ImplementsLifecycle, Lifecycle!Spec
=============================================================================
