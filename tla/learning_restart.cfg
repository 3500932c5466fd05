SPECIFICATION Spec
CONSTANTS
    d1 = d1
    w1 = w1
    Devs <- MCDevs
    Wallets <- MCWallets
    Closes <- MCCloses
    OldPatches <- MCOldPatches
    Cooldown = 1
    AnalyzeEvery = 1
    MinTrades = 2
    MaxCloses = 2
    MaxFaults = 1
    MaxTime = 1
CHECK_DEADLOCK FALSE
INVARIANTS OptimizesOnNewTrades
