SPECIFICATION FairSpec
CONSTANTS
    d1 = d1
    w1 = w1
    Devs <- MCDevs
    Wallets <- MCWallets
    Closes <- MCCloses
    OldPatches <- MCOldPatches
    Cooldown = 1
    AnalyzeEvery = 1
    MinTrades = 2
    MaxCloses = 2
    MaxFaults = 2
    MaxTime = 2
CHECK_DEADLOCK FALSE
INVARIANTS BansAccounted LearnedThresholdsSane
PROPERTIES HistoryKept SavedEventually
