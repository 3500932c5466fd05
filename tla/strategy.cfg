SPECIFICATION Spec
CONSTANTS
    DaySecs = 3
    MaxOpen = 1
    MaxTradesPerDay = 2
    MaxDailyLoss <- LossCap
    ProfitLock = 2
    LossStreakLimit = 2
    LossPauseSecs = 2
    RegimePause = TRUE
    RegimeWindow = 3
    RegimeLossPct = 60
    RegimePauseSecs = 2
    Wallets = 2
    Pnl <- Results
    MaxTime = 6
    MaxCloses = 4
    MaxRows = 3
INVARIANT CountersMatchLedger
INVARIANT DailyBudget
PROPERTY DayLimitsHonoured
PROPERTY LossPauseHonoured
PROPERTY PauseNeverShortened
