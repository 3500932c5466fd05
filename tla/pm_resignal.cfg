SPECIFICATION FairSpec
CONSTANTS
    Mint = {m1}
    Wallet = {w1}
    Trigger = {t1, t2}
    MaxOpen = 1
    MaxSignals = 3
INVARIANT FlagsBacked
PROPERTY DrainedStaysDrained
PROPERTY FlagsResolve
PROPERTY PendingClears
