SPECIFICATION FairSpec
CONSTANTS
    Mints = {m1, m2, m3}
    Traders = {t1}
    Unsupported = {m2}
    Filtered = {m3}
    JunkSigs = {j1}
    MaxTx = 3
    MaxRedeliver = 1
    DedupCap = 2
    IdleLimit = 1
    ChannelCap = 1
    FlushMaxOps = 2
CHECK_DEADLOCK FALSE
INVARIANTS AppliedOnce HoldingsExact CoinBeforeTrade AccountedFor
PROPERTIES FeedRecovers TasksEnd
