SPECIFICATION FairSpec
CONSTANTS
    Task = {c1, c2, c3}
    Mint = {m1, m2}
    MaxConcurrent = 2
    MaxPolls = 2
INVARIANT ActiveExact
INVARIANT RunningExact
PROPERTY SlotsReturn
