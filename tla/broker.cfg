SPECIFICATION FairSpec
CONSTANTS
    Fill = 2
    Floor = 1
    Quotes = {0, 3}
    MaxTries = 2
    ChunkParts = 2
    MinChunk = 1
    SlipSteps = 1
    MaxLegs = 2
    MaxCalls = 2
    MaxLive = 2
    MaxFaults = 1
INVARIANT TradesOnce
INVARIANT InSync
PROPERTY FullExitEmptied
PROPERTY CallReturns
