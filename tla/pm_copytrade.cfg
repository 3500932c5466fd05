SPECIFICATION Spec
CONSTANTS
    Mint = {m1, m2}
    Wallet = {w1, w2}
    Trigger = {}
    MaxOpen = 1
    MaxSignals = 1
SYMMETRY Symmetry
INVARIANT CapExact
INVARIANT QuarantineSubsumed
INVARIANT FillsTracked
PROPERTY LastExitClosesMint
PROPERTY PauseStartsNoBuy
PROPERTY ImplementsLifecycle
