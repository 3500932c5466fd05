SPECIFICATION Spec
CONSTANTS
    Mint = {m1}
    Wallet = {w1}
    Trigger = {t1}
    MaxOpen = 1
    MaxSignals = 2
INVARIANT NoDuplicateBuy
