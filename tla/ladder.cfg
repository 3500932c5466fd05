SPECIFICATION Spec
CONSTANTS
    Mcap = {0, 82, 100, 135, 205}
    McapMax = 5000
    Params <- Profiles
    Drawdowns = {40}
    KillWindows = {2, 3}
    MedianTicks = 3
    BandLow = 2
    BandHigh = 5000
    Staircase <- Stairs
    StartFloor <- Floor0
    DecayConfirm = 2
    DecayExtra = 1
    EarlyHold = 2
    EarlyProfit = 9
    ExitGrace = 1
    KillProfit = 10
    SlGrace = 1
    SlConfirm = 2
    CrashPnl <- Crash
    CrashDrop = 30
    Ceiling = 200
    U8Max = 3
    MaxHeld = 2
    MaxFails = 1
INVARIANT TpInOrder
INVARIANT LockEnforced
PROPERTY SlConfirmed
INVARIANT LateGlitchTolerated
