SPECIFICATION Spec
CONSTANTS
    Configs <- MCConfigs
    Devs <- MCDevs
    Launches <- MCLaunches
    PollSteps <- MCPollSteps
    SpamCap = 2
    Caps = {0, 3}
    MaxLaunches = 2
    Patches <- MCPatches
INVARIANTS LaneLaw SecondLookBlind NoPeakReprieve
CHECK_DEADLOCK FALSE
