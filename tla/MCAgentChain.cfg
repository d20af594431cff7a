SPECIFICATION Spec
CONSTANTS
    t1 = t1
    t2 = t2
    Turns = {t1, t2}
    Fallbacks = 2
    Cooldown = 1
    MaxSteps = 1
    KeepRecent = 1
    Configs <- ChainConfigs
    Seeds <- OneSeed
    MaxLiveOpsNudges = 0
    MaxClaimNudges = 1
    MaxEditNudges = 1
    MaxFixAttempts = 1
    Horizon = 2
PROPERTY SkippedForCause
CHECK_DEADLOCK FALSE
SYMMETRY AnyOrder
