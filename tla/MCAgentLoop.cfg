SPECIFICATION FairSpec
CONSTANTS
    t1 = t1
    t2 = t2
    Turns = {t1}
    Fallbacks = 1
    Cooldown = 1
    MaxSteps = 3
    KeepRecent = 1
    Configs <- MCConfigs
    Seeds <- MCSeeds
    MaxLiveOpsNudges = 1
    MaxClaimNudges = 1
    MaxEditNudges = 1
    MaxFixAttempts = 1
    Horizon = 1
INVARIANTS NoDiscardedProse OneVoicePerRound FailedStaysSkipped Accounted TornOnlyAtTheCut
PROPERTY TurnsEnd
CHECK_DEADLOCK FALSE
