CONSTANTS
    p1 = p1
    p2 = p2
    l1 = l1
    NoRegime = NoRegime
    Proc <- TwoProc
    Level <- OneLevel
    Regime = {"up", "down"}
    RegimeCooldown = 2
    LevelCooldown = 1
    HoldPasses = 2
    BurstThreshold = 1
    RecoveryThreshold = 2
    Retain = 2
    LastDay = 2
    Mode = {"events"}
    Env = {"overlap"}
SPECIFICATION Spec
CHECK_DEADLOCK FALSE
PROPERTIES PostedOnce
