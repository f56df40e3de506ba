CONSTANTS
    p1 = p1
    p2 = p2
    l1 = l1
    NoRegime = NoRegime
    Proc <- OneProc
    Level <- OneLevel
    Regime = {"up", "down"}
    RegimeCooldown = 7
    LevelCooldown = 1
    HoldPasses = 3
    BurstThreshold = 1
    RecoveryThreshold = 2
    Retain = 2
    LastDay = 2
    Mode = {"events"}
    Env = {}
SPECIFICATION Spec
CHECK_DEADLOCK FALSE
INVARIANTS HeldForSessions
