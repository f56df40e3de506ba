CONSTANTS
    p1 = p1
    p2 = p2
    l1 = l1
    NoRegime = NoRegime
    Proc <- OneProc
    Level <- OneLevel
    Regime = {"up", "down"}
    RegimeCooldown = 1
    LevelCooldown = 1
    HoldPasses = 1
    BurstThreshold = 1
    RecoveryThreshold = 2
    Retain = 2
    LastDay = 1
    Mode = {"events", "dry", "report", "smoke"}
    Env = {"crash", "fail", "lost"}
SPECIFICATION Spec
CHECK_DEADLOCK FALSE
PROPERTIES CooldownKept FailuresKept SettledNeverSent KeptAccounted
