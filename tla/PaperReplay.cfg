CONSTANTS
    i1 = i1
    i2 = i2
    Instr <- TwoInstr
    Candle <- UpDown
    Units = {0, 1}
    LastBar = 2
    BarsPerSession = 1
    FreshFor = 1
    Capital = 20
    Fee = 1
    Slip = 0
    StopDist = 2
    TargetDist = 3
    MaxHold = 1
    MaxOpen = 2
    MaxExposure = 90
    MaxDrawdown = 20
    MaxDailyLoss = 8
SPECIFICATION Spec
INVARIANTS ReplayIsNoOp
