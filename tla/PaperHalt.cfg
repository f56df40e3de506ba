CONSTANTS
    i1 = i1
    i2 = i2
    Instr <- OneInstr
    Candle <- Slide
    Units = {2}
    LastBar = 4
    BarsPerSession = 3
    FreshFor = 1
    Capital = 20
    Fee = 1
    Slip = 0
    StopDist = 6
    TargetDist = 3
    MaxHold = 3
    MaxOpen = 2
    MaxExposure = 90
    MaxDrawdown = 20
    MaxDailyLoss = 8
SPECIFICATION Spec
INVARIANTS DrawdownHalts
