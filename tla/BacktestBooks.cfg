CONSTANTS
    Symbols = 3
    Known = {1, 2}
    LastClose = 3
    GridChunk = 2
    Bars <- Stored
    Window = 4
    MaxHold = 3
    Profiles = 2
    Limit <- Limits
    Initial <- Capital
    Share <- Half
    Fee = 0
    Moves <- Swings
SPECIFICATION Spec
INVARIANTS CountsAgree AllOrNothing HeldWithinLimit
PROPERTIES CurveInOrder EquityAccounts
CHECK_DEADLOCK FALSE
