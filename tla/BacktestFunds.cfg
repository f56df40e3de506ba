CONSTANTS
    Symbols = 2
    Known = {1, 2}
    LastClose = 2
    GridChunk = 2
    Bars <- Every
    Window = 4
    MaxHold = 2
    Profiles = 1
    Limit <- Lone
    Initial <- Ten
    Share <- Four
    Fee = 0
    Moves <- Swings
SPECIFICATION Spec
INVARIANT CommitsWhatItHas
CHECK_DEADLOCK FALSE
