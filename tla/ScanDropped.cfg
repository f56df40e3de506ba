CONSTANTS
    p1 = p1
    p2 = p2
    x1 = x1
    x2 = x2
    Proc = {p1}
    Watchlist <- OneSymbol
    Setup = {x1}
    Score = {0, 1, 3}
    Threshold = 1
    StrongAt = 3
    MinChange = 2
    Cooldown = 0
    Lease = 1
    Expiry = 0
    Slot = {1, 2}
    Late = 1
    Pause = 0
    MaxFaults = 1
SPECIFICATION Spec
PROPERTIES DropIsRetried
