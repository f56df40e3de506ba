CONSTANTS
    r1 = r1
    r2 = r2
    packet = packet
    Run = {r1}
    Packet = {packet}
    Estimate <- TwoUnits
    Usage <- AboveEstimate
    Ceiling = 2
    Excess = 1
    Cap = 3
    Calls = 2
    LastMonth = 1
    Breaches = 1
SPECIFICATION Spec
INVARIANTS CapHolds
