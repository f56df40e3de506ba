CONSTANTS
    r1 = r1
    r2 = r2
    packet = packet
    Run = {r1}
    Packet = {packet}
    Estimate <- TwoUnits
    Usage <- WithinEstimate
    Ceiling = 2
    Excess = 0
    Cap = 3
    Calls = 2
    LastMonth = 1
    Breaches = 1
SPECIFICATION Spec
INVARIANTS NothingBilled
