CONSTANTS
    a = a
    b = b
    f1 = f1
    f2 = f2
    f3 = f3
    Company = {a, b}
    Filing = {f1, f2}
    Owner <- TwoOwners
    Yields = {f1, f2}
    Docs <- TwoDocs
    Unreadable = {}
    Holiday = {}
    Window = 1
    CatchUp = 2
    Backoff <- Delays
    LastDay = 5
    Failing = {}
    MaxFaults = 0
SPECIFICATION Spec
INVARIANTS NothingSkipped
