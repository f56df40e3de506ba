CONSTANTS
    a = a
    b = b
    Symbol = {a, b}
    Known = {a}
    Lists = {{a}, {a, b}}
    Printed <- Everything
    Closed = {}
    Delay = 2
    First = 1
    Until = 4
    Chunk = 2
    Percent = 60
    Attempts = 2
    Overlap = 1
    Seed = 1
    Start = 4
    LastDay = 7
    Env = {"provider", "raise", "lost", "crash"}
    MaxFaults = 2
SPECIFICATION Spec
PROPERTIES GivenUpIsRecorded
