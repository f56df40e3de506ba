CONSTANTS
    c1 = c1
    c2 = c2
    NoCand = NoCand
    Cand <- OneCand
    MaxQty = 2
    EntryQty = {2}
    Env = {"read", "protect"}
SPECIFICATION Spec
INVARIANTS FreezeKeepsProtection
