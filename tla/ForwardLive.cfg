CONSTANTS
    c1 = c1
    c2 = c2
    NoCand = NoCand
    Cand <- OneCand
    MaxQty = 2
    EntryQty = {1, 2}
    Env = {"crash", "protect"}
SPECIFICATION FairSpec
PROPERTIES OverdueSold
