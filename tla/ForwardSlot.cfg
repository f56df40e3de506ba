CONSTANTS
    c1 = c1
    c2 = c2
    NoCand = NoCand
    Cand <- OneCand
    MaxQty = 1
    EntryQty = {1}
    Env = {"crash", "read", "lookup", "gate", "reject", "expire", "cancel", "other", "protect", "books"}
SPECIFICATION Spec
PROPERTIES UnfreezeNeedsTwoClean BuysOnlyNewKeys
