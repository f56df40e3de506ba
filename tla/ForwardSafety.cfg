CONSTANTS
    c1 = c1
    c2 = c2
    NoCand = NoCand
    Cand <- OneCand
    MaxQty = 2
    EntryQty = {2}
    Env = {"crash", "read", "lookup", "cancel", "protect", "belief"}
SPECIFICATION Spec
CHECK_DEADLOCK TRUE
INVARIANTS TypeOK NeverShort RowsNeverAhead
PROPERTIES ImplementsLedger
