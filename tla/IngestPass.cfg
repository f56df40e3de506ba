CONSTANTS
    a = a
    b = b
    f1 = f1
    f2 = f2
    f3 = f3
    Company = {a, b}
    Filing = {f1, f2, f3}
    Owner <- OwnerOf
    Yields = {f1, f2}
    Docs <- DocsOf
    Unreadable <- NotText
    Holiday = {2}
    Window = 1
    CatchUp = 2
    Backoff <- Delays
    LastDay = 3
    Failing = {"submissions", "document", "evidence", "company", "crash", "index", "sweep"}
    MaxFaults = 2
SPECIFICATION FairSpec
INVARIANTS RecordedIsStored CompleteWasRead
PROPERTIES FinishedStays UnfinishedDrains
