CONSTANTS
    Merge = {m1, m2}
    Subject = {s}
    Note = {n1, n2}
    Held = {}
    Spelling = {raw, canon}
    Canon = canon
    Faults = {"ingest", "sync", "raise", "restart"}
    MaxFault = 1
SPECIFICATION FairSpec
INVARIANTS TypeOK MergedIsReread QueuedIsServed
PROPERTIES MergeIsTold ClaimsReturn KeepsPromise
CHECK_DEADLOCK FALSE
