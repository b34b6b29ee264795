CONSTANTS
    Merge = {p1, p2}
    Subject = {s}
    Verdict = {v}
    NoMerge = NoMerge
    Note = {n}
    Held = {}
    Spelling = {raw, canon}
    Canon = canon
    Faults = {"ingest", "sync", "raise", "restart"}
    MaxFault = 1
SPECIFICATION CardFairSpec
INVARIANTS   MergedRowIsReread
PROPERTIES PendingEnds
CHECK_DEADLOCK FALSE
