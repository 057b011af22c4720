SPECIFICATION Spec
CONSTANTS
    v1 = v1
    v2 = v2
    bad = bad
    blank = blank
    t1 = t1
    t2 = t2
    cli = cli
    File = {1, 2}
    Version = {v1, v2, bad, blank}
    Unreadable = {bad}
    Blank = {blank}
    Thread = {t1, t2}
    Tool = {cli}
    Forced = {FALSE, TRUE}
    Edits = FALSE
    Crashes = TRUE
    MaxCopies = 2
    Absent = Absent
    NoEntry = NoEntry
    Torn = Torn
    Nobody = Nobody
SYMMETRY Symmetry
INVARIANTS TypeOK RecordedIsStored RunIndexesAll LockIsTheRuns StoredOnce
