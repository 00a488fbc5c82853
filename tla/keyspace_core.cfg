\* Two keys: clears, deadlines, and every way a key goes.
SPECIFICATION Spec
CONSTANTS
    Keys = {k1, k2}
    Texts = {t1}
    t1 = t1
    Elems = {e1, e2}
    REDIS_STRING = REDIS_STRING
    REDIS_SET = REDIS_SET
    Absent = Absent
    NoTTL = NoTTL
    Nil = Nil
    NotInteger = NotInteger
    VersionMax = 1
    ClockMax = 3
    SizeMax = 15
    IntMax = 1
    SetMax = 1
    StartTime = 2
    MaxTime = 3
    Values <- TwoValues
    ExpireArgs <- AllExpires
    IncrArgs <- NoIncr
    Versions <- NoVersion
    CareModes <- PlainCare
    ExpireTimes <- DropOrSetTTL
SYMMETRY KeySymmetry
VIEW DatabaseView
INVARIANTS
    TypeOK
    DeadlinesHaveKeys
    StaleCovered
    SetsWithinBounds
PROPERTY ClearedStaysCleared
