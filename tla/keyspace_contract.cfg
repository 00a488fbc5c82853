\* Two keys, every command with every kind of argument; replies are checked.
SPECIFICATION Spec
CONSTANTS
    Keys = {k1, k2}
    Texts = {t1}
    t1 = t1
    Elems = {e1}
    REDIS_STRING = REDIS_STRING
    REDIS_SET = REDIS_SET
    Absent = Absent
    NoTTL = NoTTL
    Nil = Nil
    NotInteger = NotInteger
    VersionMax = 1
    ClockMax = 2
    SizeMax = 15
    IntMax = 0
    SetMax = 1
    StartTime = 2
    MaxTime = 3
    Values <- OneText
    ExpireArgs <- NegativeExpires
    IncrArgs <- UpOrNotInteger
    Versions <- AllVersions
    CareModes <- BothCare
    ExpireTimes <- KeepTTL
PROPERTY ImplementsContract
SYMMETRY KeySymmetry
VIEW DatabaseView
