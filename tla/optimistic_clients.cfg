\* One key, two clients that guard their writes by version, others that need not.
SPECIFICATION OptSpec
CONSTANTS
    Keys = {k1}
    Clients = {c1, c2}
    Texts = {t1}
    t1 = t1
    Elems = {}
    REDIS_STRING = REDIS_STRING
    REDIS_SET = REDIS_SET
    Absent = Absent
    NoTTL = NoTTL
    Nil = Nil
    NotInteger = NotInteger
    VersionMax = 2
    ClockMax = 2
    SizeMax = 15
    IntMax = 1
    SetMax = 1
    StartTime = 2
    MaxTime = 3
    Values <- OneText
    ExpireArgs <- DurationOrNotInteger
    IncrArgs <- NoIncr
    Versions <- AllVersions
    CareModes <- BothCare
    ExpireTimes <- DropTTL
SYMMETRY ClientSymmetry
VIEW ClientsView
INVARIANT VersionsCountWrites
PROPERTY NoLostUpdate
