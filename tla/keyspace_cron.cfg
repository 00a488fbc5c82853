\* Two keys under a fair cron: what is to be collected is collected.
SPECIFICATION FairSpec
CONSTANTS
    Keys = {k1, k2}
    Texts = {t1}
    t1 = t1
    Elems = {}
    REDIS_STRING = REDIS_STRING
    REDIS_SET = REDIS_SET
    Absent = Absent
    NoTTL = NoTTL
    Nil = Nil
    NotInteger = NotInteger
    VersionMax = 1
    ClockMax = 2
    SizeMax = 15
    IntMax = 1
    SetMax = 1
    StartTime = 2
    MaxTime = 3
    Values <- OneText
    ExpireArgs <- Duration
    IncrArgs <- NoIncr
    Versions <- NoVersion
    CareModes <- PlainCare
    ExpireTimes <- DropTTL
PROPERTIES
    StaleGoes
    OverdueGoes
