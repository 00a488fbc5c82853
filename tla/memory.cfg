\* Two databases of two keys each, with and without limits, under each policy.
SPECIFICATION FairSpec
CONSTANTS
    DbCount = 2
    Keys = {k1, k2}
    k1 = k1
    k2 = k2
    KeySize <- MCKeySize
    SizeMax = 6
    ClockMax = 2
    DefaultDbLimit = 1
    DbLimits = {0}
    Configs <- MCConfigs
    Absent = Absent
INVARIANTS
    TypeOK
    CountersAddUp
PROPERTIES
    KeysGoForAReason
    RefusedAtLast
    CommandsReturn
