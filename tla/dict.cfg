\* Four keys, tables of 1, 2, 4 and 8 buckets, shrinking below a third full.
SPECIFICATION FairSpec
CONSTANTS
    k1 = k1
    k2 = k2
    k3 = k3
    k4 = k4
    Keys <- MCKeys
    Vals = {v1, v2}
    None = None
    Hash <- MCHash
    DICT_HT_INITIAL_SIZE = 1
    REDIS_HT_MINFILL = 33
    MaxDoublings = 4
INVARIANTS
    TypeOK
    EntriesInPlace
    NoDuplicates
    UsedCounts
    RehashIndexSane
PROPERTIES
    ImplementsMap
    RehashingEnds
