\* Ziplists of up to four entries, linked lists of up to five; zipmaps of up
\* to three fields whose first byte counts to two, dicts of up to four.
SPECIFICATION Spec
CONSTANTS
    int = int
    near = near
    long = long
    huge = huge
    f1 = f1
    f2 = f2
    f3 = f3
    f4 = f4
    word = word
    text = text
    name = name
    Absent = Absent
    NoTTL = NoTTL
    REDIS_STRING = REDIS_STRING
    REDIS_LIST = REDIS_LIST
    REDIS_HASH = REDIS_HASH
    VersionMax = 1
    Requests <- MCRequests
    ListValues = {int, near, long, huge}
    Integers16 = {int}
    PayloadSize <- MCPayloadSize
    UIntSpan = 65536
    list_max_ziplist_entries = 4
    list_max_ziplist_value = 300
    list_max_size = 4
    LengthBound = 5
    PushArgs <- MCPushArgs
    IndexArgs <- MCIndexes
    PopCounts = {0, 1, 2}
    RemoveCounts <- MCRemoveCounts
    Fields = {f1, f2, f3, f4}
    StringSize <- MCStringSize
    ZIPMAP_BIGLEN = 2
    HashValues <- MCHashValues
    HashIntegers <- MCHashIntegers
    Int32Min <- MCInt32Min
    Int32Max = 0
    hash_max_zipmap_entries = 3
    hash_max_zipmap_value = 6
    hash_max_size = 3
    SetArgs <- MCSetArgs
    Increments <- MCIncrements
    REDIS_SET = REDIS_SET
    SetMembers <- MCSetMembers
    MemberIntegers <- MCMemberIntegers
    Int16Bound = 2
    Int32Bound = 8
    Garbage = Garbage
    set_max_intset_entries = 3
    set_max_size = 3
    Intersections <- MCIntersections
VIEW MCView
CONSTRAINT SmallOther
INVARIANTS
    TypeOK
    PrevLensHold
    HeaderHolds
    EncodingFits
    WalksEnd
    FieldsCounted
    HashEncodingFits
    IntsetsWhole
    SetEncodingFits
PROPERTIES
    ImplementsValueList
    ImplementsFieldMap
    ImplementsMemberSets
