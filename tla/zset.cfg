\* Three members, levels up to three, scores -Inf, 0 and Inf.
SPECIFICATION Spec
CONSTANTS
    Header = Header
    NULL = NULL
    NaN = NaN
    Inf = 2
    ZSKIPLIST_MAXLEVEL = 3
    Absent = Absent
    NoTTL = NoTTL
    REDIS_STRING = REDIS_STRING
    REDIS_ZSET = REDIS_ZSET
    VersionMax = 1
    Self = Self
    second = second
    missing = missing
    Requests <- OneClient
    Elems <- MCElems
    ZsetMax = 3
    Others <- MCOthers
    ScoreArgs = {0, 2}
    Ranges <- UpFromZero
    RankArgs = {0, 1}
    Limits = {0}
    SourceLists <- Negation
    Aggregates = {"SUM"}
VIEW MCView
INVARIANTS
    TypeOK
    ListInOrder
    SpansMeasure
    DictAgrees
    MembersAreFound
