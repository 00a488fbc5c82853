\* Two members of three by ZADD, levels up to two, two clients, every command.
SPECIFICATION Spec
CONSTANTS
    Header = Header
    NULL = NULL
    NaN = NaN
    Inf = 2
    ZSKIPLIST_MAXLEVEL = 2
    Absent = Absent
    NoTTL = NoTTL
    REDIS_STRING = REDIS_STRING
    REDIS_ZSET = REDIS_ZSET
    VersionMax = 1
    Self = Self
    second = second
    missing = missing
    Requests <- TwoClients
    Elems <- MCElems
    ZsetMax = 2
    Others <- MCOthers
    ScoreArgs <- MCScores
    Ranges <- MCRanges
    RankArgs <- MCRanks
    Limits <- MCLimits
    SourceLists <- MCSourceLists
    Aggregates = {"SUM", "MIN", "MAX"}
VIEW MCView
PROPERTY ImplementsSortedSet
