\* A command that needs no memory, refused after keys of another database went.
SPECIFICATION Spec
CONSTANTS
    DbCount = 2
    Keys = {k1, k2}
    k1 = k1
    k2 = k2
    KeySize <- MCKeySize
    SizeMax = 6
    ClockMax = 2
    DefaultDbLimit = 2
    DbLimits = {0}
    Configs <- MCConfigs
    Absent = Absent
PROPERTY OnlyDenyoomRefused
