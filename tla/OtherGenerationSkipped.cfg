CONSTANTS
    Name <- MCName
    Fold <- MCFold
    HashOf <- MCHashOf
    TABLE_SIZE = 3
    SPREAD = 2
    CLEAN_PER_LOOP <- MCCleanPerLoop
    LimitLines = {1, 2}
    LimitTimes = {2}
    DEFAULT_LINES = 2
    DEFAULT_TIME = 2
    SKEW = 0
    BadTime = {}
    Filter = {}
    NoFilter = NoFilter
    Absent = Absent
    Salt = {s1, s2}
    MaxNow = 4

SPECIFICATION FairSpecP

PROPERTY OtherGenerationSkipped
