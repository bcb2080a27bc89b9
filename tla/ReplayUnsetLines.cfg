CONSTANTS
    Name <- MCName
    Fold <- MCFold
    HashOf <- MCHashOf
    TABLE_SIZE = 5
    SPREAD = 3
    CLEAN_PER_LOOP <- MCCleanPerLoop
    LimitLines = {1, 2}
    LimitTimes = {1, 2}
    DEFAULT_LINES = 2
    DEFAULT_TIME = 2
    SKEW = 1
    BadTime = {}
    Filter <- MCFilterUnset
    NoFilter = NoFilter
    MaxNow = 7

SPECIFICATION Spec

INVARIANT ReplayIsFilteredSuffix
