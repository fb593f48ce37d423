SPECIFICATION FairSpec
CONSTANTS
    Calls = {c1, c2, c3}
    Limit = 2
    Ttl = 3
    BlockDuration = 3
INVARIANTS
    LessThanTwiceTheLimit
    CountIsRecent
PROPERTY BlockEnds
