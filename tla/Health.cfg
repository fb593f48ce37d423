SPECIFICATION MCSpec
CONSTANTS
    a1 = a1
    a2 = a2
    b1 = b1
    a = a
    b = b
    l1 = l1
    l2 = l2
    l3 = l3
    NaN = NaN
    Unset = Unset
    Procs = {a, b}
    Runs = {a1, a2, b1}
    Host <- MCHost
    Locations = {l1, l2, l3}
    Concurrency = 2
    Faults = {"crash", "session", "lock", "unlock", "record"}
    MaxRecords = 3
    MaxHolds = 1
    StaleAfterTexts <- MCTexts
    DefaultStaleAfter = 1
INVARIANTS
    OneLeader
    PoolIsSound
PROPERTIES
    MetaNeverGoesBack
    OkIsEarned
    OkWasTrue
    LeadershipComesFree
