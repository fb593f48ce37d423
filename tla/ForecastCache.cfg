SPECIFICATION CacheSpec
CONSTANTS
    Locations = {l1, l2, l3}
    MaxEntries = 2
    NoEntry = NoEntry
    Values = {v1, v2}
    Ttl = 2
    MaxOps = 7
PROPERTIES
    EvictsLeastRecentlyUsed
    ImplementsCacheMap
CHECK_DEADLOCK FALSE
