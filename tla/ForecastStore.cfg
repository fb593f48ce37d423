SPECIFICATION FairSpec
CONSTANTS
    w1 = w1
    w2 = w2
    r1 = r1
    api = api
    worker = worker
    Locations = {l1}
    MaxEntries = 1
    NoEntry = NoEntry
    NoWriter = NoWriter
    Writers = {w1, w2}
    Readers = {r1}
    Procs = {api, worker}
    Host <- MCHost
    Payloads <- MCPayloads
    Dates = {1, 2, 3}
    FirstDay = 1
    LastDay = 2
    MaxUpserts = 2
    Ttl = 1
INVARIANT WarmMeansForecast
PROPERTIES
    StaleOverEmpty
    UpsertReplacesSpan
    UpsertReturns
    CachesConverge
