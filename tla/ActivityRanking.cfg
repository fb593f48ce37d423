SPECIFICATION FairSpec
CONSTANTS
    Requests = {r1, r2, r3}
    Locations = {l1, l2}
    MaxConcurrent = 1
    NoFlight = NoFlight
INVARIANTS
    SlotsAreFlights
    WaitersHaveFlight
PROPERTY EveryRequestAnswered
