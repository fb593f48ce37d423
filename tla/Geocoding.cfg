SPECIFICATION FairSpec
CONSTANTS
    a1 = a1
    a2 = a2
    b1 = b1
    a = a
    b = b
    x = x
    y = y
    Requests = {a1, a2, b1}
    Procs = {a, b}
    Host <- MCHost
    Queries = {q}
    Places = {x, y}
    Answers <- MCAnswers
    MaxTracked = 1
    Ttl = 1
    Nobody = Nobody
INVARIANTS
    WithinCap
    AnsweredIsTracked
    FlightsShared
    NoRepeatedLookup
PROPERTIES
    FreshRowsSurvive
    RequestsAnswered
