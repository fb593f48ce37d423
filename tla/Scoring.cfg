SPECIFICATION Spec
CONSTANTS
    d1 = d1
    d2 = d2
    d3 = d3
    Null = Null
    Metre = 1000
    Dates = {d1, d2, d3}
    Temps <- MCTemps
    Precips <- MCPrecips
    Probs <- MCProbs
    Winds <- MCWinds
    Snows <- MCSnows
    Waves <- MCWaves
    Codes <- MCCodes
    MoreResponses <- MCMoreResponses
INVARIANTS
    MissingDaysDoNotCount
    RanksFollowScores
    IndoorIsComplement
    BetterWavesScoreHigher
    WavesOfTheirDate
CHECK_DEADLOCK FALSE
