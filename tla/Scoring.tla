------------------------------- MODULE Scoring -------------------------------
(***************************************************************************)
(* From the provider's response to the ranking: the days that              *)
(* mapForecastDays (src/src/open-meteo/client.ts) reads off the response,  *)
(* scored by the rubric, and the order that scoreAll                       *)
(* (src/src/scoring/scoring.service.ts) gives the activities.              *)
(*                                                                         *)
(* A response's wind is in tenths of a metre per second.                   *)
(***************************************************************************)
EXTENDS Rubric, FiniteSets

CONSTANTS
    \* The levels of each signal in the responses of one day.
    Temps, Precips, Probs, Winds, Snows, Waves, Codes,
    MoreResponses    \* responses of several days

Column(values) == Seq(values \cup {Null})
Response ==
    [time : Seq(Dates), temp : Column(Int), precip : Column(Nat), prob : Column(Nat),
     wind : Column(Nat), snow : Column(Nat), code : Column(Int),
     marineTime : Seq(Dates), wave : Column(Nat)]

ASSUME LevelsAssumption ==
    /\ Temps \cup Codes \subseteq Int \cup {Null}
    /\ Precips \cup Probs \cup Winds \cup Snows \cup Waves \subseteq Nat \cup {Null}
    /\ Dates # {}
ASSUME ResponsesAssumption == MoreResponses \subseteq Response

-----------------------------------------------------------------------------
\* The response: columns that should be as long as the column of dates, and the
\* marine response, which is empty when its request was rejected.

OneDay ==
    {[time |-> <<date>>, temp |-> <<temp>>, precip |-> <<precip>>, prob |-> <<prob>>,
      wind |-> <<wind>>, snow |-> <<snow>>, code |-> <<code>>,
      marineTime |-> <<date>>, wave |-> <<wave>>] :
       date \in {CHOOSE d \in Dates : TRUE}, temp \in Temps, precip \in Precips,
       prob \in Probs, wind \in Winds, snow \in Snows, code \in Codes, wave \in Waves}
Responses == OneDay \cup MoreResponses

\* at(): a column may be too short.
Cell(column, i) == IF i \in DOMAIN column THEN column[i] ELSE Null

\* Fault: the waves are taken by position.
WaveByPosition(response, i) == Cell(response.wave, i)

\* waveByDate, in which the last entry of a date counts
WaveOf(response, i) ==
    LET same == {j \in DOMAIN response.marineTime :
                   response.marineTime[j] = response.time[i]}
    IN  IF same = {} THEN Null
        ELSE Cell(response.wave, CHOOSE j \in same : \A k \in same : k <= j)

mapForecastDays(response) ==
    [i \in DOMAIN response.time |->
       [date |-> response.time[i],
        tempMaxC |-> Cell(response.temp, i),
        precipMm |-> Cell(response.precip, i),
        precipProbPct |-> Cell(response.prob, i),
        windMaxKmh |-> LET ms == Cell(response.wind, i)
                       IN  IF ms = Null THEN Null ELSE 36 * ms,
        snowfallCm |-> Cell(response.snow, i),
        waveHeightM |-> WaveOf(response, i),
        weatherCode |-> Cell(response.code, i)]]

-----------------------------------------------------------------------------
\* The ranking

\* availableScores, and their sum from the first day to the last
Available(activity, forecast) ==
    {i \in DOMAIN forecast : scoreDay(activity, forecast[i]).available}
Total(activity, forecast) ==
    LET total[i \in 0..Len(forecast)] ==
            IF i = 0 THEN 0
            ELSE total[i - 1] + (IF i \in Available(activity, forecast)
                                 THEN scoreDay(activity, forecast[i]).score ELSE 0)
    IN  total[Len(forecast)]

\* Fault: the mean is taken over all the days.
MeanOfAll(activity, forecast) ==
    IF Available(activity, forecast) = {} THEN Null
    ELSE [sum |-> Total(activity, forecast), of |-> Len(forecast)]

\* overallScore, as a fraction
Mean(activity, forecast) ==
    IF Available(activity, forecast) = {} THEN Null
    ELSE [sum |-> Total(activity, forecast),
          of |-> Cardinality(Available(activity, forecast))]

Above(m, n) == m.sum * n.of > n.sum * m.of
Ties(m, n) == m.sum * n.of = n.sum * m.of

\* Fault: equal scores compare as equal.
PrecedesUntied(mean, a, b) ==
    \/ mean[a] = Null /\ mean[b] = Null /\ a < b
    \/ mean[a] # Null /\ mean[b] = Null
    \/ mean[a] # Null /\ mean[b] # Null /\ Above(mean[a], mean[b])

\* The comparison that the rankings are sorted by
Precedes(mean, a, b) ==
    \/ mean[a] = Null /\ mean[b] = Null /\ a < b
    \/ mean[a] # Null /\ mean[b] = Null
    \/ /\ mean[a] # Null /\ mean[b] # Null
       /\ Above(mean[a], mean[b]) \/ (Ties(mean[a], mean[b]) /\ a < b)

Rank(mean, a) == 1 + Cardinality({b \in Activities : Precedes(mean, b, a)})

scoreAll(forecast) ==
    LET mean == [a \in Activities |-> Mean(a, forecast)]
    IN  [a \in Activities |->
           [overallScore |-> mean[a],
            rank |-> Rank(mean, a),
            days |-> [i \in DOMAIN forecast |-> scoreDay(a, forecast[i])]]]

-----------------------------------------------------------------------------
VARIABLES
    response,
    days,       \* <<>> until the response is mapped
    ranking     \* <<>> until the days are scored

vars == <<response, days, ranking>>

Init ==
    /\ response \in Responses
    /\ days = <<>>
    /\ ranking = <<>>

Map ==
    /\ days = <<>>
    /\ days' = mapForecastDays(response)
    /\ UNCHANGED <<response, ranking>>

\* Only a forecast that has days is scored.
Score ==
    /\ days # <<>>
    /\ ranking = <<>>
    /\ ranking' = scoreAll(days)
    /\ UNCHANGED <<response, days>>

Next == Map \/ Score

Spec == Init /\ [][Next]_vars

-----------------------------------------------------------------------------
\* The days that have what an activity requires, in their order
Scorable(activity, forecast) ==
    LET has == {i \in DOMAIN forecast : Required(activity, forecast[i]) # Null}
        number(i) == Cardinality({j \in has : j <= i})
    IN  [k \in 1..Cardinality(has) |-> forecast[CHOOSE i \in has : number(i) = k]]

\* "do not invent data" (docs/03-api-and-domain-design.md:118): a day has a score for
\* an activity, of 0 to 100, exactly if it has what the activity requires, and a reason
\* in any other case; the overall score is that of the forecast without these days.
MissingDaysDoNotCount ==
    ranking # <<>> => \A a \in Activities :
        /\ \A i \in DOMAIN days :
             LET score == ranking[a].days[i]
             IN  IF Required(a, days[i]) # Null
                 THEN score.available /\ score.score \in 0..100
                 ELSE /\ ~score.available
                      /\ score.score = Null /\ score.reasonCodes # {}
        /\ ranking[a].overallScore = Mean(a, Scorable(a, days))

\* "1 = best among activities with scores; stable tie-break by ActivityType enum
\* order" (docs/contracts/schema.graphql:59): the ranks are 1 to 4, a better mean is
\* ranked above a worse one, and the order of the enum decides only between equals.
RanksFollowScores ==
    ranking # <<>> =>
        /\ {ranking[a].rank : a \in Activities} = Activities
        /\ \A a, b \in Activities :
             LET m == ranking[a].overallScore
                 n == ranking[b].overallScore
             IN  ranking[a].rank < ranking[b].rank =>
                   \/ n = Null /\ (m = Null => a < b)
                   \/ /\ m # Null /\ n # Null
                      /\ m.sum * n.of >= n.sum * m.of
                      /\ m.sum * n.of = n.sum * m.of => a < b

\* "Indoor is the complement, not a copy" (docs/03-api-and-domain-design.md:151):
\* if a signal of a day were at any other level that makes it rougher, its outdoor
\* score would not be higher nor its indoor score lower.
Variants(day) ==
    {[day EXCEPT !.precipMm = precip] : precip \in Precips}
    \cup {[day EXCEPT !.windMaxKmh = 36 * wind] : wind \in Winds \ {Null}}
    \cup {[day EXCEPT !.precipProbPct = prob] : prob \in Probs}
    \cup {[day EXCEPT !.weatherCode = code] : code \in Codes}
    \cup {[day EXCEPT !.tempMaxC = temp] : temp \in Temps \ {Null}}
IndoorIsComplement ==
    \A i \in DOMAIN days : days[i].tempMaxC # Null =>
        \A other \in Variants(days[i]) : Rougher(days[i], other) =>
            /\ OutdoorScore(other) <= OutdoorScore(days[i])
            /\ IndoorScore(days[i]) <= IndoorScore(other)

\* Waves nearer to the ones that suit surfing never score lower on the same day, and
\* those that suit score higher than those that do not by more than rounding can hide,
\* half a point (5 mm too flat or 25 mm too big), whatever the wind and rain.
Off(wave) ==
    IF Flat(wave) THEN Metre - 2 * wave ELSE IF TooBig(wave) THEN 2 * wave - 5 * Metre ELSE 0
SameSide(v, w) == (~TooBig(v) /\ ~TooBig(w)) \/ (~Flat(v) /\ ~Flat(w))
ClearlyOff(wave) == Off(wave) * (IF Flat(wave) THEN 100 ELSE 20) > Metre
BetterWavesScoreHigher ==
    \A i \in DOMAIN days : days[i].waveHeightM # Null =>
        \A wave \in Waves \ {Null} :
            LET other == [days[i] EXCEPT !.waveHeightM = wave]
                here == days[i].waveHeightM
            IN  /\ SameSide(wave, here) /\ Off(wave) >= Off(here) =>
                     SurfingScore(other) <= SurfingScore(days[i])
                /\ Off(here) = 0 /\ ClearlyOff(wave) =>
                     SurfingScore(other) < SurfingScore(days[i])

\* The marine response is another request's, whose dates need not be those of the
\* forecast: a day is given no wave but one of its own date.
WavesOfTheirDate ==
    \A i \in DOMAIN days : days[i].waveHeightM # Null =>
        \E j \in DOMAIN response.marineTime :
            /\ response.marineTime[j] = days[i].date
            /\ Cell(response.wave, j) = days[i].waveHeightM
=============================================================================
