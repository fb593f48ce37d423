------------------------------- MODULE Rubric -------------------------------
(***************************************************************************)
(* The rubric of src/src/scoring/scoring.service.ts: how a day scores for  *)
(* each activity, and why.                                                 *)
(*                                                                         *)
(* The code computes in doubles, the model in tenths: of a degree, of a    *)
(* millimetre of rain, of a centimetre of snow and of a point; in          *)
(* hundredths of a kilometre per hour.  Waves, which decide by how little  *)
(* a score may differ, are in fractions of a metre of any fineness, and    *)
(* the points of surfing in the same fractions of a point.  Null is the    *)
(* absent value.  Reasons are a set.                                       *)
(***************************************************************************)
EXTENDS Integers, Sequences

CONSTANTS
    Null, Dates,
    Metre    \* in the units of waveHeightM; also a point of surfing in its units

ASSUME NullAssumption == Null \notin Int
ASSUME MetreAssumption == Metre \in Nat \ {0}

\* The fields of a WeatherDay that the rubric reads
Day ==
    [date : Dates, tempMaxC : Int \cup {Null}, precipMm : Nat \cup {Null},
     precipProbPct : Nat \cup {Null}, windMaxKmh : Nat \cup {Null},
     snowfallCm : Nat \cup {Null}, waveHeightM : Nat \cup {Null},
     weatherCode : Int \cup {Null}]

OrZero(value) == IF value = Null THEN 0 ELSE value
Points(condition, points) == IF condition THEN points ELSE 0
Least(m, n) == IF m < n THEN m ELSE n
Greatest(m, n) == IF m > n THEN m ELSE n

\* Math.round, then the limits, of points of which "one" make a point
Clamp(points, one) == Greatest(0, Least(100, (2 * points + one) \div (2 * one)))

Reasons(present) == {code \in DOMAIN present : present[code]}

SkiingScore(day) ==
    LET temp == day.tempMaxC
        snow == OrZero(day.snowfallCm)
        precip == OrZero(day.precipMm)
    IN  Clamp(200 + Points(temp \in -150..50, 200) + Least(400, 4 * snow)
              - Points(temp > 20 /\ precip > 50, Least(300, precip))
              - Points(OrZero(day.windMaxKmh) > 4000, 150), 10)

SkiingReasons(day) ==
    Reasons([TOO_WARM |-> day.tempMaxC > 50, TOO_COLD |-> day.tempMaxC < -150,
             NO_SNOW |-> OrZero(day.snowfallCm) <= 0,
             HIGH_WIND |-> OrZero(day.windMaxKmh) > 4000])

\* Below half a metre, and above two and a half
Flat(wave) == 2 * wave < Metre
TooBig(wave) == 2 * wave > 5 * Metre

\* Fault: the slope of flat water is upside down.
WavePointsFlipped(wave) ==
    IF Flat(wave) THEN 70 * Metre - 100 * wave
    ELSE IF TooBig(wave) THEN Greatest(20 * Metre, 70 * Metre - 10 * (2 * wave - 5 * Metre))
    ELSE 70 * Metre

WavePoints(wave) ==
    IF Flat(wave) THEN 20 * Metre + 100 * wave
    ELSE IF TooBig(wave) THEN Greatest(20 * Metre, 70 * Metre - 10 * (2 * wave - 5 * Metre))
    ELSE 70 * Metre

SurfingScore(day) ==
    Clamp(WavePoints(day.waveHeightM)
          - Points(OrZero(day.windMaxKmh) > 4500, 20 * Metre)
          - Points(OrZero(day.precipMm) > 150, 10 * Metre), Metre)

SurfingReasons(day) ==
    Reasons([FLAT |-> Flat(day.waveHeightM), TOO_BIG |-> TooBig(day.waveHeightM),
             HIGH_WIND |-> OrZero(day.windMaxKmh) > 4500])

Mild(day) == day.tempMaxC \in 100..280
BadCode(day) == day.weatherCode # Null /\ day.weatherCode >= 60
ClearCode(day) == day.weatherCode # Null /\ day.weatherCode <= 3

OutdoorRain(precip) == Points(precip > 0, Least(400, 3 * precip))
OutdoorPoints(day) ==
    350 + Points(Mild(day), 300)
    - OutdoorRain(OrZero(day.precipMm))
    - Points(OrZero(day.precipProbPct) > 40, 100)
    - Points(OrZero(day.windMaxKmh) > 3000, 150)
    - Points(BadCode(day), 250) + Points(ClearCode(day), 100)
OutdoorScore(day) == Clamp(OutdoorPoints(day), 10)

OutdoorReasons(day) ==
    Reasons([TOO_HOT |-> day.tempMaxC > 280, TOO_COLD |-> day.tempMaxC < 100,
             HEAVY_RAIN |-> OrZero(day.precipMm) > 50,
             HIGH_WIND |-> OrZero(day.windMaxKmh) > 3000,
             BAD_WEATHER |-> BadCode(day)])

\* Fault: the test for heavy rain is the wrong way round.
IndoorRainFlipped(precip) == IF precip < 50 THEN 250 ELSE IF precip = 0 THEN -100 ELSE 0

IndoorRain(precip) == IF precip > 50 THEN 250 ELSE IF precip = 0 THEN -100 ELSE 0

IndoorPoints(day) ==
    500 + (IF Mild(day) THEN -150 ELSE 200)
    + IndoorRain(OrZero(day.precipMm))
    + Points(OrZero(day.windMaxKmh) > 3000, 100)
    + Points(BadCode(day), 200) - Points(ClearCode(day), 150)
IndoorScore(day) == Clamp(IndoorPoints(day), 10)

IndoorReasons(day) ==
    Reasons([POOR_OUTDOOR_WEATHER |-> IndoorScore(day) >= 60,
             GOOD_OUTDOOR_WEATHER |-> IndoorScore(day) < 60])

ActivityTypes ==
    <<"SKIING", "SURFING", "OUTDOOR_SIGHTSEEING", "INDOOR_SIGHTSEEING">>
Activities == 1..Len(ActivityTypes)

\* What an activity cannot be scored without
Required(activity, day) ==
    IF ActivityTypes[activity] = "SURFING" THEN day.waveHeightM ELSE day.tempMaxC
Missing(activity) ==
    IF ActivityTypes[activity] = "SURFING" THEN "NO_MARINE_DATA" ELSE "MISSING_TEMP"

Scored(score, reasons) == [available |-> TRUE, score |-> score, reasonCodes |-> reasons]

scoreDay(activity, day) ==
    LET type == ActivityTypes[activity]
    IN  IF Required(activity, day) = Null
        THEN [available |-> FALSE, score |-> Null, reasonCodes |-> {Missing(activity)}]
        ELSE CASE type = "SKIING" -> Scored(SkiingScore(day), SkiingReasons(day))
               [] type = "SURFING" -> Scored(SurfingScore(day), SurfingReasons(day))
               [] type = "OUTDOOR_SIGHTSEEING" ->
                    Scored(OutdoorScore(day), OutdoorReasons(day))
               [] type = "INDOOR_SIGHTSEEING" ->
                    Scored(IndoorScore(day), IndoorReasons(day))

-----------------------------------------------------------------------------
\* For the properties: a day is rougher than another if its rain, its wind and the
\* probability of rain are no less, its temperature is mild only if the other's is,
\* and its weather code is no better.
Rougher(day, other) ==
    /\ OrZero(other.precipMm) >= OrZero(day.precipMm)
    /\ OrZero(other.precipProbPct) >= OrZero(day.precipProbPct)
    /\ OrZero(other.windMaxKmh) >= OrZero(day.windMaxKmh)
    /\ Mild(other) => Mild(day)
    /\ BadCode(day) => BadCode(other)
    /\ ClearCode(other) => ClearCode(day)
=============================================================================
