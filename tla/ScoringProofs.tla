--------------------------- MODULE ScoringProofs ---------------------------
(***************************************************************************)
(* What the rubric guarantees of every two days, whatever the levels of    *)
(* their signals, and so of every response that is scored; where a day's   *)
(* waves come from; that the means are those of the days with a score, and *)
(* that the ranks follow them, for forecasts of any length.                *)
(*                                                                         *)
(* What a recursive sum or a search through a sequence gives is shown by   *)
(* the least or the greatest index at which something is the case.         *)
(***************************************************************************)
EXTENDS Scoring, FiniteSetTheorems, TLAPS

\* A product grows with its first factor.
LEMMA Times ==
    ASSUME NEW x \in Int, NEW y \in Int, NEW c \in Nat \ {0}
    PROVE  /\ x * c \in Int
           /\ x > y <=> x * c > y * c
           /\ x = y <=> x * c = y * c
  OBVIOUS

\* A quotient is less than a number exactly if the dividend is less than its multiple.
LEMMA QuotientIsLess ==
    ASSUME NEW m \in Int, NEW c \in Int, NEW d \in Nat \ {0}
    PROVE  /\ m \div d \in Int
           /\ m \div d < c <=> m < c * d
<1> DEFINE q == m \div d
<1>1. q \in Int /\ q * d <= m /\ m < (q + 1) * d
  OBVIOUS
<1> HIDE DEF q
<1>2. c * d \in Int /\ q * d \in Int /\ (q + 1) * d \in Int
  BY <1>1
<1>3. CASE q < c
  <2>1. c = q + 1 \/ c > q + 1
    BY <1>1, <1>3
  <2>2. c > q + 1 => c * d > (q + 1) * d
    BY <1>1, Times
  <2> QED BY <1>1, <1>2, <1>3, <2>1, <2>2 DEF q
<1>4. CASE ~(q < c)
  <2>1. q = c \/ q > c
    BY <1>1, <1>4
  <2>2. q > c => q * d > c * d
    BY <1>1, Times
  <2> QED BY <1>1, <1>2, <1>4, <2>1, <2>2 DEF q
<1> QED BY <1>1, <1>3, <1>4 DEF q

\* clamp never leaves 0..100 and keeps the order of what it clamps.
LEMMA ClampIsMonotone ==
    ASSUME NEW m \in Int, NEW n \in Int, m <= n, NEW one \in Nat \ {0}
    PROVE  /\ Clamp(m, one) \in 0..100
           /\ Clamp(m, one) <= Clamp(n, one)
<1> DEFINE p == 2 * m + one
           q == 2 * n + one
           d == 2 * one
<1>1. p \in Int /\ q \in Int /\ d \in Nat \ {0} /\ p <= q
  OBVIOUS
<1>2. Clamp(m, one) = Greatest(0, Least(100, p \div d))
      /\ Clamp(n, one) = Greatest(0, Least(100, q \div d))
  BY DEF Clamp
<1> HIDE DEF p, q, d
<1>3. p \div d \in Int /\ q \div d \in Int
  BY <1>1, QuotientIsLess
<1>4. p \div d <= q \div d
  <2> DEFINE c == (q \div d) + 1
  <2>1. c \in Int /\ q \div d < c
    BY <1>3
  <2> HIDE DEF c
  <2>2. q < c * d /\ c * d \in Int
    BY <1>1, <2>1, QuotientIsLess
  <2>3. p < c * d
    BY <1>1, <2>2
  <2>4. p \div d < c
    BY <1>1, <2>1, <2>3, QuotientIsLess
  <2> QED BY <1>3, <2>4 DEF c
<1> QED BY <1>2, <1>3, <1>4 DEF Greatest, Least

LEMMA SignalsAreNumbers ==
    ASSUME NEW day \in Day
    PROVE  /\ OrZero(day.precipMm) \in Nat
           /\ OrZero(day.precipProbPct) \in Nat
           /\ OrZero(day.windMaxKmh) \in Nat
  BY DEF Day, OrZero

\* The points of one signal never rise outdoors, nor fall indoors, as it gets rougher.
LEMMA RainPoints ==
    ASSUME NEW p \in Nat, NEW q \in Nat, p <= q
    PROVE  /\ IndoorRain(p) \in Int /\ IndoorRain(q) \in Int
           /\ IndoorRain(p) <= IndoorRain(q)
           /\ OutdoorRain(p) \in Int
           /\ OutdoorRain(q) \in Int
           /\ OutdoorRain(p) <= OutdoorRain(q)
  BY DEF IndoorRain, OutdoorRain, Points, Least

LEMMA PointsAreMonotone ==
    ASSUME NEW p \in BOOLEAN, NEW q \in BOOLEAN, p => q, NEW n \in Nat
    PROVE  /\ Points(p, n) \in Int /\ Points(q, n) \in Int
           /\ Points(p, n) <= Points(q, n)
  BY DEF Points

\* "Indoor is the complement, not a copy" (docs/03-api-and-domain-design.md:151), for
\* every two days that have a temperature: on the one that is rougher in any of the
\* signals and in none better, outdoor sightseeing never scores higher and indoor
\* sightseeing never lower.
THEOREM RougherIsIndoors ==
    ASSUME NEW day \in Day, NEW other \in Day,
           day.tempMaxC # Null, other.tempMaxC # Null,
           Rougher(day, other)
    PROVE  /\ OutdoorScore(other) <= OutdoorScore(day)
           /\ IndoorScore(day) <= IndoorScore(other)
<1> DEFINE p == OrZero(day.precipMm)
           q == OrZero(other.precipMm)
           b == OrZero(day.precipProbPct)
           c == OrZero(other.precipProbPct)
           v == OrZero(day.windMaxKmh)
           w == OrZero(other.windMaxKmh)
<1>1. p \in Nat /\ q \in Nat /\ b \in Nat /\ c \in Nat /\ v \in Nat /\ w \in Nat
  BY SignalsAreNumbers
<1>2. p <= q /\ b <= c /\ v <= w
  BY <1>1 DEF Rougher
<1>3. /\ IndoorRain(p) \in Int /\ IndoorRain(q) \in Int
      /\ IndoorRain(p) <= IndoorRain(q)
      /\ OutdoorRain(p) \in Int
      /\ OutdoorRain(q) \in Int
      /\ OutdoorRain(p) <= OutdoorRain(q)
  <2> HIDE DEF p, q
  <2> QED  BY <1>1, <1>2, RainPoints
<1>4. /\ Mild(day) \in BOOLEAN /\ Mild(other) \in BOOLEAN
      /\ BadCode(day) \in BOOLEAN /\ BadCode(other) \in BOOLEAN
      /\ ClearCode(day) \in BOOLEAN /\ ClearCode(other) \in BOOLEAN
  BY DEF Mild, BadCode, ClearCode
<1>5. /\ Mild(other) => Mild(day)
      /\ BadCode(day) => BadCode(other)
      /\ ClearCode(other) => ClearCode(day)
  BY DEF Rougher
<1>6. /\ OutdoorPoints(day) \in Int /\ OutdoorPoints(other) \in Int
      /\ OutdoorPoints(other) <= OutdoorPoints(day)
  <2> HIDE DEF p, q, b, c, v, w
  <2> USE <1>1, <1>2, <1>3, <1>4, <1>5
  <2>1. OutdoorPoints(day) = 350 + Points(Mild(day), 300)
          - OutdoorRain(p) - Points(b > 40, 100)
          - Points(v > 3000, 150) - Points(BadCode(day), 250)
          + Points(ClearCode(day), 100)
    BY DEF OutdoorPoints, p, b, v
  <2>2. OutdoorPoints(other) = 350 + Points(Mild(other), 300)
          - OutdoorRain(q) - Points(c > 40, 100)
          - Points(w > 3000, 150) - Points(BadCode(other), 250)
          + Points(ClearCode(other), 100)
    BY DEF OutdoorPoints, q, c, w
  <2>3. /\ Points(Mild(other), 300) <= Points(Mild(day), 300)
        /\ Points(Mild(other), 300) \in Int /\ Points(Mild(day), 300) \in Int
    BY PointsAreMonotone
  <2>4. /\ Points(BadCode(day), 250) <= Points(BadCode(other), 250)
        /\ Points(BadCode(day), 250) \in Int /\ Points(BadCode(other), 250) \in Int
    BY PointsAreMonotone
  <2>5. /\ Points(ClearCode(other), 100) <= Points(ClearCode(day), 100)
        /\ Points(ClearCode(other), 100) \in Int /\ Points(ClearCode(day), 100) \in Int
    BY PointsAreMonotone
  <2>6. /\ Points(b > 40, 100) <= Points(c > 40, 100)
        /\ Points(b > 40, 100) \in Int /\ Points(c > 40, 100) \in Int
    BY DEF Points
  <2>7. /\ Points(v > 3000, 150) <= Points(w > 3000, 150)
        /\ Points(v > 3000, 150) \in Int /\ Points(w > 3000, 150) \in Int
    BY DEF Points
  <2> QED  BY <2>1, <2>2, <2>3, <2>4, <2>5, <2>6, <2>7
<1>7. /\ IndoorPoints(day) \in Int /\ IndoorPoints(other) \in Int
      /\ IndoorPoints(day) <= IndoorPoints(other)
  <2> HIDE DEF p, q, b, c, v, w
  <2> USE <1>1, <1>2, <1>3, <1>4, <1>5
  <2>1. IndoorPoints(day) = 500 + (IF Mild(day) THEN -150 ELSE 200) + IndoorRain(p)
          + Points(v > 3000, 100) + Points(BadCode(day), 200)
          - Points(ClearCode(day), 150)
    BY DEF IndoorPoints, p, v
  <2>2. IndoorPoints(other) = 500 + (IF Mild(other) THEN -150 ELSE 200) + IndoorRain(q)
          + Points(w > 3000, 100) + Points(BadCode(other), 200)
          - Points(ClearCode(other), 150)
    BY DEF IndoorPoints, q, w
  <2>3. /\ Points(BadCode(day), 200) <= Points(BadCode(other), 200)
        /\ Points(BadCode(day), 200) \in Int /\ Points(BadCode(other), 200) \in Int
    BY PointsAreMonotone
  <2>4. /\ Points(ClearCode(other), 150) <= Points(ClearCode(day), 150)
        /\ Points(ClearCode(other), 150) \in Int /\ Points(ClearCode(day), 150) \in Int
    BY PointsAreMonotone
  <2>5. /\ Points(v > 3000, 100) <= Points(w > 3000, 100)
        /\ Points(v > 3000, 100) \in Int /\ Points(w > 3000, 100) \in Int
    BY DEF Points
  <2> QED  BY <2>1, <2>2, <2>3, <2>4, <2>5
<1>8. /\ OutdoorScore(day) = Clamp(OutdoorPoints(day), 10)
      /\ OutdoorScore(other) = Clamp(OutdoorPoints(other), 10)
      /\ IndoorScore(day) = Clamp(IndoorPoints(day), 10)
      /\ IndoorScore(other) = Clamp(IndoorPoints(other), 10)
  BY DEF OutdoorScore, IndoorScore
<1> QED  BY <1>6, <1>7, <1>8, ClampIsMonotone

-----------------------------------------------------------------------------
\* The days that a response is read into are days of the rubric.
LEMMA DaysAreTyped ==
    ASSUME NEW r \in Response
    PROVE  mapForecastDays(r) \in Seq(Day)
<1>1. ASSUME NEW values, NEW column \in Column(values), NEW i
      PROVE  Cell(column, i) \in values \cup {Null}
  BY <1>1 DEF Column, Cell
<1> DEFINE day(i) == mapForecastDays(r)[i]
<1>2. r.time \in Seq(Dates)
  BY DEF Response
<1>3. ASSUME NEW i \in DOMAIN r.time
      PROVE  day(i) \in Day
  <2>1. Cell(r.temp, i) \in Int \cup {Null} /\ Cell(r.code, i) \in Int \cup {Null}
    BY <1>1 DEF Response
  <2>2. /\ Cell(r.precip, i) \in Nat \cup {Null} /\ Cell(r.prob, i) \in Nat \cup {Null}
        /\ Cell(r.wind, i) \in Nat \cup {Null} /\ Cell(r.snow, i) \in Nat \cup {Null}
    BY <1>1 DEF Response
  <2>3. WaveOf(r, i) \in Nat \cup {Null}
    BY <1>1 DEF Response, WaveOf
  <2>4. (IF Cell(r.wind, i) = Null THEN Null ELSE 36 * Cell(r.wind, i)) \in Nat \cup {Null}
    BY <2>2
  <2>5. r.time[i] \in Dates
    BY <1>2, <1>3
  <2> QED  BY <2>1, <2>2, <2>3, <2>4, <2>5, <1>3 DEF mapForecastDays, Day
<1>4. /\ Len(r.time) \in Nat
      /\ DOMAIN r.time = 1..Len(r.time)
  BY <1>2
<1>5. mapForecastDays(r) = [i \in 1..Len(r.time) |-> day(i)]
  BY <1>4 DEF mapForecastDays
<1>6. [i \in 1..Len(r.time) |-> day(i)] \in Seq(Day)
  <2> HIDE DEF day
  <2> QED  BY <1>3, <1>4
<1> QED  BY <1>5, <1>6

Typed == response \in Response /\ days \in Seq(Day)

LEMMA SpecTyped == Spec => []Typed
<1>1. OneDay \subseteq Response
  <2> SUFFICES ASSUME NEW r \in OneDay  PROVE r \in Response
    OBVIOUS
  <2> DEFINE one(date, temp, precip, prob, wind, snow, code, wave) ==
               [time |-> <<date>>, temp |-> <<temp>>, precip |-> <<precip>>,
                prob |-> <<prob>>, wind |-> <<wind>>, snow |-> <<snow>>,
                code |-> <<code>>, marineTime |-> <<date>>, wave |-> <<wave>>]
  <2>1. PICK date \in {CHOOSE d \in Dates : TRUE}, temp \in Temps, precip \in Precips,
             prob \in Probs, wind \in Winds, snow \in Snows, code \in Codes,
             wave \in Waves :
           r = one(date, temp, precip, prob, wind, snow, code, wave)
    BY DEF OneDay
  <2>2. date \in Dates
    BY LevelsAssumption
  <2>3. temp \in Int \cup {Null} /\ code \in Int \cup {Null}
    BY LevelsAssumption
  <2>4. /\ precip \in Nat \cup {Null} /\ prob \in Nat \cup {Null}
        /\ wind \in Nat \cup {Null} /\ snow \in Nat \cup {Null}
        /\ wave \in Nat \cup {Null}
    BY LevelsAssumption
  <2> QED  BY <2>1, <2>2, <2>3, <2>4 DEF Response, Column
<1>2. Init => Typed
  BY <1>1, ResponsesAssumption DEF Init, Typed, Responses
<1>3. Typed /\ [Next]_vars => Typed'
  <2> SUFFICES ASSUME Typed, [Next]_vars PROVE Typed'
    OBVIOUS
  <2>1. CASE Map  BY <2>1, DaysAreTyped DEF Map, Typed
  <2>2. CASE Score  BY <2>2 DEF Score, Typed
  <2>3. CASE UNCHANGED vars  BY <2>3 DEF vars, Typed
  <2> QED  BY <2>1, <2>2, <2>3 DEF Next
<1> QED  BY <1>2, <1>3, PTL DEF Spec

\* "Indoor is the complement, not a copy" (docs/03-api-and-domain-design.md:151), of
\* every day of every response.
THEOREM ComplementTheorem == Spec => []IndoorIsComplement
<1>1. Typed => IndoorIsComplement
  <2> SUFFICES ASSUME Typed, NEW i \in DOMAIN days, days[i].tempMaxC # Null,
                      NEW other \in Variants(days[i]), Rougher(days[i], other)
               PROVE  /\ OutdoorScore(other) <= OutdoorScore(days[i])
                      /\ IndoorScore(days[i]) <= IndoorScore(other)
    BY DEF IndoorIsComplement
  <2>1. days[i] \in Day
    BY DEF Typed
  <2>2. other \in Day /\ other.tempMaxC # Null
    BY <2>1, LevelsAssumption DEF Variants, Day
  <2> QED  BY <2>1, <2>2, RougherIsIndoors
<1> QED  BY <1>1, SpecTyped, PTL

-----------------------------------------------------------------------------
\* Waves.

LEMMA WavePointsFallWithDistance ==
    ASSUME NEW v \in Nat, NEW w \in Nat
    PROVE  /\ WavePoints(v) \in Nat /\ WavePoints(w) \in Nat
           /\ SameSide(v, w) /\ Off(v) >= Off(w) => WavePoints(v) <= WavePoints(w)
           /\ Off(w) = 0 => WavePoints(w) = 70 * Metre
           /\ ClearlyOff(v) => 2 * WavePoints(v) < 139 * Metre
  BY MetreAssumption DEF WavePoints, Off, SameSide, ClearlyOff, Flat, TooBig, Greatest

\* What wind and rain take off leaves the order of two waves, and the difference that
\* distinguishes those that suit from those that clearly do not.
LEMMA PenaltiesKeepOrder ==
    ASSUME NEW v \in Nat, NEW w \in Nat, NEW k \in {0, 10, 20, 30}
    PROVE  /\ SameSide(v, w) /\ Off(v) >= Off(w) =>
                Clamp(WavePoints(v) - k * Metre, Metre)
                  <= Clamp(WavePoints(w) - k * Metre, Metre)
           /\ Off(w) = 0 /\ ClearlyOff(v) =>
                Clamp(WavePoints(v) - k * Metre, Metre)
                  < Clamp(WavePoints(w) - k * Metre, Metre)
<1> DEFINE p == WavePoints(v)
           q == WavePoints(w)
           less == k * Metre
<1>1. /\ p \in Nat /\ q \in Nat
      /\ SameSide(v, w) /\ Off(v) >= Off(w) => p <= q
      /\ Off(w) = 0 => q = 70 * Metre
      /\ ClearlyOff(v) => 2 * p < 139 * Metre
  BY WavePointsFallWithDistance
<1> HIDE DEF p, q
<1>2. p - less \in Int /\ q - less \in Int /\ Metre \in Nat \ {0} /\ less \in Nat
  BY <1>1, MetreAssumption
<1>3. ASSUME p <= q PROVE Clamp(p - less, Metre) <= Clamp(q - less, Metre)
  <2> HIDE DEF less
  <2>1. p - less <= q - less
    BY <1>1, <1>2, <1>3
  <2> QED BY <1>2, <2>1, ClampIsMonotone
<1>4. ASSUME q = 70 * Metre, 2 * p < 139 * Metre
      PROVE  Clamp(p - less, Metre) < Clamp(q - less, Metre)
  <2> DEFINE d == 2 * Metre
             low == 2 * (p - less) + Metre
             high == 2 * (q - less) + Metre
             score == 70 - k
  <2>1. /\ d \in Nat \ {0} /\ low \in Int /\ high \in Int
        /\ score \in {40, 50, 60, 70}
    BY <1>1, <1>2
  <2>2. low < score * d
    BY <1>1, <1>2, <1>4
  <2>3. ~(high < score * d)
    BY <1>1, <1>2, <1>4
  <2>4. /\ Clamp(p - less, Metre) = Greatest(0, Least(100, low \div d))
        /\ Clamp(q - less, Metre) = Greatest(0, Least(100, high \div d))
    BY DEF Clamp
  <2> HIDE DEF d, low, high, score
  <2>5. /\ low \div d \in Int /\ high \div d \in Int
        /\ low \div d < score /\ ~(high \div d < score)
    BY <2>1, <2>2, <2>3, QuotientIsLess
  <2> QED BY <2>1, <2>4, <2>5 DEF Greatest, Least
<1> QED BY <1>1, <1>3, <1>4 DEF p, q

\* Waves nearer to the ones that suit surfing never score lower on the same day, and
\* those that suit score higher than those that do not by more than half a point, for
\* every height of either, to any fraction of a metre, and whatever the wind and the
\* rain: neither Math.round nor the limits hide more than half a point.
THEOREM BetterWaves == Spec => []BetterWavesScoreHigher
<1>1. Typed => BetterWavesScoreHigher
  <2> SUFFICES ASSUME Typed, NEW i \in DOMAIN days, days[i].waveHeightM # Null,
                      NEW wave \in Waves \ {Null}
               PROVE  LET other == [days[i] EXCEPT !.waveHeightM = wave]
                          here == days[i].waveHeightM
                      IN  /\ SameSide(wave, here) /\ Off(wave) >= Off(here) =>
                               SurfingScore(other) <= SurfingScore(days[i])
                          /\ Off(here) = 0 /\ ClearlyOff(wave) =>
                               SurfingScore(other) < SurfingScore(days[i])
    BY DEF BetterWavesScoreHigher
  <2> DEFINE other == [days[i] EXCEPT !.waveHeightM = wave]
             here == days[i].waveHeightM
             windy == OrZero(days[i].windMaxKmh) > 4500
             wet == OrZero(days[i].precipMm) > 150
             k == (IF windy THEN 20 ELSE 0) + (IF wet THEN 10 ELSE 0)
  <2>1. days[i] \in Day
    BY DEF Typed
  <2>2. wave \in Nat /\ here \in Nat
    BY <2>1, LevelsAssumption DEF Day
  <2>3. /\ other.waveHeightM = wave
        /\ other.windMaxKmh = days[i].windMaxKmh
        /\ other.precipMm = days[i].precipMm
    BY <2>1 DEF Day
  <2>4. k \in {0, 10, 20, 30}
    <3> HIDE DEF windy, wet
    <3> QED OBVIOUS
  <2>5. /\ SurfingScore(days[i]) = Clamp(WavePoints(here) - k * Metre, Metre)
        /\ SurfingScore(other) = Clamp(WavePoints(wave) - k * Metre, Metre)
    <3>1. WavePoints(here) \in Int /\ WavePoints(wave) \in Int
      <4> HIDE DEF here
      <4>1. WavePoints(wave) \in Nat /\ WavePoints(here) \in Nat
        BY <2>2, WavePointsFallWithDistance
      <4> QED BY <4>1
    <3> HIDE DEF other
    <3> DEFINE wind == Points(windy, 20 * Metre)
               rain == Points(wet, 10 * Metre)
    <3>2. /\ SurfingScore(days[i]) = Clamp(WavePoints(here) - wind - rain, Metre)
          /\ SurfingScore(other) = Clamp(WavePoints(wave) - wind - rain, Metre)
      BY <2>3 DEF SurfingScore
    <3> HIDE DEF windy, wet, here
    <3>3. wind \in Int /\ rain \in Int /\ k * Metre \in Int /\ k * Metre = wind + rain
      BY MetreAssumption DEF Points
    <3> HIDE DEF wind, rain, k
    <3>4. /\ WavePoints(here) - wind - rain = WavePoints(here) - k * Metre
          /\ WavePoints(wave) - wind - rain = WavePoints(wave) - k * Metre
      BY <3>1, <3>3
    <3> QED BY <3>2, <3>4
  <2> HIDE DEF other, here, k
  <2> QED BY <2>2, <2>4, <2>5, PenaltiesKeepOrder DEF other, here
<1> QED BY <1>1, SpecTyped, PTL

-----------------------------------------------------------------------------
\* A nonempty set of indices has a greatest and a least: of the intervals that end
\* (begin) with one of them, some is minimal.

LEMMA GreatestIndex ==
    ASSUME NEW n \in Nat, NEW T \in SUBSET (1..n), T # {}
    PROVE  \E j \in T : \A k \in T : k <= j
<1> DEFINE after == {j + 1..n : j \in T}
<1>1. IsFiniteSet(1..n)
  BY FS_Interval
<1>2. after \subseteq FiniteSubsetsOf(1..n)
  <2>1. ASSUME NEW U \in after PROVE U \in SUBSET (1..n)
    OBVIOUS
  <2> QED BY <1>1, <2>1, FS_FiniteSubsetsOfFinite
<1>3. after # {}
  OBVIOUS
<1>4. IsWellFoundedOn(StrictSubsetOrdering(1..n), FiniteSubsetsOf(1..n))
  BY <1>1, FS_StrictSubsetOrderingWellFounded
<1> HIDE DEF after
<1>5. PICK U \in after : \A V \in after : ~(<<V, U>> \in StrictSubsetOrdering(1..n))
  BY <1>2, <1>3, <1>4, WFMin
<1>6. PICK j \in T : U = j + 1..n
  BY DEF after
<1>7. ASSUME NEW k \in T, ~(k <= j) PROVE FALSE
  <2>1. k + 1..n \in after
    BY DEF after
  <2>2. k + 1..n \subseteq j + 1..n /\ k \in j + 1..n /\ k \notin k + 1..n
    BY <1>7
  <2>3. k + 1..n \in SUBSET (1..n) /\ j + 1..n \in SUBSET (1..n)
    OBVIOUS
  <2>4. <<k + 1..n, j + 1..n>> \in StrictSubsetOrdering(1..n)
    BY <2>2, <2>3 DEF StrictSubsetOrdering
  <2> QED BY <1>5, <1>6, <2>1, <2>4
<1> QED BY <1>7

LEMMA LeastIndex ==
    ASSUME NEW n \in Nat, NEW T \in SUBSET (0..n), T # {}
    PROVE  \E j \in T : \A k \in T : j <= k
<1> DEFINE mirrored == {n + 1 - j : j \in T}
<1>1. mirrored \in SUBSET (1..n + 1) /\ mirrored # {} /\ n + 1 \in Nat
  OBVIOUS
<1>2. PICK m \in mirrored : \A k \in mirrored : k <= m
  <2> HIDE DEF mirrored
  <2> QED BY <1>1, GreatestIndex
<1>3. PICK j \in T : m = n + 1 - j
  OBVIOUS
<1>4. ASSUME NEW k \in T PROVE j <= k
  BY <1>2, <1>3
<1> QED BY <1>4

-----------------------------------------------------------------------------
\* The days that are scored are those of the response.
DaysOfResponse == days = <<>> \/ days = mapForecastDays(response)

LEMMA SpecDays == Spec => []DaysOfResponse
<1>1. Init => DaysOfResponse
  BY DEF Init, DaysOfResponse
<1>2. DaysOfResponse /\ [Next]_vars => DaysOfResponse'
  BY DEF DaysOfResponse, Next, Map, Score, vars
<1> QED BY <1>1, <1>2, PTL DEF Spec

\* A day is given no wave but one of its own date, however the dates of the two
\* responses are related.
THEOREM WavesAreOfTheirDate == Spec => []WavesOfTheirDate
<1>1. Typed /\ DaysOfResponse => WavesOfTheirDate
  <2> SUFFICES ASSUME Typed, DaysOfResponse,
                      NEW i \in DOMAIN days, days[i].waveHeightM # Null
               PROVE  \E j \in DOMAIN response.marineTime :
                        /\ response.marineTime[j] = days[i].date
                        /\ Cell(response.wave, j) = days[i].waveHeightM
    BY DEF WavesOfTheirDate
  <2>1. days = mapForecastDays(response)
    <3>1. ASSUME days = <<>> PROVE FALSE
      BY <3>1
    <3> QED BY <3>1 DEF DaysOfResponse
  <2>2. /\ days[i].date = response.time[i]
        /\ days[i].waveHeightM = WaveOf(response, i)
    BY <2>1 DEF mapForecastDays
  <2> DEFINE same == {j \in DOMAIN response.marineTime :
                        response.marineTime[j] = response.time[i]}
  <2>3. /\ Len(response.marineTime) \in Nat
        /\ DOMAIN response.marineTime = 1..Len(response.marineTime)
    BY DEF Typed, Response
  <2>4. /\ same # {}
        /\ WaveOf(response, i) =
             Cell(response.wave, CHOOSE j \in same : \A k \in same : k <= j)
    BY <2>2 DEF WaveOf
  <2>5. same \in SUBSET (1..Len(response.marineTime))
    BY <2>3
  <2> HIDE DEF same
  <2>6. \E j \in same : \A k \in same : k <= j
    BY <2>3, <2>4, <2>5, GreatestIndex
  <2>7. (CHOOSE j \in same : \A k \in same : k <= j) \in same
    BY <2>6
  <2> QED BY <2>2, <2>4, <2>7 DEF same
<1> QED BY <1>1, SpecTyped, SpecDays, PTL

-----------------------------------------------------------------------------
\* Scores and their sum.

\* A day has a score for an activity exactly if it has what the activity requires,
\* and this score is one of 0 to 100.
LEMMA ScoresAreInRange ==
    ASSUME NEW a \in Activities, NEW day \in Day
    PROVE  IF Required(a, day) # Null
           THEN scoreDay(a, day).available /\ scoreDay(a, day).score \in 0..100
           ELSE /\ ~scoreDay(a, day).available
                /\ scoreDay(a, day).score = Null /\ scoreDay(a, day).reasonCodes # {}
<1>1. a \in 1..4
  BY DEF Activities, ActivityTypes
<1>2. CASE Required(a, day) = Null
  BY <1>2 DEF scoreDay
<1>3. CASE Required(a, day) # Null
  <2>1. ASSUME NEW m \in Int, NEW one \in Nat \ {0} PROVE Clamp(m, one) \in 0..100
    <3>1. m <= m
      OBVIOUS
    <3> QED BY <3>1, ClampIsMonotone
  <2>2. CASE a = 1
    <3>1. SkiingScore(day) \in 0..100
      <4> DEFINE snow == OrZero(day.snowfallCm)
                 precip == OrZero(day.precipMm)
                 fresh == Least(400, 4 * snow)
                 wet == Least(300, precip)
                 cold == Points(day.tempMaxC \in -150..50, 200)
                 thaw == Points(day.tempMaxC > 20 /\ precip > 50, wet)
                 wind == Points(OrZero(day.windMaxKmh) > 4000, 150)
      <4>1. snow \in Nat /\ precip \in Nat
        BY SignalsAreNumbers DEF OrZero, Day
      <4> HIDE DEF snow, precip
      <4>2. fresh \in Int /\ wet \in Int
        BY <4>1 DEF Least
      <4> HIDE DEF fresh, wet
      <4>3. cold \in Int /\ thaw \in Int /\ wind \in Int
        BY <4>2 DEF Points
      <4> HIDE DEF cold, thaw, wind
      <4>4. 200 + cold + fresh - thaw - wind \in Int
        BY <4>2, <4>3
      <4>5. Clamp(200 + cold + fresh - thaw - wind, 10) \in 0..100
        BY <2>1, <4>4
      <4> QED BY <4>5 DEF SkiingScore, cold, thaw, wind, fresh, wet, snow, precip
    <3> QED BY <1>3, <2>2, <3>1 DEF scoreDay, Scored, ActivityTypes
  <2>3. CASE a = 2
    <3>1. SurfingScore(day) \in 0..100
      <4>1. day.waveHeightM \in Nat
        BY <1>3, <2>3 DEF Required, ActivityTypes, Day
      <4>2. WavePoints(day.waveHeightM) \in Int
        BY <4>1, MetreAssumption DEF WavePoints, Flat, TooBig, Greatest
      <4>3. WavePoints(day.waveHeightM)
              - Points(OrZero(day.windMaxKmh) > 4500, 20 * Metre)
              - Points(OrZero(day.precipMm) > 150, 10 * Metre) \in Int
        BY <4>2, MetreAssumption DEF Points
      <4> QED BY <2>1, <4>3, MetreAssumption DEF SurfingScore
    <3> QED BY <1>3, <2>3, <3>1 DEF scoreDay, Scored, ActivityTypes
  <2>4. CASE a = 3
    <3>1. OutdoorScore(day) \in 0..100
      <4>1. OrZero(day.precipMm) \in Nat
        BY SignalsAreNumbers
      <4>2. OutdoorRain(OrZero(day.precipMm)) \in Int
        BY <4>1 DEF OutdoorRain, Points, Least
      <4>3. OutdoorPoints(day) \in Int
        BY <4>2 DEF OutdoorPoints, Points
      <4> QED BY <2>1, <4>3 DEF OutdoorScore
    <3> QED BY <1>3, <2>4, <3>1 DEF scoreDay, Scored, ActivityTypes
  <2>5. CASE a = 4
    <3>1. IndoorScore(day) \in 0..100
      <4>1. IndoorRain(OrZero(day.precipMm)) \in Int
        BY DEF IndoorRain
      <4>2. IndoorPoints(day) \in Int
        BY <4>1 DEF IndoorPoints, Points
      <4> QED BY <2>1, <4>2 DEF IndoorScore
    <3> QED BY <1>3, <2>5, <3>1 DEF scoreDay, Scored, ActivityTypes
  <2> QED BY <1>1, <2>2, <2>3, <2>4, <2>5
<1> QED BY <1>2, <1>3

LEMMA ScoresAreIntegers == \A score \in 0..100 : score \in Int
  OBVIOUS

\* Partial sums of n integers.
IsSums(t, n, g) == t = [i \in 0..n |-> IF i = 0 THEN 0 ELSE t[i - 1] + g[i]]

\* They exist: the shortest stretch without them would be one longer than one that has
\* them.
LEMMA SumsExist ==
    ASSUME NEW n \in Nat, NEW g \in [1..n -> Int]
    PROVE  \E t : IsSums(t, n, g)
<1> DEFINE good(k) == \E t \in [0..k -> Int] :
                        t[0] = 0 /\ \A i \in 1..k : t[i] = t[i - 1] + g[i]
           bad == {k \in 0..n : ~good(k)}
<1>1. SUFFICES ASSUME bad # {} PROVE FALSE
  <2>1. good(n)
    <3> HIDE DEF good
    <3>1. bad = {}
      <4> HIDE DEF bad
      <4> QED BY <1>1
    <3> QED BY <3>1
  <2>2. PICK t \in [0..n -> Int] : t[0] = 0 /\ \A i \in 1..n : t[i] = t[i - 1] + g[i]
    BY <2>1
  <2>3. \A i \in 0..n : i # 0 => i \in 1..n
    OBVIOUS
  <2>4. IsSums(t, n, g)
    BY <2>2, <2>3 DEF IsSums
  <2> QED BY <2>4
<1>2. PICK k \in bad : \A j \in bad : k <= j
  <2> HIDE DEF bad
  <2>1. bad \in SUBSET (0..n)
    BY DEF bad
  <2> QED BY <1>1, <2>1, LeastIndex
<1>3. k \in 0..n /\ ~good(k)
  OBVIOUS
<1>4. k # 0
  <2> DEFINE zero == [i \in 0..0 |-> 0]
  <2>1. zero \in [0..0 -> Int] /\ zero[0] = 0 /\ 1..0 = {}
    OBVIOUS
  <2> HIDE DEF zero
  <2>2. good(0)
    BY <2>1
  <2> QED BY <1>3, <2>2
<1>5. k - 1 \in 0..n /\ good(k - 1)
  <2>1. k - 1 \in 0..n /\ ~(k <= k - 1)
    BY <1>3, <1>4
  <2>2. k - 1 \notin bad
    BY <1>2, <2>1
  <2> HIDE DEF good
  <2> QED BY <2>1, <2>2
<1>6. PICK t \in [0..k - 1 -> Int] :
         t[0] = 0 /\ \A i \in 1..k - 1 : t[i] = t[i - 1] + g[i]
  BY <1>5
<1> DEFINE u == [i \in 0..k |-> IF i = k THEN t[k - 1] + g[k] ELSE t[i]]
<1>7. u \in [0..k -> Int]
  BY <1>3, <1>4, <1>6
<1>8. u[0] = 0
  BY <1>3, <1>4, <1>6
<1>9. ASSUME NEW i \in 1..k PROVE u[i] = u[i - 1] + g[i]
  <2>1. i \in 0..k /\ i - 1 \in 0..k /\ i - 1 # k
    BY <1>3
  <2>2. u[i - 1] = t[i - 1]
    BY <2>1
  <2>3. CASE i = k
    BY <2>1, <2>2, <2>3
  <2>4. CASE i # k
    <3>1. i \in 1..k - 1
      BY <1>3, <2>4
    <3>2. u[i] = t[i]
      BY <2>1, <2>4
    <3> QED BY <1>6, <2>2, <3>1, <3>2
  <2> QED BY <2>3, <2>4
<1>10. good(k)
  <2> HIDE DEF u
  <2> QED BY <1>7, <1>8, <1>9
<1> QED BY <1>3, <1>10

\* They are integers.
LEMMA SumsAreIntegers ==
    ASSUME NEW n \in Nat, NEW g \in [1..n -> Int], NEW t, IsSums(t, n, g)
    PROVE  \A i \in 0..n : t[i] \in Int
<1> DEFINE bad == {i \in 0..n : t[i] \notin Int}
<1>1. SUFFICES ASSUME bad # {} PROVE FALSE
  OBVIOUS
<1>2. PICK k \in bad : \A j \in bad : k <= j
  <2>1. bad \in SUBSET (0..n)
    OBVIOUS
  <2> HIDE DEF bad
  <2> QED BY <1>1, <2>1, LeastIndex
<1>3. k \in 0..n /\ t[k] = IF k = 0 THEN 0 ELSE t[k - 1] + g[k]
  BY DEF IsSums
<1>4. CASE k = 0
  BY <1>3, <1>4
<1>5. CASE k # 0
  <2>1. k - 1 \in 0..n /\ k \in 1..n /\ ~(k <= k - 1)
    BY <1>3, <1>5
  <2>2. t[k - 1] \in Int
    BY <1>2, <2>1
  <2> QED BY <1>3, <1>5, <2>1, <2>2
<1> QED BY <1>4, <1>5

\* What the days add to the sum.
Summands(a, forecast) ==
    [i \in 1..Len(forecast) |->
        IF i \in Available(a, forecast) THEN scoreDay(a, forecast[i]).score ELSE 0]

LEMMA SummandsAreIntegers ==
    ASSUME NEW a \in Activities, NEW forecast \in Seq(Day)
    PROVE  Summands(a, forecast) \in [1..Len(forecast) -> Int]
<1>1. ASSUME NEW i \in 1..Len(forecast), i \in Available(a, forecast)
      PROVE  scoreDay(a, forecast[i]).score \in Int
  <2>1. forecast[i] \in Day
    OBVIOUS
  <2>2. scoreDay(a, forecast[i]).available
    BY <1>1 DEF Available
  <2>3. scoreDay(a, forecast[i]).score \in 0..100
    BY <2>1, <2>2, ScoresAreInRange
  <2> QED BY <2>3, ScoresAreIntegers, Zenon
<1>2. ASSUME NEW i \in 1..Len(forecast)
      PROVE  (IF i \in Available(a, forecast)
              THEN scoreDay(a, forecast[i]).score ELSE 0) \in Int
  BY <1>1
<1> QED BY <1>2 DEF Summands

LEMMA TotalIsTheirSum ==
    ASSUME NEW a \in Activities, NEW forecast \in Seq(Day)
    PROVE  \E t : /\ IsSums(t, Len(forecast), Summands(a, forecast))
                  /\ Total(a, forecast) = t[Len(forecast)]
<1> DEFINE n == Len(forecast)
           g == Summands(a, forecast)
           summand(i) == IF i \in Available(a, forecast)
                         THEN scoreDay(a, forecast[i]).score ELSE 0
           t == CHOOSE t : t = [i \in 0..n |-> IF i = 0 THEN 0 ELSE t[i - 1] + summand(i)]
<1>1. n \in Nat
  OBVIOUS
<1>2. Total(a, forecast) = t[n]
  BY DEF Total
<1>3. \A i \in 1..n : g[i] = summand(i)
  BY DEF Summands
<1>4. g \in [1..n -> Int]
  BY SummandsAreIntegers
<1> HIDE DEF n, g, summand
<1>5. ASSUME NEW u PROVE IsSums(u, n, g) <=>
         u = [i \in 0..n |-> IF i = 0 THEN 0 ELSE u[i - 1] + summand(i)]
  <2>1. \A i \in 0..n : i # 0 => i \in 1..n
    BY <1>1
  <2>2. [i \in 0..n |-> IF i = 0 THEN 0 ELSE u[i - 1] + summand(i)]
          = [i \in 0..n |-> IF i = 0 THEN 0 ELSE u[i - 1] + g[i]]
    BY <1>3, <2>1
  <2> QED BY <2>2 DEF IsSums
<1>6. IsSums(t, n, g)
  <2>1. \E u : u = [i \in 0..n |-> IF i = 0 THEN 0 ELSE u[i - 1] + summand(i)]
    BY <1>1, <1>4, <1>5, SumsExist
  <2>2. t = [i \in 0..n |-> IF i = 0 THEN 0 ELSE t[i - 1] + summand(i)]
    BY <2>1
  <2> HIDE DEF t
  <2> QED BY <1>5, <2>2
<1> HIDE DEF t
<1> QED BY <1>2, <1>6 DEF n, g

LEMMA TotalIsInteger ==
    ASSUME NEW a \in Activities, NEW forecast \in Seq(Day)
    PROVE  Total(a, forecast) \in Int
<1> DEFINE n == Len(forecast)
           g == Summands(a, forecast)
<1>1. n \in Nat /\ g \in [1..n -> Int]
  BY SummandsAreIntegers
<1>2. PICK t : IsSums(t, n, g) /\ Total(a, forecast) = t[n]
  BY TotalIsTheirSum
<1> HIDE DEF n, g
<1>3. t[n] \in Int
  BY <1>1, <1>2, SumsAreIntegers
<1> QED BY <1>2, <1>3

\* The mean of a forecast is a fraction.
Fraction(m) == m # Null => m.sum \in Int /\ m.of \in Nat \ {0}

LEMMA MeanIsFraction ==
    ASSUME NEW a \in Activities, NEW forecast \in Seq(Day)
    PROVE  Fraction(Mean(a, forecast))
<1>1. CASE Available(a, forecast) = {}
  BY <1>1 DEF Mean, Fraction
<1>2. CASE Available(a, forecast) # {}
  <2>1. Len(forecast) \in Nat /\ DOMAIN forecast = 1..Len(forecast)
    OBVIOUS
  <2>2. IsFiniteSet(1..Len(forecast))
    BY <2>1, FS_Interval
  <2>3. IsFiniteSet(Available(a, forecast))
    BY <2>1, <2>2, FS_Subset DEF Available
  <2>4. Cardinality(Available(a, forecast)) \in Nat \ {0}
    BY <1>2, <2>3, FS_CardinalityType, FS_EmptySet
  <2>5. Total(a, forecast) \in Int
    BY TotalIsInteger
  <2> QED BY <1>2, <2>4, <2>5 DEF Mean, Fraction
<1> QED BY <1>1, <1>2

-----------------------------------------------------------------------------
\* The order of the activities.

\* Fractions are compared as they should be.
LEMMA FractionsAreOrdered ==
    ASSUME NEW s1 \in Int, NEW s2 \in Int, NEW s3 \in Int,
           NEW n1 \in Nat \ {0}, NEW n2 \in Nat \ {0}, NEW n3 \in Nat \ {0},
           s1 * n2 >= s2 * n1, s2 * n3 >= s3 * n2
    PROVE  /\ s1 * n3 >= s3 * n1
           /\ s1 * n2 > s2 * n1 \/ s2 * n3 > s3 * n2 => s1 * n3 > s3 * n1
           /\ s1 * n2 = s2 * n1 /\ s2 * n3 = s3 * n2 => s1 * n3 = s3 * n1
<1> DEFINE x == (s1 * n2) * n3
           y == (s2 * n1) * n3
           z == (s3 * n2) * n1
<1>1. y = (s2 * n3) * n1
  OBVIOUS
<1>2. /\ s1 * n2 \in Int /\ s2 * n1 \in Int /\ s2 * n3 \in Int /\ s3 * n2 \in Int
      /\ s1 * n3 \in Int /\ s3 * n1 \in Int
  OBVIOUS
<1>3. /\ x \in Int /\ y \in Int /\ z \in Int
      /\ s1 * n2 > s2 * n1 <=> x > y
      /\ s1 * n2 = s2 * n1 <=> x = y
  BY <1>2, Times
<1>4. /\ s2 * n3 > s3 * n2 <=> y > z
      /\ s2 * n3 = s3 * n2 <=> y = z
  BY <1>1, <1>2, Times
<1>5. x = (s1 * n3) * n2 /\ z = (s3 * n1) * n2
  OBVIOUS
<1>6. /\ s1 * n3 > s3 * n1 <=> x > z
      /\ s1 * n3 = s3 * n1 <=> x = z
  BY <1>2, <1>5, Times
<1> HIDE DEF x, y, z
<1> QED BY <1>2, <1>3, <1>4, <1>6

\* The comparison is a strict total order of the activities.
LEMMA PrecedesIsAnOrder ==
    ASSUME NEW mean, \A a \in Activities : Fraction(mean[a]),
           NEW a \in Activities, NEW b \in Activities, NEW c \in Activities
    PROVE  /\ ~Precedes(mean, a, a)
           /\ Precedes(mean, a, b) /\ Precedes(mean, b, c) => Precedes(mean, a, c)
           /\ a = b \/ Precedes(mean, a, b) \/ Precedes(mean, b, a)
<1>0. a \in Int /\ b \in Int /\ c \in Int
  BY DEF Activities, ActivityTypes
<1>1. ~Precedes(mean, a, a)
  BY <1>0 DEF Precedes, Above, Fraction
<1>2. a = b \/ Precedes(mean, a, b) \/ Precedes(mean, b, a)
  <2>1. CASE mean[a] # Null /\ mean[b] # Null
    <3> DEFINE x == mean[a].sum * mean[b].of
               y == mean[b].sum * mean[a].of
    <3>1. x \in Int /\ y \in Int
      BY <2>1 DEF Fraction
    <3>2. /\ Above(mean[a], mean[b]) <=> x > y
          /\ Above(mean[b], mean[a]) <=> y > x
          /\ Ties(mean[a], mean[b]) <=> x = y
          /\ Ties(mean[b], mean[a]) <=> y = x
      BY DEF Above, Ties
    <3> HIDE DEF x, y
    <3> QED BY <1>0, <2>1, <3>1, <3>2 DEF Precedes
  <2>2. CASE ~(mean[a] # Null /\ mean[b] # Null)
    BY <1>0, <2>2 DEF Precedes
  <2> QED BY <2>1, <2>2
<1>3. ASSUME Precedes(mean, a, b), Precedes(mean, b, c) PROVE Precedes(mean, a, c)
  <2>1. CASE mean[a] # Null /\ mean[b] # Null /\ mean[c] # Null
    <3> DEFINE s1 == mean[a].sum
               n1 == mean[a].of
               s2 == mean[b].sum
               n2 == mean[b].of
               s3 == mean[c].sum
               n3 == mean[c].of
    <3>1. /\ s1 \in Int /\ s2 \in Int /\ s3 \in Int
          /\ n1 \in Nat \ {0} /\ n2 \in Nat \ {0} /\ n3 \in Nat \ {0}
      BY <2>1 DEF Fraction
    <3>2. /\ s1 * n2 > s2 * n1 \/ (s1 * n2 = s2 * n1 /\ a < b)
          /\ s2 * n3 > s3 * n2 \/ (s2 * n3 = s3 * n2 /\ b < c)
      BY <1>3, <2>1 DEF Precedes, Above, Ties
    <3>3. SUFFICES s1 * n3 > s3 * n1 \/ (s1 * n3 = s3 * n1 /\ a < c)
      BY <2>1 DEF Precedes, Above, Ties
    <3> HIDE DEF s1, n1, s2, n2, s3, n3
    <3>4. /\ s1 * n2 \in Int /\ s2 * n1 \in Int /\ s2 * n3 \in Int /\ s3 * n2 \in Int
      BY <3>1
    <3>5. s1 * n2 >= s2 * n1 /\ s2 * n3 >= s3 * n2
      BY <3>2, <3>4
    <3>6. /\ s1 * n2 > s2 * n1 \/ s2 * n3 > s3 * n2 => s1 * n3 > s3 * n1
          /\ s1 * n2 = s2 * n1 /\ s2 * n3 = s3 * n2 => s1 * n3 = s3 * n1
      BY <3>1, <3>5, FractionsAreOrdered
    <3> QED BY <1>0, <3>2, <3>6
  <2>2. CASE ~(mean[a] # Null /\ mean[b] # Null /\ mean[c] # Null)
    BY <1>0, <1>3, <2>2 DEF Precedes
  <2> QED BY <2>1, <2>2
<1> QED BY <1>1, <1>2, <1>3

\* The ranks number the activities, in that order.
LEMMA RanksNumberTheActivities ==
    ASSUME NEW mean, \A a \in Activities : Fraction(mean[a])
    PROVE  /\ {Rank(mean, a) : a \in Activities} = Activities
           /\ \A a, b \in Activities :
                Rank(mean, a) < Rank(mean, b) => Precedes(mean, a, b)
<1> DEFINE before(a) == {b \in Activities : Precedes(mean, b, a)}
           rank == [a \in Activities |-> Rank(mean, a)]
<1>1. Activities = 1..4 /\ IsFiniteSet(Activities) /\ Cardinality(Activities) = 4
  <2> DEFINE last == 4
  <2>1. Activities = 1..last
    BY DEF Activities, ActivityTypes
  <2>2. last \in Int /\ last >= 1
    OBVIOUS
  <2> HIDE DEF last
  <2>3. IsFiniteSet(1..last) /\ Cardinality(1..last) = last
    BY <2>2, FS_Interval
  <2> QED BY <2>1, <2>3 DEF last
<1>2. ASSUME NEW a \in Activities
      PROVE  /\ IsFiniteSet(before(a))
             /\ Cardinality(before(a)) \in Nat /\ Cardinality(before(a)) < 4
             /\ Rank(mean, a) = 1 + Cardinality(before(a))
             /\ Rank(mean, a) \in Activities
  <2>1. before(a) \in SUBSET Activities
    OBVIOUS
  <2>2. a \notin before(a)
    BY PrecedesIsAnOrder
  <2>3. Rank(mean, a) = 1 + Cardinality(before(a))
    BY DEF Rank
  <2> HIDE DEF before
  <2>4. IsFiniteSet(before(a)) /\ Cardinality(before(a)) <= 4 /\ Cardinality(before(a)) # 4
    BY <1>1, <2>1, <2>2, FS_Subset
  <2>5. Cardinality(before(a)) \in Nat
    BY <2>4, FS_CardinalityType
  <2> QED BY <1>1, <2>3, <2>4, <2>5
<1>3. ASSUME NEW a \in Activities, NEW b \in Activities, Precedes(mean, a, b)
      PROVE  Rank(mean, a) < Rank(mean, b)
  <2>1. a \notin before(a) /\ a \in before(b)
    BY <1>3, PrecedesIsAnOrder
  <2>2. ASSUME NEW c \in before(a) PROVE c \in before(b)
    BY <1>3, PrecedesIsAnOrder
  <2>3. before(a) \in SUBSET before(b) /\ before(a) # before(b)
    BY <2>1, <2>2
  <2> HIDE DEF before
  <2>4. /\ Cardinality(before(a)) <= Cardinality(before(b))
        /\ Cardinality(before(a)) # Cardinality(before(b))
    BY <1>2, <2>3, FS_Subset
  <2> QED BY <1>2, <2>4
<1>4. ASSUME NEW a \in Activities, NEW b \in Activities, Rank(mean, a) < Rank(mean, b)
      PROVE  Precedes(mean, a, b)
  <2>1. Rank(mean, a) \in Int /\ Rank(mean, b) \in Int
    BY <1>1, <1>2
  <2>2. a # b /\ ~Precedes(mean, b, a)
    BY <1>3, <1>4, <2>1
  <2> QED BY <2>2, PrecedesIsAnOrder
<1>5. rank \in Injection(Activities, Activities)
  <2>1. rank \in [Activities -> Activities]
    BY <1>2
  <2>2. ASSUME NEW a \in Activities, NEW b \in Activities, a # b
        PROVE  rank[a] # rank[b]
    <3>1. Rank(mean, a) \in Int /\ Rank(mean, b) \in Int
      BY <1>1, <1>2
    <3>2. Rank(mean, a) < Rank(mean, b) \/ Rank(mean, b) < Rank(mean, a)
      BY <1>3, <2>2, PrecedesIsAnOrder
    <3> QED BY <3>1, <3>2
  <2> HIDE DEF rank
  <2> QED BY <2>1, <2>2, Zenon DEF Injection, IsInjective
<1>6. rank \in Surjection(Activities, Activities)
  <2> HIDE DEF rank
  <2> QED BY <1>1, <1>5, FS_Injection
<1>7. \A r \in Activities : \E a \in Activities : Rank(mean, a) = r
  <2>1. \A r \in Activities : \E a \in Activities : rank[a] = r
    <3> HIDE DEF rank
    <3> QED BY <1>6, Zenon DEF Surjection
  <2> QED BY <2>1
<1> QED BY <1>2, <1>4, <1>7

\* A ranking is that of the days.
RankingOfDays == ranking = <<>> \/ (days # <<>> /\ ranking = scoreAll(days))

LEMMA SpecRanking == Spec => []RankingOfDays
<1>1. Init => RankingOfDays
  BY DEF Init, RankingOfDays
<1>2. RankingOfDays /\ [Next]_vars => RankingOfDays'
  BY DEF RankingOfDays, Next, Map, Score, vars
<1> QED BY <1>1, <1>2, PTL DEF Spec

\* "1 = best among activities with scores; stable tie-break by ActivityType enum
\* order" (docs/contracts/schema.graphql:59), for every forecast: the comparison is a
\* strict total order even with means that are absent, equal, or of different numbers
\* of days, so the ranks are 1 to 4 and do not depend on the sort.
THEOREM RanksFollow == Spec => []RanksFollowScores
<1>1. Typed /\ RankingOfDays => RanksFollowScores
  <2> SUFFICES ASSUME Typed, RankingOfDays, ranking # <<>> PROVE RanksFollowScores
    BY DEF RanksFollowScores
  <2> DEFINE mean == [a \in Activities |-> Mean(a, days)]
  <2>1. \A a \in Activities : Fraction(mean[a])
    BY MeanIsFraction DEF Typed
  <2>2. \A a \in Activities :
          /\ ranking[a].overallScore = mean[a]
          /\ ranking[a].rank = Rank(mean, a)
    BY DEF RankingOfDays, scoreAll
  <2> HIDE DEF mean
  <2>3. /\ {Rank(mean, a) : a \in Activities} = Activities
        /\ \A a, b \in Activities :
             Rank(mean, a) < Rank(mean, b) => Precedes(mean, a, b)
    BY <2>1, RanksNumberTheActivities
  <2>4. {ranking[a].rank : a \in Activities} = Activities
    BY <2>2, <2>3
  <2>5. ASSUME NEW a \in Activities, NEW b \in Activities,
               ranking[a].rank < ranking[b].rank
        PROVE  LET m == ranking[a].overallScore
                   n == ranking[b].overallScore
               IN  \/ n = Null /\ (m = Null => a < b)
                   \/ /\ m # Null /\ n # Null
                      /\ m.sum * n.of >= n.sum * m.of
                      /\ m.sum * n.of = n.sum * m.of => a < b
    <3>1. Precedes(mean, a, b)
      BY <2>2, <2>3, <2>5
    <3>2. CASE mean[a] # Null /\ mean[b] # Null
      <4> DEFINE x == mean[a].sum * mean[b].of
                 y == mean[b].sum * mean[a].of
      <4>1. x \in Int /\ y \in Int
        BY <2>1, <3>2 DEF Fraction
      <4>2. x > y \/ (x = y /\ a < b)
        BY <3>1, <3>2 DEF Precedes, Above, Ties
      <4> HIDE DEF x, y
      <4>3. x >= y /\ (x = y => a < b)
        BY <4>1, <4>2
      <4> QED BY <2>2, <3>2, <4>3 DEF x, y
    <3>3. CASE mean[a] = Null \/ mean[b] = Null
      BY <2>2, <3>1, <3>3 DEF Precedes
    <3> QED BY <3>2, <3>3
  <2> QED BY <2>4, <2>5 DEF RanksFollowScores
<1> QED BY <1>1, SpecTyped, SpecRanking, PTL

-----------------------------------------------------------------------------
\* Days without a score.

\* A set of indices is numbered from 1 on, in its order.
Upto(has, i) == {j \in has : j <= i}

LEMMA UptoCounts ==
    ASSUME NEW n \in Nat, NEW has \in SUBSET (1..n)
    PROVE  /\ IsFiniteSet(has) /\ Cardinality(has) \in Nat
           /\ \A i \in 0..n : /\ IsFiniteSet(Upto(has, i))
                              /\ Cardinality(Upto(has, i)) \in 0..Cardinality(has)
           /\ Upto(has, 0) = {} /\ Cardinality(Upto(has, 0)) = 0
           /\ Upto(has, n) = has
           /\ \A i \in 1..n :
                Cardinality(Upto(has, i)) =
                  IF i \in has THEN Cardinality(Upto(has, i - 1)) + 1
                               ELSE Cardinality(Upto(has, i - 1))
<1>1. IsFiniteSet(has) /\ Cardinality(has) \in Nat
  <2>1. IsFiniteSet(1..n)
    BY FS_Interval
  <2>2. IsFiniteSet(has)
    BY <2>1, FS_Subset
  <2> QED BY <2>2, FS_CardinalityType
<1>2. ASSUME NEW i \in 0..n
      PROVE  /\ IsFiniteSet(Upto(has, i))
             /\ Cardinality(Upto(has, i)) \in 0..Cardinality(has)
  <2>1. Upto(has, i) \in SUBSET has
    BY DEF Upto
  <2>2. /\ IsFiniteSet(Upto(has, i))
        /\ Cardinality(Upto(has, i)) <= Cardinality(has)
    BY <1>1, <2>1, FS_Subset
  <2>3. Cardinality(Upto(has, i)) \in Nat
    BY <2>2, FS_CardinalityType
  <2> DEFINE c == Cardinality(Upto(has, i))
             m == Cardinality(has)
  <2>4. c \in Nat /\ m \in Nat /\ c <= m
    BY <1>1, <2>2, <2>3
  <2>5. c \in 0..m
    <3> HIDE DEF c, m
    <3> QED BY <2>4
  <2> QED BY <2>2, <2>5
<1>3. Upto(has, 0) = {} /\ Cardinality(Upto(has, 0)) = 0
  <2>1. \A j \in has : ~(j <= 0)
    OBVIOUS
  <2>2. Upto(has, 0) = {}
    BY <2>1, Zenon DEF Upto
  <2> QED BY <2>2, FS_EmptySet
<1>4. Upto(has, n) = has
  <2>1. \A j \in has : j <= n
    OBVIOUS
  <2> QED BY <2>1, Zenon DEF Upto
<1>5. ASSUME NEW i \in 1..n
      PROVE  Cardinality(Upto(has, i)) =
               IF i \in has THEN Cardinality(Upto(has, i - 1)) + 1
                            ELSE Cardinality(Upto(has, i - 1))
  <2>1. i - 1 \in 0..n /\ ~(i <= i - 1) /\ i <= i
    OBVIOUS
  <2>2. i \notin Upto(has, i - 1)
    BY <2>1, Zenon DEF Upto
  <2>3. \A j \in has : (j <= i) <=> (j <= i - 1 \/ j = i)
    OBVIOUS
  <2>4. \A j \in Upto(has, i) : j \in Upto(has, i - 1) \/ j = i
    BY <2>3, Zenon DEF Upto
  <2>5. \A j \in Upto(has, i - 1) : j \in Upto(has, i)
    BY <2>3, Zenon DEF Upto
  <2>6. CASE i \in has
    <3>1. i \in Upto(has, i)
      BY <2>1, <2>6, Zenon DEF Upto
    <3>2. Upto(has, i) = Upto(has, i - 1) \cup {i}
      BY <2>4, <2>5, <3>1
    <3>3. IsFiniteSet(Upto(has, i - 1))
      BY <1>2, <2>1
    <3>4. Cardinality(Upto(has, i - 1) \cup {i}) = Cardinality(Upto(has, i - 1)) + 1
      BY <2>2, <3>3, FS_AddElement
    <3> QED BY <2>6, <3>2, <3>4, Zenon
  <2>7. CASE i \notin has
    <3>1. i \notin Upto(has, i)
      BY <2>7, Zenon DEF Upto
    <3>2. Upto(has, i) = Upto(has, i - 1)
      BY <2>4, <2>5, <3>1
    <3> QED BY <2>7, <3>2, Zenon
  <2> QED BY <2>6, <2>7
<1> QED BY <1>1, <1>2, <1>3, <1>4, <1>5

LEMMA UptoNumbers ==
    ASSUME NEW n \in Nat, NEW has \in SUBSET (1..n)
    PROVE  /\ \A i \in has : Cardinality(Upto(has, i)) \in 1..Cardinality(has)
           /\ \A i, j \in has :
                Cardinality(Upto(has, i)) = Cardinality(Upto(has, j)) => i = j
           /\ \A k \in 1..Cardinality(has) :
                \E i \in has : Cardinality(Upto(has, i)) = k
<1> DEFINE m == Cardinality(has)
           number == [i \in has |-> Cardinality(Upto(has, i))]
<1>1. IsFiniteSet(has) /\ m \in Nat
  BY UptoCounts
<1>2. ASSUME NEW i \in has
      PROVE  /\ IsFiniteSet(Upto(has, i))
             /\ Cardinality(Upto(has, i)) \in 0..m
             /\ Cardinality(Upto(has, i)) \in 1..m
  <2>1. i \in 0..n
    OBVIOUS
  <2>2. IsFiniteSet(Upto(has, i)) /\ Cardinality(Upto(has, i)) \in 0..m
    BY <2>1, UptoCounts
  <2>3. Upto(has, i) # {}
    BY DEF Upto
  <2>4. Cardinality(Upto(has, i)) # 0
    BY <2>2, <2>3, FS_EmptySet
  <2> HIDE DEF m
  <2> QED BY <1>1, <2>2, <2>4
<1>3. ASSUME NEW i \in has, NEW j \in has, i < j
      PROVE  Cardinality(Upto(has, i)) # Cardinality(Upto(has, j))
  <2>1. \A k \in has : k <= i => k <= j
    BY <1>3
  <2>2. j <= j /\ ~(j <= i)
    BY <1>3
  <2>3. Upto(has, i) \in SUBSET Upto(has, j)
    BY <2>1, Zenon DEF Upto
  <2>4. j \in Upto(has, j) /\ j \notin Upto(has, i)
    BY <2>2, Zenon DEF Upto
  <2> QED BY <1>2, <2>3, <2>4, FS_Subset
<1>4. ASSUME NEW i \in has, NEW j \in has, i # j
      PROVE  Cardinality(Upto(has, i)) # Cardinality(Upto(has, j))
  <2>1. i < j \/ j < i
    BY <1>4
  <2> QED BY <1>3, <2>1
<1>5. number \in Injection(has, 1..m)
  <2>1. number \in [has -> 1..m]
    BY <1>2
  <2>2. \A i, j \in has : number[i] = number[j] => i = j
    BY <1>4
  <2> HIDE DEF number, m
  <2> QED BY <2>1, <2>2, Zenon DEF Injection, IsInjective
<1>6. number \in Surjection(has, 1..m)
  <2> HIDE DEF number, m
  <2>1. IsFiniteSet(1..m) /\ Cardinality(1..m) = m
    BY <1>1, FS_Interval
  <2>2. Cardinality(has) = Cardinality(1..m)
    BY <2>1 DEF m
  <2> QED BY <1>5, <2>1, <2>2, FS_Injection
<1>7. \A k \in 1..m : \E i \in has : number[i] = k
  <2> HIDE DEF number, m
  <2> QED BY <1>6, Zenon DEF Surjection
<1> QED BY <1>2, <1>4, <1>7

\* The days of the forecast that is left.
LEMMA ScorableDays ==
    ASSUME NEW a \in Activities, NEW forecast \in Seq(Day)
    PROVE  LET has == Available(a, forecast)
               kept == Scorable(a, forecast)
           IN  /\ has \in SUBSET (1..Len(forecast))
               /\ kept \in Seq(Day) /\ Len(kept) = Cardinality(has)
               /\ \A i \in has : kept[Cardinality(Upto(has, i))] = forecast[i]
               /\ Available(a, kept) = 1..Cardinality(has)
<1> DEFINE n == Len(forecast)
           has == Available(a, forecast)
           kept == Scorable(a, forecast)
           m == Cardinality(has)
           index(k) == CHOOSE i \in has : Cardinality(Upto(has, i)) = k
<1>1. n \in Nat /\ DOMAIN forecast = 1..n /\ \A i \in 1..n : forecast[i] \in Day
  OBVIOUS
<1>2. has = {i \in 1..n : Required(a, forecast[i]) # Null}
  <2> HIDE DEF n
  <2>1. \A i \in 1..n :
          scoreDay(a, forecast[i]).available <=> Required(a, forecast[i]) # Null
    BY <1>1, ScoresAreInRange
  <2> QED BY <1>1, <2>1 DEF Available
<1>3. kept = [k \in 1..m |-> forecast[index(k)]]
  BY <1>1, <1>2 DEF Scorable, Upto
<1>4. has \in SUBSET (1..n)
  BY <1>2
<1> HIDE DEF n, has, kept
<1>5. m \in Nat
  BY <1>1, <1>4, UptoCounts
<1>6. ASSUME NEW k \in 1..m
      PROVE  index(k) \in has /\ Cardinality(Upto(has, index(k))) = k
  <2>1. \A l \in 1..Cardinality(has) : \E i \in has : Cardinality(Upto(has, i)) = l
    BY <1>1, <1>4, UptoNumbers, Zenon
  <2>2. \E i \in has : Cardinality(Upto(has, i)) = k
    BY <2>1, Zenon DEF m
  <2> QED BY <2>2
<1>7. ASSUME NEW i \in has
      PROVE  /\ Cardinality(Upto(has, i)) \in 1..m
             /\ index(Cardinality(Upto(has, i))) = i
  <2>1. Cardinality(Upto(has, i)) \in 1..m
    BY <1>1, <1>4, UptoNumbers
  <2>2. /\ index(Cardinality(Upto(has, i))) \in has
        /\ Cardinality(Upto(has, index(Cardinality(Upto(has, i)))))
             = Cardinality(Upto(has, i))
    BY <1>6, <2>1
  <2> HIDE DEF index
  <2> QED BY <1>1, <1>4, <2>1, <2>2, UptoNumbers
<1> HIDE DEF m, index
<1>8. kept \in Seq(Day) /\ Len(kept) = m
  <2>1. \A k \in 1..m : forecast[index(k)] \in Day
    BY <1>1, <1>4, <1>6
  <2> QED BY <1>3, <1>5, <2>1
<1>9. \A i \in has : kept[Cardinality(Upto(has, i))] = forecast[i]
  BY <1>3, <1>7
<1>10. Available(a, kept) = 1..m
  <2>1. DOMAIN kept = 1..m
    BY <1>3
  <2>2. ASSUME NEW k \in 1..m PROVE scoreDay(a, kept[k]).available
    <3>1. kept[k] = forecast[index(k)] /\ index(k) \in has
      BY <1>3, <1>6
    <3>2. scoreDay(a, forecast[index(k)]).available
      BY <3>1 DEF has, Available
    <3> QED BY <3>1, <3>2
  <2> QED BY <2>1, <2>2 DEF Available
<1> QED BY <1>4, <1>8, <1>9, <1>10 DEF n, has, kept, m

\* The sum over the scorable days, up to the number of a day, is the sum over the
\* forecast up to that day.
LEMMA SumOfScorable ==
    ASSUME NEW a \in Activities, NEW forecast \in Seq(Day)
    PROVE  Total(a, Scorable(a, forecast)) = Total(a, forecast)
<1> DEFINE n == Len(forecast)
           has == Available(a, forecast)
           kept == Scorable(a, forecast)
           m == Cardinality(has)
           count(i) == Cardinality(Upto(has, i))
           g == Summands(a, forecast)
           h == Summands(a, kept)
<1>1. /\ has \in SUBSET (1..n)
      /\ kept \in Seq(Day) /\ Len(kept) = m
      /\ \A i \in has : kept[count(i)] = forecast[i]
      /\ Available(a, kept) = 1..m
  BY ScorableDays
<1>2. n \in Nat
  OBVIOUS
<1>3. PICK t : IsSums(t, n, g) /\ Total(a, forecast) = t[n]
  BY TotalIsTheirSum
<1>4. PICK u : IsSums(u, m, h) /\ Total(a, kept) = u[m]
  <2> HIDE DEF kept, m
  <2> QED BY <1>1, TotalIsTheirSum
<1>5. \A i \in 1..n : g[i] = IF i \in has THEN scoreDay(a, forecast[i]).score ELSE 0
  BY DEF Summands
<1>6. \A k \in 1..m : h[k] = scoreDay(a, kept[k]).score
  <2> HIDE DEF kept, m
  <2> QED BY <1>1 DEF Summands
<1>7. g \in [1..n -> Int]
  BY SummandsAreIntegers
<1> HIDE DEF n, has, kept, m, g, h
<1>8. /\ count(0) = 0 /\ count(n) = m /\ m \in Nat
      /\ \A i \in 0..n : count(i) \in 0..m
      /\ \A i \in 1..n : count(i) = IF i \in has THEN count(i - 1) + 1 ELSE count(i - 1)
  BY <1>1, <1>2, UptoCounts DEF m
<1>9. \A i \in has : count(i) \in 1..m
  BY <1>1, <1>2, UptoNumbers DEF m
<1> HIDE DEF count
<1> DEFINE bad == {i \in 0..n : t[i] # u[count(i)]}
<1>10. ASSUME bad # {} PROVE FALSE
  <2>1. PICK i \in bad : \A j \in bad : i <= j
    <3>1. bad \in SUBSET (0..n)
      OBVIOUS
    <3> HIDE DEF bad
    <3> QED BY <1>2, <1>10, <3>1, LeastIndex
  <2>2. i \in 0..n /\ t[i] # u[count(i)]
    OBVIOUS
  <2>3. t[i] = (IF i = 0 THEN 0 ELSE t[i - 1] + g[i])
    BY <1>3, <2>2 DEF IsSums
  <2>4. CASE i = 0
    <3>1. u[0] = 0
      BY <1>4, <1>8 DEF IsSums
    <3> QED BY <1>8, <2>2, <2>3, <2>4, <3>1
  <2>5. CASE i # 0
    <3>1. i \in 1..n /\ i - 1 \in 0..n /\ ~(i <= i - 1)
      <4> HIDE DEF bad
      <4>1. i \in 0..n
        BY <2>2
      <4> QED BY <1>2, <2>5, <4>1
    <3>2. t[i - 1] = u[count(i - 1)]
      BY <2>1, <3>1
    <3>3. t[i - 1] \in Int
      BY <1>2, <1>3, <1>7, <3>1, SumsAreIntegers
    <3>4. CASE i \in has
      <4>1. count(i) \in 1..m /\ count(i) - 1 = count(i - 1)
        BY <1>8, <1>9, <3>1, <3>4
      <4>2. count(i) \in 0..m /\ count(i) # 0
        BY <1>8, <4>1
      <4>3. u[count(i)] = u[count(i) - 1] + h[count(i)]
        BY <1>4, <4>2 DEF IsSums
      <4>4. h[count(i)] = g[i]
        BY <1>1, <1>5, <1>6, <3>1, <3>4, <4>1
      <4> QED BY <2>2, <2>3, <2>5, <3>2, <4>1, <4>3, <4>4
    <3>5. CASE i \notin has
      BY <1>5, <1>8, <2>2, <2>3, <2>5, <3>1, <3>2, <3>3, <3>5
    <3> QED BY <3>4, <3>5
  <2> QED BY <2>4, <2>5
<1>11. t[n] = u[count(n)]
  <2>1. n \in 0..n
    BY <1>2
  <2> QED BY <1>10, <2>1
<1> QED BY <1>3, <1>4, <1>8, <1>11 DEF kept

\* "do not invent data" (docs/03-api-and-domain-design.md:118), for every forecast: a day
\* without what an activity requires has no score and a reason, and the mean of the
\* activity is that of the forecast from which all such days are removed, however
\* many they are and wherever they stand.
THEOREM MissingDays == Spec => []MissingDaysDoNotCount
<1>1. ASSUME NEW a \in Activities, NEW forecast \in Seq(Day)
      PROVE  Mean(a, Scorable(a, forecast)) = Mean(a, forecast)
  <2> DEFINE has == Available(a, forecast)
             m == Cardinality(has)
  <2>1. has \in SUBSET (1..Len(forecast)) /\ Available(a, Scorable(a, forecast)) = 1..m
    BY ScorableDays
  <2>2. Len(forecast) \in Nat
    OBVIOUS
  <2> HIDE DEF has
  <2>3. IsFiniteSet(has) /\ m \in Nat
    BY <2>1, <2>2, UptoCounts
  <2>4. m = 0 <=> has = {}
    BY <2>3, FS_EmptySet
  <2> HIDE DEF m
  <2>5. Cardinality(1..m) = m
    <3>1. Cardinality(1..m) = IF 1 > m THEN 0 ELSE m - 1 + 1
      BY <2>3, FS_Interval
    <3> QED BY <2>3, <3>1
  <2>6. 1..m = {} <=> m = 0
    <3>1. CASE m = 0
      BY <3>1
    <3>2. CASE m # 0
      <4>1. 1 \in 1..m
        BY <2>3, <3>2
      <4> QED BY <3>2, <4>1
    <3> QED BY <3>1, <3>2
  <2> QED BY <2>1, <2>4, <2>5, <2>6, SumOfScorable DEF Mean, has, m
<1>2. Typed /\ RankingOfDays => MissingDaysDoNotCount
  <2> SUFFICES ASSUME Typed, RankingOfDays, ranking # <<>>, NEW a \in Activities
               PROVE  /\ \A i \in DOMAIN days :
                           LET score == ranking[a].days[i]
                           IN  IF Required(a, days[i]) # Null
                               THEN score.available /\ score.score \in 0..100
                               ELSE /\ ~score.available
                                    /\ score.score = Null /\ score.reasonCodes # {}
                      /\ ranking[a].overallScore = Mean(a, Scorable(a, days))
    BY DEF MissingDaysDoNotCount
  <2>1. days \in Seq(Day)
    BY DEF Typed
  <2>2. /\ ranking[a].overallScore = Mean(a, days)
        /\ ranking[a].days = [i \in DOMAIN days |-> scoreDay(a, days[i])]
    <3>1. ranking = scoreAll(days)
      BY DEF RankingOfDays
    <3> DEFINE mean == [b \in Activities |-> Mean(b, days)]
               scored(b) == [overallScore |-> mean[b],
                             rank |-> Rank(mean, b),
                             days |-> [i \in DOMAIN days |-> scoreDay(b, days[i])]]
    <3>2. ranking = [b \in Activities |-> scored(b)]
      BY <3>1, Zenon DEF scoreAll
    <3>3. mean[a] = Mean(a, days)
      OBVIOUS
    <3> HIDE DEF mean
    <3>4. /\ scored(a).overallScore = mean[a]
          /\ scored(a).days = [i \in DOMAIN days |-> scoreDay(a, days[i])]
      OBVIOUS
    <3> HIDE DEF scored
    <3>5. ranking[a] = scored(a)
      BY <3>2
    <3> QED BY <3>3, <3>4, <3>5, Zenon
  <2>3. ASSUME NEW i \in DOMAIN days
        PROVE  LET score == ranking[a].days[i]
               IN  IF Required(a, days[i]) # Null
                   THEN score.available /\ score.score \in 0..100
                   ELSE /\ ~score.available
                        /\ score.score = Null /\ score.reasonCodes # {}
    <3>1. days[i] \in Day
      BY <2>1
    <3>2. ranking[a].days[i] = scoreDay(a, days[i])
      BY <2>2
    <3> QED BY <3>1, <3>2, ScoresAreInRange, Zenon
  <2> QED BY <1>1, <2>1, <2>2, <2>3
<1> QED BY <1>2, SpecTyped, SpecRanking, PTL
=============================================================================
