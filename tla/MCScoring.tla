------------------------------ MODULE MCScoring ------------------------------
(* Each signal at a level on either side of its thresholds and absent; forecasts *)
(* of two days whose columns are short, have gaps, or come with a marine response *)
(* for other dates.                                                              *)
EXTENDS Scoring

CONSTANTS d1, d2, d3

MCTemps == {Null, -160, 0, 30, 100, 290}
MCPrecips == {Null, 0, 5, 60, 200}
MCProbs == {10, 50}
MCWinds == {Null, 90, 120, 130}
MCSnows == {0, 30}
\* In millimetres: on either side of the thresholds, and of what rounding hides.
MCWaves == {Null, 0, 494, 499, 500, 2510, 2525, 2526, 4000}
MCCodes == {Null, 2, 45, 65}

MCMoreResponses ==
    {[time |-> time, temp |-> temp, precip |-> <<0, 60>>, prob |-> <<10>>,
      wind |-> <<90, 130>>, snow |-> <<30, Null>>, code |-> code,
      marineTime |-> marine[1], wave |-> marine[2]] :
       time \in {<<>>, <<d1, d2>>, <<d1, d2, d3>>},
       temp \in {<<>>, <<-160>>, <<0, 290>>, <<Null, 100, 30>>, <<100, 100, 100>>},
       code \in {<<>>, <<2, 2, 65>>},
       marine \in {<< <<>>, <<>> >>, << <<d1, d2>>, <<500, 4000>> >>,
                   << <<d2, d1>>, <<500, 4000>> >>, << <<d2, d3>>, <<200>> >>,
                   << <<d1, d2, d1>>, <<4000, Null, 2500>> >>}}
=============================================================================
