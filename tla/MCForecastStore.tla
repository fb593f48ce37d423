-------------------------- MODULE MCForecastStore ---------------------------
(* Model-checking instances of ForecastStore: a cold start's writer (w1) and  *)
(* a reader in the API process, the refresh's writer (w2) in the worker.       *)
EXTENDS ForecastStore

CONSTANTS w1, w2, r1, api, worker

MCHost ==
    [x \in Writers \cup Readers |-> IF x = w2 THEN worker ELSE api]

\* Nothing, a single day, a prefix, and a payload with a gap.
MCPayloads == {{}, {1}, {1, 2}, {1, 3}}
=============================================================================
