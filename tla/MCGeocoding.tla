----------------------------- MODULE MCGeocoding -----------------------------
(* Two requests in one API process and one in another, a provider that answers *)
(* with nothing, one place or two.                                             *)
EXTENDS Geocoding

CONSTANTS a1, a2, b1, a, b, x, y

MCHost == [r \in Requests |-> IF r = b1 THEN b ELSE a]
MCAnswers == {<<>>, <<x>>, <<y, x>>}
=============================================================================
