------------------------------ MODULE MCHealth ------------------------------
EXTENDS Health

CONSTANTS a1, a2, b1, a, b, l1, l2, l3

\* Two workers, one with two runs so that one may start while another ends.
MCHost == [r \in Runs |-> IF r \in {a1, a2} THEN a ELSE b]

\* STALE_AFTER_SECONDS unset, and set to the empty text.
MCTexts == {Unset, EmptyText}

(***************************************************************************)
(* The behaviours come in three kinds, to keep the instance small:         *)
(*   "watched"   probes come, time passes between records, and one worker  *)
(*               runs over two locations (over one if the setting is NaN), *)
(*               whose lock is never lost or left behind;                  *)
(*   "contended" two workers run over at most one location, with every     *)
(*               fault, and nobody looks;                                  *)
(*   "crowded"   one worker runs over three locations, more than its pool  *)
(*               may have in flight, and nobody looks.                     *)
(* Locations are interchangeable: they are promoted in one order.          *)
(***************************************************************************)
VARIABLE kind

OneWorker ==
    /\ run[b1].pc = "idle" /\ run[a2].pc = "idle"
    /\ held[a] = IF InCycle(a1) THEN 1 ELSE 0

InKind ==
    /\ CASE kind = "watched"   -> OneWorker /\ tracked \in {{}, {l1}, {l1, l2}}
         [] kind = "contended" -> tracked \in {{}, {l1}}
         [] kind = "crowded"   -> OneWorker /\ tracked \in {{}, {l1}, Locations}
    /\ staleAfter = NaN => tracked \in {{}, {l1}}
    /\ kind # "watched" => probe.pc = "none" /\ staleAfter = DefaultStaleAfter

MCInit == HealthInit /\ kind \in {"watched", "contended", "crowded"} /\ InKind

MCNext ==
    /\ HealthNext
    /\ UNCHANGED kind
    /\ InKind'
    /\ kind = "watched" \/ run' # run \/ UNCHANGED clock

MCSpec == MCInit /\ [][MCNext]_<<allVars, kind>> /\ Fairness
=============================================================================
