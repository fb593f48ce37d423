------------------------------ MODULE CacheMap ------------------------------
(***************************************************************************)
(* What the rest of the program may rely on from the process-local         *)
(* forecast cache (src/src/store/forecast-cache.ts): a bounded map from    *)
(* locations to entries that expire.  The cache is a value here, so that   *)
(* several processes can have one each; ForecastCache models the real data *)
(* structure (a JavaScript Map kept in least-recently-used order) and is   *)
(* shown to implement these operators.                                     *)
(*                                                                         *)
(* An entry is a record with a field left: expiresAt - now(), the time it  *)
(* still has to live, stopping at 0.  The code only compares expiresAt     *)
(* with now().                                                             *)
(***************************************************************************)
EXTENDS Naturals, FiniteSets

CONSTANTS
    Locations,    \* keys of the cache
    MaxEntries,   \* maxEntries
    Ttl,          \* ttlMs, in ticks: what a new entry has left; 0 disables the cache
    NoEntry       \* the value of a key that is not in the map

ASSUME MaxEntriesAssumption == MaxEntries \in Nat
ASSUME TtlAssumption == Ttl \in Nat

EmptyCache == [l \in Locations |-> NoEntry]

\* get() hands out only entries that have not expired.
Hit(cache, l) == cache[l] # NoEntry /\ cache[l].left > 0

\* get() removes the entry it finds expired.
AfterGet(cache, l) ==
    IF Hit(cache, l) THEN cache ELSE [cache EXCEPT ![l] = NoEntry]

AfterInvalidate(cache, l) == [cache EXCEPT ![l] = NoEntry]

Capacity == IF MaxEntries > 1 THEN MaxEntries ELSE 1

\* set() stores the entry and, when the map has outgrown its capacity, evicts
\* as many other entries as needed; which ones is the cache's business.
AfterSet(cache, l, entry) ==
    LET others == {m \in Locations \ {l} : cache[m] # NoEntry}
        room   == Capacity - 1
    IN  {[m \in Locations |->
             IF m = l THEN entry ELSE IF m \in kept THEN cache[m] ELSE NoEntry] :
         kept \in {k \in SUBSET others :
                     IF Cardinality(others) <= room
                     THEN k = others ELSE Cardinality(k) = room}}

\* Time passes for every entry.
Aged(cache) ==
    [l \in Locations |->
        IF Hit(cache, l) THEN [cache[l] EXCEPT !.left = @ - 1] ELSE cache[l]]
=============================================================================
