--------------------------- MODULE ForecastCache ----------------------------
(***************************************************************************)
(* The forecast cache as it is implemented                                 *)
(* (src/src/store/forecast-cache.ts): a Map whose insertion order is kept  *)
(* equal to the order of use by deleting and re-inserting the key that is  *)
(* read or written, so that the first key is the least recently used one.  *)
(* The Map is a sequence of entries in insertion order.                    *)
(***************************************************************************)
EXTENDS CacheMap, Sequences, SequencesExt

CONSTANTS
    Values,   \* what is cached: a forecast with its metadata
    MaxOps    \* bound on the number of operations

VARIABLES
    entries,   \* the Map
    lastUse,   \* history: when each location was last set or hit
    ops        \* history: the number of operations so far

cacheVars == <<entries, lastUse, ops>>

ASSUME MaxOpsAssumption == MaxOps \in Nat
ASSUME NoEntryAssumption == NoEntry \notin [value : Values, left : 0..Ttl]

EntryRecord == [loc : Locations, value : Values, left : 0..Ttl]

\* The keys of a Map, and where it has one.
Keys(es) == {es[i].loc : i \in DOMAIN es}
IndexOf(es, l) == CHOOSE i \in DOMAIN es : es[i].loc = l

Has(l) == l \in Keys(entries)
EntryOf(l) == entries[IndexOf(entries, l)]
Delete(es, l) == IF l \in Keys(es) THEN RemoveAt(es, IndexOf(es, l)) ELSE es

\* The Map holds well-formed entries, never two of one location (EntryOf would
\* pick either of them), and never outgrows maxEntries, at least 1.
CacheTypeOK ==
    /\ entries \in Seq(EntryRecord)
    /\ \A i, j \in DOMAIN entries : entries[i].loc = entries[j].loc => i = j
    /\ Len(entries) <= Capacity
    /\ lastUse \in [Locations -> 0..MaxOps]
    /\ ops \in 0..MaxOps

CacheInit ==
    /\ entries = <<>>
    /\ lastUse = [l \in Locations |-> 0]
    /\ ops = 0

Used(l) == lastUse' = [lastUse EXCEPT ![l] = ops + 1]
Step == ops < MaxOps /\ ops' = ops + 1

\* Fault: reading an entry does not refresh its place.
GetWithoutRefresh(l) ==
    /\ Step
    /\ \/ ~Has(l) /\ UNCHANGED <<entries, lastUse>>
       \/ Has(l) /\ EntryOf(l).left = 0
          /\ entries' = Delete(entries, l) /\ UNCHANGED lastUse
       \/ Has(l) /\ EntryOf(l).left > 0
          /\ UNCHANGED entries /\ Used(l)

\* get(): nothing, an expired entry that is removed, or a hit that becomes the
\* most recently used entry.
Get(l) ==
    /\ Step
    /\ \/ ~Has(l) /\ UNCHANGED <<entries, lastUse>>
       \/ Has(l) /\ EntryOf(l).left = 0
          /\ entries' = Delete(entries, l) /\ UNCHANGED lastUse
       \/ Has(l) /\ EntryOf(l).left > 0
          /\ entries' = Append(Delete(entries, l), EntryOf(l)) /\ Used(l)

\* evictIfNeeded(): delete from the front until the size is allowed.
EvictIfNeeded(es) ==
    IF Len(es) > Capacity
    THEN SubSeq(es, Len(es) - Capacity + 1, Len(es)) ELSE es

\* Fault: the entry already there is kept beside the new one.
SetTwice(l, v) ==
    /\ Step
    /\ entries' = EvictIfNeeded(
            Append(entries, [loc |-> l, value |-> v, left |-> Ttl]))
    /\ Used(l)

\* set()
Set(l, v) ==
    /\ Step
    /\ entries' = EvictIfNeeded(
            Append(Delete(entries, l), [loc |-> l, value |-> v, left |-> Ttl]))
    /\ Used(l)

\* invalidate()
Invalidate(l) ==
    /\ Step
    /\ entries' = Delete(entries, l)
    /\ UNCHANGED lastUse

CacheTick ==
    /\ Step
    /\ entries' = [i \in DOMAIN entries |->
           IF entries[i].left > 0
           THEN [entries[i] EXCEPT !.left = @ - 1] ELSE entries[i]]
    /\ UNCHANGED lastUse

CacheNext ==
    \/ CacheTick
    \/ \E l \in Locations : Get(l) \/ Invalidate(l) \/ \E v \in Values : Set(l, v)

CacheSpec == CacheInit /\ [][CacheNext]_cacheVars

-----------------------------------------------------------------------------
\* A set evicts the least recently used entries only: whoever stays was used
\* after whoever goes, reads counting as uses ("Refresh LRU order", line 29).
EvictsLeastRecentlyUsed ==
    [][ \A l \in Locations : \A v \in Values : Set(l, v) =>
          \A gone, kept \in Locations \ {l} :
            Has(gone) /\ ~Has(gone)' /\ Has(kept) /\ Has(kept)'
              => lastUse[gone] < lastUse[kept] ]_cacheVars

\* Refinement: seen as a map, the cache does what CacheMap promises.
AsMap ==
    [l \in Locations |->
        IF Has(l) THEN [value |-> EntryOf(l).value, left |-> EntryOf(l).left]
                  ELSE NoEntry]

\* The Map stays that of a map of no more than Capacity entries, and every operation
\* of the cache is, on this map, the operation of CacheMap that the other modules use
\* in its place.
ImplementsCacheMap ==
    [][ /\ CacheTypeOK'
        /\ CacheTick => AsMap' = Aged(AsMap)
        /\ \A l \in Locations :
             /\ Get(l) => AsMap' = AfterGet(AsMap, l)
             /\ Invalidate(l) => AsMap' = AfterInvalidate(AsMap, l)
             /\ \A v \in Values : Set(l, v) =>
                  AsMap' \in AfterSet(AsMap, l, [value |-> v, left |-> Ttl])
      ]_cacheVars
=============================================================================
