------------------------ MODULE ForecastStoreProofs -------------------------
(***************************************************************************)
(* Proofs about ForecastStore for any locations, dates, processes and      *)
(* calls, any payloads, and any bound on the number of upserts.            *)
(*                                                                         *)
(* StaleOverEmpty needs only that an upsert in progress has a payload and  *)
(* a fetchedAt.  The properties of the readers and of the caches then      *)
(* follow from it: whoever holds days of a location has seen a row of it,  *)
(* and since there is a row for ever after, the metadata query that comes  *)
(* later finds one.  UpsertReplacesSpan is about the advisory lock: the    *)
(* rows chosen by the delete statement are still the right ones when the   *)
(* transaction commits, because no other writer of the location can have   *)
(* committed in between.                                                   *)
(*                                                                         *)
(* The second part is about ForecastCache, for any locations, values,      *)
(* capacity and time to live: the insertion order of the Map is the order  *)
(* of use (Sorted), so what eviction takes from the front is the least     *)
(* recently used, and it leaves exactly the map that CacheMap promises to  *)
(* ForecastStore.                                                          *)
(***************************************************************************)
EXTENDS ForecastStore, ForecastCache, SequenceTheorems, FiniteSetTheorems, TLAPS

-----------------------------------------------------------------------------
\* The inductive invariant.

\* An upsert in progress has something to write.
WriterHasPayload ==
    \A w \in Writers : writer[w].pc # "idle" =>
        writer[w].dates # {} /\ writer[w].fetchedAt # 0

\* A transaction that has taken the lock holds it.
WriterHoldsLock ==
    \A w \in Writers : writer[w].pc \in {"locked", "deleted"} =>
        lock[writer[w].loc] = w

\* What the delete statement chose is what it would choose now.
DoomedIsObsolete ==
    \A w \in Writers : writer[w].pc = "deleted" => writer[w].doomed = Obsolete(w)

HoldingDays == {"cacheMeta", "fill", "gotDays", "meta", "done"}

\* Days that a request holds belong to a location that still has rows.
ReaderHasRows ==
    \A r \in Readers : reader[r].pc \in HoldingDays =>
        /\ reader[r].days # NoForecast
        /\ rows[reader[r].loc] # NoForecast
        /\ reader[r].pc \in {"fill", "done"} => reader[r].meta # 0

\* So do the days and the metadata of a cache entry.
CacheHasRows ==
    \A p \in Procs, l \in Locations : cache[p][l] # NoEntry =>
        /\ cache[p][l].days # NoForecast
        /\ cache[p][l].meta # 0
        /\ rows[l] # NoForecast

IInv ==
    /\ TypeOK
    /\ WriterHasPayload
    /\ WriterHoldsLock
    /\ DoomedIsObsolete
    /\ ReaderHasRows
    /\ CacheHasRows

-----------------------------------------------------------------------------
\* Lemmas about the cache operators.

\* get() leaves every key with what it had or nothing.
LEMMA AfterGetEntries ==
  ASSUME NEW S, NEW c \in [Locations -> S \cup {NoEntry}], NEW l \in Locations
  PROVE  /\ AfterGet(c, l) \in [Locations -> S \cup {NoEntry}]
         /\ \A m \in Locations : AfterGet(c, l)[m] \in {c[m], NoEntry}
  BY DEF AfterGet

\* Time changes nothing in an entry but its time to live.
LEMMA AgedEntries ==
  ASSUME NEW c \in [Locations -> Entry \cup {NoEntry}]
  PROVE  /\ Aged(c) \in [Locations -> Entry \cup {NoEntry}]
         /\ \A m \in Locations : c[m] = NoEntry => Aged(c)[m] = NoEntry
         /\ \A m \in Locations : c[m] # NoEntry =>
              Aged(c)[m].days = c[m].days /\ Aged(c)[m].meta = c[m].meta
<1> SUFFICES ASSUME NEW m \in Locations
             PROVE  /\ Aged(c)[m] \in Entry \cup {NoEntry}
                    /\ c[m] = NoEntry => Aged(c)[m] = NoEntry
                    /\ c[m] # NoEntry =>
                         Aged(c)[m].days = c[m].days /\ Aged(c)[m].meta = c[m].meta
  BY DEF Aged
<1>1. CASE Hit(c, m)
  <2>1. c[m] \in Entry /\ c[m].left > 0
    BY <1>1 DEF Hit
  <2>2. Aged(c)[m] = [c[m] EXCEPT !.left = @ - 1]
    BY <1>1 DEF Aged
  <2> QED BY <2>1, <2>2, <1>1, TtlAssumption DEF Entry, Hit
<1>2. CASE ~Hit(c, m)
  BY <1>2 DEF Aged
<1> QED BY <1>1, <1>2

-----------------------------------------------------------------------------
\* The invariant holds initially, and every action preserves it.

\* The records of a call that is not in progress have their types.
LEMMA IdleTypes == IdleWriter \in WriterRecord /\ IdleReader \in ReaderRecord
<1>1. AnyLocation \in Locations
  BY LocationsAssumption DEF AnyLocation
<1> QED BY <1>1 DEF IdleWriter, IdleReader, WriterRecord, ReaderRecord, Forecast, NoForecast

\* The invariant holds when no call is in progress and every table and cache is
\* empty.
LEMMA InitInvariant == Init => IInv
<1> SUFFICES ASSUME Init PROVE IInv
  OBVIOUS
<1>1. TypeOK
  BY IdleTypes, DatesAssumption
  DEF Init, TypeOK, Forecast, NoForecast, EmptyCache
<1>2. WriterHasPayload /\ WriterHoldsLock /\ DoomedIsObsolete
  BY DEF Init, IdleWriter, WriterHasPayload, WriterHoldsLock, DoomedIsObsolete
<1>3. ReaderHasRows /\ CacheHasRows
  BY DEF Init, IdleReader, EmptyCache, HoldingDays, ReaderHasRows, CacheHasRows
<1> QED BY <1>1, <1>2, <1>3 DEF IInv

\* The parts of the invariant about readers and caches look at the table only to
\* ask whether a location has rows.
LEMMA RowsKept ==
  ASSUME IInv, UNCHANGED <<reader, cache>>,
         \A l \in Locations : rows[l] # NoForecast => rows'[l] # NoForecast
  PROVE  ReaderHasRows' /\ CacheHasRows'
<1>1. ReaderHasRows'
  BY DEF IInv, TypeOK, ReaderRecord, ReaderHasRows
<1>2. CacheHasRows'
  BY DEF IInv, CacheHasRows
<1> QED BY <1>1, <1>2

\* An upsert that starts holds no lock and dooms no row yet.
LEMMA StartUpsertPreserves ==
  ASSUME IInv, NEW w \in Writers, NEW l \in Locations, NEW dates \in Payloads,
         StartUpsert(w, l, dates)
  PROVE  IInv'
<1> USE DEF StartUpsert, StartOfUtcDay, IsWritten
<1>1. TypeOK'
  <2>1. clock + 1 \in Nat /\ dates \in SUBSET Dates
    BY PayloadsAssumption DEF IInv, TypeOK
  <2> QED BY <2>1 DEF IInv, TypeOK, WriterRecord
<1>2. WriterHasPayload'
  <2>1. clock + 1 # 0
    BY DEF IInv, TypeOK
  <2> QED BY <2>1 DEF IInv, TypeOK, WriterHasPayload
<1>3. WriterHoldsLock' /\ DoomedIsObsolete'
  BY DEF IInv, TypeOK, WriterHoldsLock, DoomedIsObsolete, Obsolete
<1>4. ReaderHasRows' /\ CacheHasRows'
  BY RowsKept
<1> QED BY <1>1, <1>2, <1>3, <1>4 DEF IInv

\* Taking the advisory lock: the writer that enters its transaction holds it.
LEMMA TakeLockPreserves ==
  ASSUME IInv, NEW w \in Writers, TakeLock(w)
  PROVE  IInv'
<1> USE DEF TakeLock
<1>1. TypeOK'
  <2>1. writer' \in [Writers -> WriterRecord]
    BY DEF IInv, TypeOK, WriterRecord
  <2>2. lock' \in [Locations -> Writers \cup {NoWriter}]
    BY DEF IInv, TypeOK
  <2> QED BY <2>1, <2>2 DEF IInv, TypeOK
<1>2. WriterHasPayload'
  BY DEF IInv, TypeOK, WriterRecord, WriterHasPayload
<1>3. WriterHoldsLock'
  BY NoWriterAssumption DEF IInv, TypeOK, WriterRecord, WriterHoldsLock
<1>4. DoomedIsObsolete'
  BY DEF IInv, TypeOK, WriterRecord, DoomedIsObsolete, Obsolete
<1>5. ReaderHasRows' /\ CacheHasRows'
  BY RowsKept
<1> QED BY <1>1, <1>2, <1>3, <1>4, <1>5 DEF IInv

\* deleteMany: the rows chosen are the obsolete ones of the table as it is.
LEMMA DeleteObsoletePreserves ==
  ASSUME IInv, NEW w \in Writers, DeleteObsolete(w)
  PROVE  IInv'
<1> USE DEF DeleteObsolete
<1>0. Obsolete(w) \in SUBSET Dates
  BY DEF Obsolete
<1>1. TypeOK'
  <2>1. [writer[w] EXCEPT !.pc = "deleted", !.doomed = Obsolete(w)] \in WriterRecord
    BY <1>0 DEF IInv, TypeOK, WriterRecord
  <2>2. writer' = [writer EXCEPT ![w] =
            [writer[w] EXCEPT !.pc = "deleted", !.doomed = Obsolete(w)]]
    BY DEF IInv, TypeOK, WriterRecord
  <2> QED BY <2>1, <2>2 DEF IInv, TypeOK
<1>2. WriterHasPayload'
  BY DEF IInv, TypeOK, WriterRecord, WriterHasPayload
<1>3. WriterHoldsLock'
  BY DEF IInv, TypeOK, WriterRecord, WriterHoldsLock
<1>4. DoomedIsObsolete'
  BY DEF IInv, TypeOK, WriterRecord, DoomedIsObsolete, Obsolete
<1>5. ReaderHasRows' /\ CacheHasRows'
  BY RowsKept
<1> QED BY <1>1, <1>2, <1>3, <1>4, <1>5 DEF IInv

\* Releasing a writer's locks leaves those of everybody else.
LEMMA ReleasedTypes ==
  ASSUME IInv, NEW w \in Writers
  PROVE  /\ Released(w) \in [Locations -> Writers \cup {NoWriter}]
         /\ \A l \in Locations : lock[l] # w => Released(w)[l] = lock[l]
  BY DEF Released, IInv, TypeOK

\* The committed table, and why a commit leaves no location without rows.
LEMMA CommittedRows ==
  ASSUME IInv, NEW w \in Writers, Commit(w)
  PROVE  /\ rows' \in [Locations -> Forecast]
         /\ \A l \in Locations : l # writer[w].loc => rows'[l] = rows[l]
         /\ \A l \in Locations : rows[l] # NoForecast => rows'[l] # NoForecast
         /\ \A d \in Dates : rows'[writer[w].loc][d] =
               IF d \in writer[w].dates THEN writer[w].fetchedAt
               ELSE IF d \in writer[w].doomed THEN 0 ELSE rows[writer[w].loc][d]
<1> DEFINE l0 == writer[w].loc
           new == [d \in Dates |->
                     IF d \in writer[w].dates THEN writer[w].fetchedAt
                     ELSE IF d \in writer[w].doomed THEN 0 ELSE rows[l0][d]]
<1>1. /\ l0 \in Locations /\ writer[w].dates \in SUBSET Dates
      /\ writer[w].fetchedAt \in Nat /\ writer[w].doomed \in SUBSET Dates
  BY DEF IInv, TypeOK, WriterRecord
<1>2. rows' = [rows EXCEPT ![l0] = new]
  BY DEF Commit
<1>3. new \in Forecast
  BY <1>1 DEF IInv, TypeOK, Forecast
<1>4. writer[w].dates # {} /\ writer[w].fetchedAt # 0
  BY DEF Commit, IInv, WriterHasPayload
<1>5. new # NoForecast
  <2>1. PICK d \in Dates : d \in writer[w].dates
    BY <1>1, <1>4
  <2>2. new[d] # 0 /\ NoForecast[d] = 0
    BY <1>4, <2>1 DEF NoForecast
  <2> QED BY <2>2
<1> HIDE DEF new, l0
<1>6. rows' \in [Locations -> Forecast] /\ rows'[l0] = new
  BY <1>1, <1>2, <1>3 DEF IInv, TypeOK
<1>7. \A l \in Locations : l # l0 => rows'[l] = rows[l]
  BY <1>1, <1>2 DEF IInv, TypeOK
<1> QED BY <1>1, <1>5, <1>6, <1>7 DEF l0, new

\* A commit: no other writer of the location is in its transaction, so nobody's
\* choice of rows to delete becomes wrong.
LEMMA CommitPreserves ==
  ASSUME IInv, NEW w \in Writers, Commit(w)
  PROVE  IInv'
<1>1. TypeOK'
  <2>1. writer' \in [Writers -> WriterRecord]
    BY DEF Commit, IInv, TypeOK, WriterRecord
  <2> QED BY <2>1, ReleasedTypes, CommittedRows DEF Commit, IInv, TypeOK
<1>2. WriterHasPayload'
  BY DEF Commit, IInv, TypeOK, WriterRecord, WriterHasPayload
<1>3. WriterHoldsLock'
  <2> SUFFICES ASSUME NEW v \in Writers, writer'[v].pc \in {"locked", "deleted"}
               PROVE  lock'[writer'[v].loc] = v
    BY DEF WriterHoldsLock
  <2>1. v # w /\ writer'[v] = writer[v]
    BY DEF Commit, IInv, TypeOK, WriterRecord
  <2>2. writer[v].loc \in Locations /\ lock[writer[v].loc] = v
    BY <2>1 DEF IInv, TypeOK, WriterRecord, WriterHoldsLock
  <2> QED BY <2>1, <2>2, ReleasedTypes DEF Commit
<1>4. DoomedIsObsolete'
  <2> SUFFICES ASSUME NEW v \in Writers, writer'[v].pc = "deleted"
               PROVE  writer'[v].doomed = Obsolete(v)'
    BY DEF DoomedIsObsolete
  <2>1. v # w /\ writer'[v] = writer[v]
    BY DEF Commit, IInv, TypeOK, WriterRecord
  <2>2. writer[v].loc # writer[w].loc /\ writer[v].loc \in Locations
    BY <2>1 DEF Commit, IInv, TypeOK, WriterRecord, WriterHoldsLock
  <2>3. rows'[writer[v].loc] = rows[writer[v].loc]
    BY <2>2, CommittedRows
  <2> QED BY <2>1, <2>3 DEF IInv, DoomedIsObsolete, Obsolete
<1>5. ReaderHasRows' /\ CacheHasRows'
  BY RowsKept, CommittedRows DEF Commit
<1> QED BY <1>1, <1>2, <1>3, <1>4, <1>5 DEF IInv

\* A call that ends without touching the table.
LEMMA WriterEnds ==
  ASSUME IInv, NEW w \in Writers,
         writer' = [writer EXCEPT ![w] = IdleWriter],
         rows' = rows, today' \in Int, clock' = clock, reader' = reader,
         lock' \in {lock, Released(w)}, writer[w].pc = "committed" \/ lock' = Released(w)
  PROVE  /\ writer' \in [Writers -> WriterRecord]
         /\ lock' \in [Locations -> Writers \cup {NoWriter}]
         /\ WriterHasPayload' /\ WriterHoldsLock' /\ DoomedIsObsolete'
<1>1. \A v \in Writers : v # w => writer'[v] = writer[v]
  BY DEF IInv, TypeOK
<1>2. writer'[w].pc = "idle"
  BY DEF IInv, TypeOK, IdleWriter
<1>3. writer' \in [Writers -> WriterRecord]
  BY IdleTypes DEF IInv, TypeOK
<1>4. lock' \in [Locations -> Writers \cup {NoWriter}]
  BY ReleasedTypes DEF IInv, TypeOK
<1>5. WriterHasPayload'
  BY <1>1, <1>2 DEF IInv, WriterHasPayload
<1>6. WriterHoldsLock'
  BY <1>1, <1>2, ReleasedTypes DEF IInv, TypeOK, WriterRecord, WriterHoldsLock
<1>7. DoomedIsObsolete'
  BY <1>1, <1>2 DEF IInv, DoomedIsObsolete, Obsolete
<1> QED BY <1>3, <1>4, <1>5, <1>6, <1>7

\* A rollback ends the call, without its lock.
LEMMA RollbackPreserves ==
  ASSUME IInv, NEW w \in Writers, Rollback(w)
  PROVE  IInv'
<1>1. /\ writer' \in [Writers -> WriterRecord]
      /\ lock' \in [Locations -> Writers \cup {NoWriter}]
      /\ WriterHasPayload' /\ WriterHoldsLock' /\ DoomedIsObsolete'
  BY WriterEnds DEF Rollback, IInv, TypeOK
<1>2. TypeOK'
  BY <1>1 DEF Rollback, IInv, TypeOK
<1>3. ReaderHasRows' /\ CacheHasRows'
  BY RowsKept DEF Rollback
<1> QED BY <1>1, <1>2, <1>3 DEF IInv

\* A lost answer ends a call whose lock the commit has released.
LEMMA LoseCommitAnswerPreserves ==
  ASSUME IInv, NEW w \in Writers, LoseCommitAnswer(w)
  PROVE  IInv'
<1>1. /\ writer' \in [Writers -> WriterRecord]
      /\ lock' \in [Locations -> Writers \cup {NoWriter}]
      /\ WriterHasPayload' /\ WriterHoldsLock' /\ DoomedIsObsolete'
  BY WriterEnds DEF LoseCommitAnswer, IInv, TypeOK
<1>2. TypeOK'
  BY <1>1 DEF LoseCommitAnswer, IInv, TypeOK
<1>3. ReaderHasRows' /\ CacheHasRows'
  BY RowsKept DEF LoseCommitAnswer
<1> QED BY <1>1, <1>2, <1>3 DEF IInv

\* Steps that leave the writers, the table and the lock alone.
LEMMA WritersKept ==
  ASSUME IInv, UNCHANGED <<rows, lock, writer>>
  PROVE  WriterHasPayload' /\ WriterHoldsLock' /\ DoomedIsObsolete'
  BY DEF IInv, WriterHasPayload, WriterHoldsLock, DoomedIsObsolete, Obsolete

\* Steps that put nothing new in any cache.
LEMMA CachesShrink ==
  ASSUME IInv, rows' = rows,
         cache' \in [Procs -> [Locations -> Entry \cup {NoEntry}]],
         \A p \in Procs, l \in Locations : cache'[p][l] \in {cache[p][l], NoEntry}
  PROVE  CacheHasRows'
<1> SUFFICES ASSUME NEW p \in Procs, NEW l \in Locations, cache'[p][l] # NoEntry
             PROVE  /\ cache'[p][l].days # NoForecast
                    /\ cache'[p][l].meta # 0
                    /\ rows[l] # NoForecast
  BY DEF CacheHasRows
<1>1. cache'[p][l] = cache[p][l]
  OBVIOUS
<1> QED BY <1>1 DEF IInv, CacheHasRows

\* get() in one process is such a step.
LEMMA CacheAfterGetShrinks ==
  ASSUME IInv, NEW r \in Readers, NEW l \in Locations, cache' = CacheAfterGet(r, l)
  PROVE  /\ cache' \in [Procs -> [Locations -> Entry \cup {NoEntry}]]
         /\ \A p \in Procs, m \in Locations : cache'[p][m] \in {cache[p][m], NoEntry}
<1>1. Host[r] \in Procs
  BY HostAssumption
<1>2. cache[Host[r]] \in [Locations -> Entry \cup {NoEntry}]
  BY <1>1 DEF IInv, TypeOK
<1>3. /\ AfterGet(cache[Host[r]], l) \in [Locations -> Entry \cup {NoEntry}]
      /\ \A m \in Locations :
           AfterGet(cache[Host[r]], l)[m] \in {cache[Host[r]][m], NoEntry}
  BY <1>2, AfterGetEntries
<1>4. cache' = [cache EXCEPT ![Host[r]] = AfterGet(cache[Host[r]], l)]
  BY DEF CacheAfterGet
<1> QED BY <1>1, <1>3, <1>4 DEF IInv, TypeOK

\* Invalidating removes an entry and ends the call.
LEMMA InvalidatePreserves ==
  ASSUME IInv, NEW w \in Writers, InvalidateCache(w)
  PROVE  IInv'
<1>1. /\ writer' \in [Writers -> WriterRecord]
      /\ lock' \in [Locations -> Writers \cup {NoWriter}]
      /\ WriterHasPayload' /\ WriterHoldsLock' /\ DoomedIsObsolete'
  BY WriterEnds DEF InvalidateCache, IInv, TypeOK
<1>2. /\ cache' \in [Procs -> [Locations -> Entry \cup {NoEntry}]]
      /\ \A p \in Procs, m \in Locations : cache'[p][m] \in {cache[p][m], NoEntry}
  <2>1. Host[w] \in Procs /\ writer[w].loc \in Locations
    BY HostAssumption DEF IInv, TypeOK, WriterRecord
  <2>2. cache' = [cache EXCEPT ![Host[w]] =
                    [cache[Host[w]] EXCEPT ![writer[w].loc] = NoEntry]]
    BY DEF InvalidateCache, AfterInvalidate
  <2> QED BY <2>1, <2>2 DEF IInv, TypeOK
<1>3. TypeOK'
  BY <1>1, <1>2 DEF InvalidateCache, IInv, TypeOK
<1>4. CacheHasRows'
  BY <1>2, CachesShrink DEF InvalidateCache
<1>5. ReaderHasRows'
  BY DEF InvalidateCache, IInv, ReaderHasRows
<1> QED BY <1>1, <1>3, <1>4, <1>5 DEF IInv

\* A reader's step is harmless if what it then holds is.
LEMMA ReaderMoves ==
  ASSUME IInv, NEW r \in Readers, NEW new \in ReaderRecord,
         reader' = [reader EXCEPT ![r] = new], rows' = rows,
         new.pc \in HoldingDays =>
           /\ new.days # NoForecast
           /\ rows[new.loc] # NoForecast
           /\ new.pc \in {"fill", "done"} => new.meta # 0
  PROVE  reader' \in [Readers -> ReaderRecord] /\ ReaderHasRows'
<1>1. reader' \in [Readers -> ReaderRecord]
  BY DEF IInv, TypeOK
<1>2. ReaderHasRows'
  <2> SUFFICES ASSUME NEW s \in Readers, reader'[s].pc \in HoldingDays
               PROVE  /\ reader'[s].days # NoForecast
                      /\ rows[reader'[s].loc] # NoForecast
                      /\ reader'[s].pc \in {"fill", "done"} => reader'[s].meta # 0
    BY DEF ReaderHasRows
  <2>1. CASE s = r
    BY <2>1 DEF IInv, TypeOK
  <2>2. CASE s # r
    <3>1. reader'[s] = reader[s]
      BY <2>2 DEF IInv, TypeOK
    <3> QED BY <3>1 DEF IInv, ReaderHasRows
  <2> QED BY <2>1, <2>2
<1> QED BY <1>1, <1>2

\* getForecastDays, up to its query: a hit hands out the days of an entry, which are
\* backed by the table.
LEMMA StartGetDaysPreserves ==
  ASSUME IInv, NEW r \in Readers, NEW l \in Locations, StartGetDays(r, l)
  PROVE  IInv'
<1> DEFINE hit == [IdleReader EXCEPT !.pc = "gotDays", !.loc = l,
                                     !.days = cache[Host[r]][l].days]
           miss == [IdleReader EXCEPT !.pc = "days", !.loc = l, !.today = today]
<1>1. /\ cache' \in [Procs -> [Locations -> Entry \cup {NoEntry}]]
      /\ \A p \in Procs, m \in Locations : cache'[p][m] \in {cache[p][m], NoEntry}
  BY CacheAfterGetShrinks DEF StartGetDays, StartOfUtcDay
<1>2. reader' \in [Readers -> ReaderRecord] /\ ReaderHasRows'
  <2>1. CASE Cached(r, l)
    <3>1. Host[r] \in Procs /\ cache[Host[r]][l] # NoEntry
      BY <2>1, HostAssumption DEF Cached, Hit
    <3>2. /\ cache[Host[r]][l] \in Entry
          /\ cache[Host[r]][l].days # NoForecast
          /\ rows[l] # NoForecast
      BY <3>1 DEF IInv, TypeOK, CacheHasRows
    <3>3. hit \in ReaderRecord /\ hit.pc = "gotDays" /\ hit.loc = l
          /\ hit.days = cache[Host[r]][l].days
      BY <3>2, IdleTypes DEF ReaderRecord, Entry, IdleReader
    <3>4. reader' = [reader EXCEPT ![r] = hit] /\ rows' = rows
      BY <2>1 DEF StartGetDays, StartOfUtcDay
    <3> HIDE DEF hit
    <3> QED BY <3>2, <3>3, <3>4, ReaderMoves
  <2>2. CASE ~Cached(r, l)
    <3>1. miss \in ReaderRecord /\ miss.pc = "days"
      BY IdleTypes DEF ReaderRecord, IdleReader, IInv, TypeOK
    <3>2. reader' = [reader EXCEPT ![r] = miss] /\ rows' = rows
      BY <2>2 DEF StartGetDays, StartOfUtcDay
    <3> HIDE DEF miss
    <3> QED BY <3>1, <3>2, ReaderMoves DEF HoldingDays
  <2> QED BY <2>1, <2>2
<1>3. TypeOK'
  BY <1>1, <1>2 DEF StartGetDays, IInv, TypeOK
<1>4. CacheHasRows'
  BY <1>1, CachesShrink DEF StartGetDays, StartOfUtcDay
<1>5. WriterHasPayload' /\ WriterHoldsLock' /\ DoomedIsObsolete'
  BY WritersKept DEF StartGetDays, StartOfUtcDay
<1> QED BY <1>2, <1>3, <1>4, <1>5 DEF IInv

\* A reader's step that leaves the caches alone.
LEMMA ReaderOnly ==
  ASSUME IInv, UNCHANGED <<rows, lock, writer, cache, today, clock>>,
         reader' \in [Readers -> ReaderRecord], ReaderHasRows'
  PROVE  IInv'
<1>1. TypeOK'
  BY DEF IInv, TypeOK
<1>2. CacheHasRows'
  BY DEF IInv, CacheHasRows
<1> QED BY <1>1, <1>2, WritersKept DEF IInv

\* If findMany returned days, the location has rows.
LEMMA VisibleRows ==
  ASSUME IInv, NEW l \in Locations, NEW day \in Int
  PROVE  /\ Visible(l, day) \in Forecast
         /\ Visible(l, day) # NoForecast => rows[l] # NoForecast
<1>1. Visible(l, day) \in Forecast
  BY DEF Visible, Forecast, IInv, TypeOK
<1>2. ASSUME rows[l] = NoForecast PROVE Visible(l, day) = NoForecast
  BY <1>2 DEF Visible, NoForecast
<1> QED BY <1>1, <1>2

\* findMany: days that were found are rows of the location.
LEMMA QueryDaysPreserves ==
  ASSUME IInv, NEW r \in Readers, QueryDays(r)
  PROVE  IInv'
<1> DEFINE days == Visible(reader[r].loc, reader[r].today)
           new == [reader[r] EXCEPT
                     !.days = days,
                     !.pc = IF days = NoForecast THEN "empty" ELSE "cacheMeta"]
<1>1. reader[r] \in ReaderRecord
  BY DEF IInv, TypeOK
<1>2. /\ days \in Forecast
      /\ days # NoForecast => rows[reader[r].loc] # NoForecast
  BY <1>1, VisibleRows DEF ReaderRecord
<1> HIDE DEF days
<1>3. /\ new \in ReaderRecord /\ new.loc = reader[r].loc /\ new.days = days
      /\ new.pc \in HoldingDays => new.pc = "cacheMeta" /\ days # NoForecast
  BY <1>1, <1>2 DEF ReaderRecord, HoldingDays
<1>4. reader' = [reader EXCEPT ![r] = new] /\ rows' = rows
  BY DEF QueryDays, IsCached, days
<1> HIDE DEF new
<1>5. reader' \in [Readers -> ReaderRecord] /\ ReaderHasRows'
  BY <1>2, <1>3, <1>4, ReaderMoves
<1> QED BY <1>5, ReaderOnly DEF QueryDays

\* The newest row of a location that has rows is a row.
LEMMA NewestIsRow ==
  ASSUME IInv, NEW l \in Locations, NEW d \in Dates, Newest(l, d)
  PROVE  rows[l][d] \in Nat /\ (rows[l] # NoForecast => rows[l][d] # 0)
<1>1. rows[l] \in [Dates -> Nat]
  BY DEF IInv, TypeOK, Forecast
<1>2. ASSUME rows[l][d] = 0 PROVE rows[l] = NoForecast
  <2>1. \A e \in Dates : rows[l][e] = 0
    BY <1>1, <1>2 DEF Newest
  <2> QED BY <1>1, <2>1 DEF NoForecast
<1> QED BY <1>1, <1>2

\* Both metadata queries: whoever holds days gets a fetchedAt.
LEMMA MetaQueried ==
  ASSUME IInv, NEW r \in Readers, reader[r].pc \in HoldingDays,
         NEW pc \in {"fill", "done"}, rows' = rows,
         NEW d \in Dates, Newest(reader[r].loc, d),
         reader' = [reader EXCEPT ![r].pc = pc, ![r].meta = rows[reader[r].loc][d]]
  PROVE  reader' \in [Readers -> ReaderRecord] /\ ReaderHasRows'
<1> DEFINE meta == rows[reader[r].loc][d]
           new == [reader[r] EXCEPT !.pc = pc, !.meta = meta]
<1>1. reader[r] \in ReaderRecord
  BY DEF IInv, TypeOK
<1>2. reader[r].days # NoForecast /\ rows[reader[r].loc] # NoForecast
  BY DEF IInv, ReaderHasRows
<1>3. meta \in Nat /\ meta # 0
  BY <1>1, <1>2, NewestIsRow DEF ReaderRecord
<1> HIDE DEF meta
<1>4. /\ new \in ReaderRecord /\ new.loc = reader[r].loc
      /\ new.days = reader[r].days /\ new.meta = meta
  BY <1>1, <1>3 DEF ReaderRecord
<1>5. reader' = [reader EXCEPT ![r] = new]
  BY DEF meta
<1> HIDE DEF new
<1> QED BY <1>2, <1>3, <1>4, <1>5, ReaderMoves

\* Either metadata query gives a reader that holds days a fetchedAt.
LEMMA MetaQueriesPreserve ==
  ASSUME IInv, NEW r \in Readers, QueryCacheMeta(r) \/ QueryMeta(r)
  PROVE  IInv'
<1>1. reader' \in [Readers -> ReaderRecord] /\ ReaderHasRows'
  <2>1. CASE QueryCacheMeta(r)
    BY <2>1, MetaQueried DEF QueryCacheMeta, HoldingDays
  <2>2. CASE QueryMeta(r)
    BY <2>2, MetaQueried DEF QueryMeta, HoldingDays
  <2> QED BY <2>1, <2>2
<1> QED BY <1>1, ReaderOnly DEF QueryCacheMeta, QueryMeta

\* A read that ends holds nothing.
LEMMA EndReadPreserves ==
  ASSUME IInv, NEW r \in Readers, EndRead(r)
  PROVE  IInv'
<1>1. IdleReader \in ReaderRecord /\ IdleReader.pc \notin HoldingDays
  BY IdleTypes DEF IdleReader, HoldingDays
<1>2. reader' \in [Readers -> ReaderRecord] /\ ReaderHasRows'
  BY <1>1, ReaderMoves DEF EndRead
<1> QED BY <1>2, ReaderOnly DEF EndRead

\* set() adds to one cache an entry that is backed by the table.
LEMMA FillPreserves ==
  ASSUME IInv, NEW r \in Readers, Fill(r)
  PROVE  IInv'
<1> DEFINE l0 == reader[r].loc
           p0 == Host[r]
           new == [reader[r] EXCEPT !.pc = "gotDays", !.meta = 0]
<1>1. reader[r] \in ReaderRecord /\ l0 \in Locations /\ p0 \in Procs
  BY HostAssumption DEF IInv, TypeOK, ReaderRecord
<1>2. reader[r].days # NoForecast /\ rows[l0] # NoForecast /\ reader[r].meta # 0
  BY DEF Fill, IInv, ReaderHasRows, HoldingDays
<1>3. /\ NewEntry(r) \in Entry
      /\ NewEntry(r).days = reader[r].days /\ NewEntry(r).meta = reader[r].meta
  BY <1>1, TtlAssumption DEF NewEntry, Entry, ReaderRecord
<1>4. PICK c \in AfterSet(cache[p0], l0, NewEntry(r)) :
        cache' = [cache EXCEPT ![p0] = c]
  BY DEF Fill
<1>5. /\ c = [m \in Locations |-> c[m]] /\ c[l0] = NewEntry(r)
      /\ \A m \in Locations \ {l0} : c[m] \in {cache[p0][m], NoEntry}
  <2> DEFINE old == cache[p0]
             entry == NewEntry(r)
  <2>1. c \in AfterSet(old, l0, entry)
    OBVIOUS
  <2> HIDE DEF old, entry, l0
  <2>2. /\ c = [m \in Locations |-> c[m]] /\ c[l0] = entry
        /\ \A m \in Locations \ {l0} : c[m] \in {old[m], NoEntry}
    BY <1>1, <2>1 DEF AfterSet
  <2> QED BY <2>2 DEF old, entry, l0
<1>6. c \in [Locations -> Entry \cup {NoEntry}]
  BY <1>1, <1>3, <1>5 DEF IInv, TypeOK
<1>7. cache' \in [Procs -> [Locations -> Entry \cup {NoEntry}]]
  BY <1>1, <1>4, <1>6 DEF IInv, TypeOK
<1>8. CacheHasRows'
  <2> SUFFICES ASSUME NEW p \in Procs, NEW l \in Locations, cache'[p][l] # NoEntry
               PROVE  /\ cache'[p][l].days # NoForecast
                      /\ cache'[p][l].meta # 0
                      /\ rows[l] # NoForecast
    BY DEF CacheHasRows, Fill
  <2>1. CASE p = p0 /\ l = l0
    <3>1. cache'[p][l] = NewEntry(r)
      BY <1>1, <1>4, <1>5, <2>1 DEF IInv, TypeOK
    <3> QED BY <1>2, <1>3, <2>1, <3>1
  <2>2. CASE ~(p = p0 /\ l = l0)
    <3>1. cache'[p][l] = cache[p][l]
      BY <1>1, <1>4, <1>5, <2>2 DEF IInv, TypeOK
    <3> QED BY <3>1 DEF IInv, CacheHasRows
  <2> QED BY <2>1, <2>2
<1>9. /\ new \in ReaderRecord /\ new.pc = "gotDays"
      /\ new.loc = l0 /\ new.days = reader[r].days
  BY <1>1 DEF ReaderRecord
<1>10. reader' = [reader EXCEPT ![r] = new] /\ rows' = rows
  BY DEF Fill
<1> HIDE DEF new, l0, p0
<1>11. reader' \in [Readers -> ReaderRecord] /\ ReaderHasRows'
  BY <1>2, <1>9, <1>10, ReaderMoves
<1>12. TypeOK'
  BY <1>7, <1>11 DEF Fill, IInv, TypeOK
<1> QED BY <1>8, <1>11, <1>12, WritersKept DEF Fill, IInv

\* getForecastMeta, up to its query: a hit hands out the fetchedAt of an entry.
LEMMA StartGetMetaPreserves ==
  ASSUME IInv, NEW r \in Readers, StartGetMeta(r)
  PROVE  IInv'
<1> DEFINE l0 == reader[r].loc
           meta == IF Cached(r, l0) THEN cache[Host[r]][l0].meta ELSE 0
           pc == IF Cached(r, l0) THEN "done" ELSE "meta"
           new == [reader[r] EXCEPT !.pc = pc, !.meta = meta]
<1>1. reader[r] \in ReaderRecord /\ l0 \in Locations
  BY DEF IInv, TypeOK, ReaderRecord
<1>2. reader[r].days # NoForecast /\ rows[l0] # NoForecast
  BY DEF StartGetMeta, IInv, ReaderHasRows, HoldingDays
<1>3. /\ cache' \in [Procs -> [Locations -> Entry \cup {NoEntry}]]
      /\ \A p \in Procs, m \in Locations : cache'[p][m] \in {cache[p][m], NoEntry}
  BY <1>1, CacheAfterGetShrinks DEF StartGetMeta
<1>4. meta \in Nat /\ pc \in {"done", "meta"} /\ (pc = "done" => meta # 0)
  <2>1. CASE Cached(r, l0)
    <3>1. Host[r] \in Procs /\ cache[Host[r]][l0] # NoEntry
      BY <2>1, HostAssumption DEF Cached, Hit
    <3>2. cache[Host[r]][l0] \in Entry /\ cache[Host[r]][l0].meta # 0
      BY <1>1, <3>1 DEF IInv, TypeOK, CacheHasRows
    <3> QED BY <2>1, <3>2 DEF Entry
  <2>2. CASE ~Cached(r, l0)
    BY <2>2
  <2> QED BY <2>1, <2>2
<1>5. reader' = [reader EXCEPT ![r] = new] /\ rows' = rows
  BY DEF StartGetMeta
<1> HIDE DEF meta, pc
<1>6. /\ new \in ReaderRecord /\ new.pc = pc /\ new.loc = l0
      /\ new.days = reader[r].days /\ new.meta = meta
  BY <1>1, <1>4 DEF ReaderRecord
<1> HIDE DEF new, l0
<1>7. reader' \in [Readers -> ReaderRecord] /\ ReaderHasRows'
  BY <1>2, <1>4, <1>5, <1>6, ReaderMoves
<1>8. TypeOK'
  BY <1>3, <1>7 DEF StartGetMeta, IInv, TypeOK
<1>9. CacheHasRows'
  BY <1>3, CachesShrink DEF StartGetMeta
<1> QED BY <1>7, <1>8, <1>9, WritersKept DEF StartGetMeta, IInv

\* A crash forgets calls, cached entries and locks, never rows.
LEMMA CrashPreserves ==
  ASSUME IInv, NEW p \in Procs, Crash(p)
  PROVE  IInv'
<1>1. writer' \in [Writers -> WriterRecord] /\ reader' \in [Readers -> ReaderRecord]
  BY IdleTypes DEF Crash, IInv, TypeOK
<1>2. lock' \in [Locations -> Writers \cup {NoWriter}]
  BY DEF Crash, IInv, TypeOK
<1>3. /\ cache' \in [Procs -> [Locations -> Entry \cup {NoEntry}]]
      /\ \A q \in Procs, m \in Locations : cache'[q][m] \in {cache[q][m], NoEntry}
  BY DEF Crash, EmptyCache, IInv, TypeOK
<1>4. TypeOK'
  BY <1>1, <1>2, <1>3 DEF Crash, IInv, TypeOK
<1>5. \A w \in Writers : writer'[w].pc # "idle" => writer'[w] = writer[w] /\ Host[w] # p
  BY DEF Crash, IdleWriter
<1>6. WriterHasPayload'
  BY <1>5 DEF IInv, WriterHasPayload
<1>7. WriterHoldsLock'
  <2> SUFFICES ASSUME NEW w \in Writers, writer'[w].pc \in {"locked", "deleted"}
               PROVE  lock'[writer'[w].loc] = w
    BY DEF WriterHoldsLock
  <2>1. writer'[w] = writer[w] /\ Host[w] # p
    BY <1>5
  <2>2. writer[w].loc \in Locations /\ lock[writer[w].loc] = w
    BY <2>1 DEF IInv, TypeOK, WriterRecord, WriterHoldsLock
  <2> QED BY <2>1, <2>2 DEF Crash
<1>8. DoomedIsObsolete'
  BY <1>5 DEF Crash, IInv, DoomedIsObsolete, Obsolete
<1>9. ReaderHasRows'
  <2>1. \A r \in Readers : reader'[r].pc \in HoldingDays => reader'[r] = reader[r]
    BY DEF Crash, IdleReader, HoldingDays
  <2> QED BY <2>1 DEF Crash, IInv, ReaderHasRows
<1>10. CacheHasRows'
  BY <1>3, CachesShrink DEF Crash
<1> QED BY <1>4, <1>6, <1>7, <1>8, <1>9, <1>10 DEF IInv

\* Midnight changes no row, no call and no cache.
LEMMA MidnightPreserves ==
  ASSUME IInv, Midnight
  PROVE  IInv'
<1>1. TypeOK'
  BY DatesAssumption DEF Midnight, IInv, TypeOK
<1>2. ReaderHasRows' /\ CacheHasRows'
  BY RowsKept DEF Midnight
<1> QED BY <1>1, <1>2, WritersKept DEF Midnight, IInv

\* Time shortens the life of the entries and nothing else.
LEMMA TickPreserves ==
  ASSUME IInv, Tick
  PROVE  IInv'
<1>1. \A p \in Procs : cache[p] \in [Locations -> Entry \cup {NoEntry}]
  BY DEF IInv, TypeOK
<1>2. cache' = [p \in Procs |-> Aged(cache[p])]
  BY DEF Tick
<1>3. cache' \in [Procs -> [Locations -> Entry \cup {NoEntry}]]
  BY <1>1, <1>2, AgedEntries
<1>4. CacheHasRows'
  <2> SUFFICES ASSUME NEW p \in Procs, NEW l \in Locations, cache'[p][l] # NoEntry
               PROVE  /\ cache'[p][l].days # NoForecast
                      /\ cache'[p][l].meta # 0
                      /\ rows[l] # NoForecast
    BY DEF CacheHasRows, Tick
  <2>1. cache[p][l] # NoEntry
    BY <1>1, <1>2, AgedEntries
  <2>2. cache'[p][l].days = cache[p][l].days /\ cache'[p][l].meta = cache[p][l].meta
    BY <1>1, <1>2, <2>1, AgedEntries
  <2> QED BY <2>1, <2>2 DEF IInv, CacheHasRows
<1>5. TypeOK'
  BY <1>3 DEF Tick, IInv, TypeOK
<1>6. ReaderHasRows'
  BY DEF Tick, IInv, ReaderHasRows
<1> QED BY <1>4, <1>5, <1>6, WritersKept DEF Tick, IInv

\* Every step of the store preserves the invariant.
LEMMA StepInvariant == IInv /\ [Next]_vars => IInv'
<1> SUFFICES ASSUME IInv, [Next]_vars PROVE IInv'
  OBVIOUS
<1>1. ASSUME NEW w \in Writers, NEW l \in Locations, NEW dates \in Payloads,
             StartUpsert(w, l, dates)
      PROVE  IInv'
  BY <1>1, StartUpsertPreserves
<1>2. ASSUME NEW w \in Writers, Write(w) PROVE IInv'
  BY <1>2, TakeLockPreserves, DeleteObsoletePreserves, CommitPreserves,
     RollbackPreserves, InvalidatePreserves, LoseCommitAnswerPreserves DEF Write
<1>3. ASSUME NEW r \in Readers, NEW l \in Locations, StartGetDays(r, l) PROVE IInv'
  BY <1>3, StartGetDaysPreserves
<1>4. ASSUME NEW r \in Readers, Read(r) PROVE IInv'
  BY <1>4, QueryDaysPreserves, MetaQueriesPreserve, FillPreserves,
     StartGetMetaPreserves, EndReadPreserves DEF Read
<1>5. ASSUME NEW p \in Procs, Crash(p) PROVE IInv'
  BY <1>5, CrashPreserves
<1>6. CASE Midnight \/ Tick
  BY <1>6, MidnightPreserves, TickPreserves
<1>7. CASE UNCHANGED vars
  <2>1. TypeOK' /\ WriterHasPayload' /\ WriterHoldsLock' /\ DoomedIsObsolete'
    BY <1>7, WritersKept DEF vars, IInv, TypeOK
  <2>2. ReaderHasRows' /\ CacheHasRows'
    BY <1>7, RowsKept DEF vars
  <2> QED BY <2>1, <2>2 DEF IInv
<1> QED BY <1>1, <1>2, <1>3, <1>4, <1>5, <1>6, <1>7 DEF Next

-----------------------------------------------------------------------------
\* The results.

\* The inductive invariant holds of every behaviour of the store.
THEOREM Invariant == Spec => []IInv
  BY InitInvariant, StepInvariant, PTL DEF Spec

\* The types of the table, the locks, the calls and the caches.
THEOREM TypeCorrect == Spec => []TypeOK
  BY Invariant, PTL DEF IInv

\* No cache ever holds an empty forecast or one without its fetchedAt, and a
\* request that got days always gets a lastUpdated as well.
THEOREM WarmAlwaysMeansForecast == Spec => []WarmMeansForecast
<1>1. IInv => WarmMeansForecast
  BY DEF IInv, CacheHasRows, ReaderHasRows, HoldingDays, WarmMeansForecast
<1> QED BY <1>1, Invariant, PTL

\* Only a commit changes the table.
LEMMA OnlyCommitWrites ==
  ASSUME IInv, [Next]_vars, rows' # rows
  PROVE  \E w \in Writers : Commit(w)
  BY DEF Next, vars, StartUpsert, Write, TakeLock, DeleteObsolete, Rollback,
         InvalidateCache, LoseCommitAnswer, StartGetDays, Read, QueryDays,
         QueryCacheMeta, Fill, StartGetMeta, QueryMeta, EndRead, Crash, Midnight, Tick

\* A location that has a forecast never loses it.
THEOREM StaleOverEmptyHolds == Spec => StaleOverEmpty
<1> DEFINE Kept == \A l \in Locations : rows[l] # NoForecast => rows'[l] # NoForecast
<1>1. ASSUME IInv, [Next]_vars PROVE [Kept]_vars
  <2>1. CASE rows' = rows
    BY <2>1
  <2>2. CASE rows' # rows
    BY <1>1, <2>2, OnlyCommitWrites, CommittedRows
  <2> QED BY <2>1, <2>2
<1> QED BY <1>1, Invariant, PTL DEF Spec, StaleOverEmpty

\* A row disappears only for an upsert that finds it past or within its span.
THEOREM OutsideSpanSurvivesAll == Spec => OutsideSpanSurvives
<1> DEFINE Survives ==
      \A l \in Locations, d \in Dates :
        rows[l][d] # 0 /\ rows'[l][d] = 0 =>
          \E w \in Writers :
            /\ writer[w].pc = "deleted" /\ writer'[w].pc = "committed"
            /\ writer[w].loc = l
            /\ d < writer[w].today \/ InWindow(d, writer[w].dates)
<1>1. ASSUME IInv, [Next]_vars PROVE [Survives]_vars
  <2> SUFFICES ASSUME NEW l \in Locations, NEW d \in Dates,
                      rows[l][d] # 0, rows'[l][d] = 0
               PROVE  \E w \in Writers :
                        /\ writer[w].pc = "deleted" /\ writer'[w].pc = "committed"
                        /\ writer[w].loc = l
                        /\ d < writer[w].today \/ InWindow(d, writer[w].dates)
    OBVIOUS
  <2>1. PICK w \in Writers : Commit(w)
    BY <1>1, OnlyCommitWrites
  <2>2. writer[w].loc = l
    BY <1>1, <2>1, CommittedRows
  <2>3. d \in writer[w].doomed
    BY <1>1, <2>1, <2>2, CommittedRows DEF Commit, IInv, WriterHasPayload
  <2>4. d < writer[w].today \/ InWindow(d, writer[w].dates)
    BY <1>1, <2>1, <2>3 DEF Commit, IInv, DoomedIsObsolete, Obsolete
  <2>5. writer[w].pc = "deleted" /\ writer'[w].pc = "committed"
    BY <1>1, <2>1 DEF Commit, IInv, TypeOK, WriterRecord
  <2> QED BY <2>2, <2>4, <2>5
<1> QED BY <1>1, Invariant, PTL DEF Spec, OutsideSpanSurvives

\* Overlapping upserts of a location do not mix, thanks to the advisory lock.
THEOREM UpsertsReplaceTheirSpan == Spec => UpsertReplacesSpan
<1> DEFINE Replaces ==
      \A w \in Writers :
        writer[w].pc = "deleted" /\ writer'[w].pc = "committed" =>
          \A d \in Dates :
            rows'[writer[w].loc][d] =
              IF d \in writer[w].dates THEN writer[w].fetchedAt
              ELSE IF d < writer[w].today \/ InWindow(d, writer[w].dates) THEN 0
              ELSE rows[writer[w].loc][d]
<1>1. ASSUME IInv, [Next]_vars PROVE [Replaces]_vars
  <2> SUFFICES ASSUME NEW w \in Writers,
                      writer[w].pc = "deleted", writer'[w].pc = "committed",
                      NEW d \in Dates
               PROVE  rows'[writer[w].loc][d] =
                        IF d \in writer[w].dates THEN writer[w].fetchedAt
                        ELSE IF d < writer[w].today \/ InWindow(d, writer[w].dates)
                        THEN 0 ELSE rows[writer[w].loc][d]
    OBVIOUS
  <2>1. Commit(w)
    <3>1. writer[w] \in WriterRecord /\ writer' # writer
      BY <1>1 DEF IInv, TypeOK
    <3>2. ASSUME NEW v \in Writers, NEW l \in Locations, NEW dates \in Payloads,
                 StartUpsert(v, l, dates)
          PROVE  FALSE
      BY <1>1, <3>2 DEF StartUpsert, IInv, TypeOK
    <3>3. ASSUME NEW v \in Writers, Write(v) PROVE Commit(w)
      <4>1. v = w
        BY <1>1, <3>3
        DEF Write, TakeLock, DeleteObsolete, Commit, Rollback, InvalidateCache,
            LoseCommitAnswer, IInv, TypeOK
      <4>2. writer[w].pc # "waiting" /\ writer[w].pc # "locked"
            /\ writer[w].pc # "committed"
        OBVIOUS
      <4>3. ~Rollback(w)
        BY <1>1 DEF Rollback, IdleWriter, IInv, TypeOK
      <4> QED BY <3>3, <4>1, <4>2, <4>3
              DEF Write, TakeLock, DeleteObsolete, InvalidateCache, LoseCommitAnswer
    <3>4. ASSUME NEW p \in Procs, Crash(p) PROVE FALSE
      BY <3>4 DEF Crash, IdleWriter
    <3>5. /\ \A r \in Readers, l \in Locations : ~StartGetDays(r, l)
          /\ \A r \in Readers : ~Read(r)
          /\ ~Midnight /\ ~Tick
      BY <3>1 DEF StartGetDays, Read, QueryDays, QueryCacheMeta, Fill, StartGetMeta,
                  QueryMeta, EndRead, Midnight, Tick
    <3> QED BY <1>1, <3>1, <3>2, <3>3, <3>4, <3>5 DEF Next, vars
  <2>2. writer[w].doomed = Obsolete(w)
    BY <1>1, <2>1 DEF Commit, IInv, DoomedIsObsolete
  <2>3. writer[w].loc \in Locations /\ rows[writer[w].loc] \in [Dates -> Nat]
    BY <1>1 DEF IInv, TypeOK, WriterRecord, Forecast
  <2> QED BY <1>1, <2>1, <2>2, <2>3, CommittedRows DEF Obsolete
<1> QED BY <1>1, Invariant, PTL DEF Spec, UpsertReplacesSpan

-----------------------------------------------------------------------------
\* The cache.

\* The Map in the order of use: no two entries were used at the same time, so no
\* two of them are one location's.
Sorted(es, use) ==
  \A i, j \in 1..Len(es) : i < j => use[es[i].loc] < use[es[j].loc]

CacheInv ==
  /\ CacheTypeOK
  /\ Sorted(entries, lastUse)
  /\ \A l \in Locations : lastUse[l] <= ops

\* What a sequence of entries is as a map.
Item(e) == [value |-> e.value, left |-> e.left]
MapOf(es) ==
  [l \in Locations |-> IF l \in Keys(es) THEN Item(es[IndexOf(es, l)]) ELSE NoEntry]

-----------------------------------------------------------------------------
\* Sequences of entries.

LEMMA Capacities == Capacity \in Nat \ {0}
  BY MaxEntriesAssumption DEF Capacity

LEMMA Entries ==
  ASSUME NEW es \in Seq(EntryRecord)
  PROVE  /\ Len(es) \in Nat /\ DOMAIN es = 1..Len(es)
         /\ \A i \in 1..Len(es) : /\ es[i] \in EntryRecord
                                  /\ es[i].loc \in Locations
                                  /\ es[i].value \in Values
                                  /\ es[i].left \in 0..Ttl
<1>1. Len(es) \in Nat /\ DOMAIN es = 1..Len(es)
  BY LenProperties
<1>2. \A i \in 1..Len(es) : es[i] \in EntryRecord
  BY ElementOfSeq
<1> QED BY <1>1, <1>2 DEF EntryRecord

\* In a sorted Map, a location has one place.
LEMMA OnePlace ==
  ASSUME NEW es \in Seq(EntryRecord), NEW use \in [Locations -> Nat], Sorted(es, use),
         NEW i \in 1..Len(es), NEW j \in 1..Len(es), es[i].loc = es[j].loc
  PROVE  i = j
<1>1. es[i].loc \in Locations /\ es[j].loc \in Locations
  BY Entries
<1>2. ~(i < j) /\ ~(j < i)
  BY <1>1 DEF Sorted
<1> QED BY <1>2, Entries

LEMMA Found ==
  ASSUME NEW es \in Seq(EntryRecord), NEW use \in [Locations -> Nat], Sorted(es, use),
         NEW i \in 1..Len(es)
  PROVE  es[i].loc \in Keys(es) /\ IndexOf(es, es[i].loc) = i
<1>1. i \in DOMAIN es
  BY Entries
<1>2. /\ IndexOf(es, es[i].loc) \in DOMAIN es
      /\ es[IndexOf(es, es[i].loc)].loc = es[i].loc
  BY <1>1 DEF IndexOf
<1>3. IndexOf(es, es[i].loc) \in 1..Len(es)
  BY <1>2, Entries
<1>4. IndexOf(es, es[i].loc) = i
  BY <1>2, <1>3, OnePlace
<1> QED BY <1>1, <1>4 DEF Keys

\* The map of a sequence of entries says what its entries say.
LEMMA MapOfEntries ==
  ASSUME NEW es \in Seq(EntryRecord), NEW use \in [Locations -> Nat], Sorted(es, use)
  PROVE  /\ \A i \in 1..Len(es) :
              MapOf(es)[es[i].loc] = Item(es[i])
         /\ \A l \in Locations : l \notin Keys(es) => MapOf(es)[l] = NoEntry
<1>1. ASSUME NEW i \in 1..Len(es)
      PROVE  MapOf(es)[es[i].loc] = Item(es[i])
  BY Found, Entries DEF MapOf
<1>2. ASSUME NEW l \in Locations, l \notin Keys(es) PROVE MapOf(es)[l] = NoEntry
  BY <1>2 DEF MapOf
<1> QED BY <1>1, <1>2

\* No entry is mistaken for none.
LEMMA KeysAreMapped ==
  ASSUME NEW es \in Seq(EntryRecord), NEW use \in [Locations -> Nat], Sorted(es, use),
         NEW l \in Locations
  PROVE  MapOf(es)[l] # NoEntry <=> l \in Keys(es)
<1>1. ASSUME l \in Keys(es) PROVE MapOf(es)[l] # NoEntry
  <2>1. PICK i \in 1..Len(es) : es[i].loc = l
    BY <1>1, Entries DEF Keys
  <2>2. Item(es[i]) \in [value : Values, left : 0..Ttl]
    BY Entries DEF Item
  <2> QED BY <2>1, <2>2, MapOfEntries, NoEntryAssumption
<1> QED BY <1>1, MapOfEntries

-----------------------------------------------------------------------------
\* Deleting, appending and evicting.

\* Deleting takes the entries of one location and keeps the others in their order.
LEMMA DeleteKeepsOthers ==
  ASSUME NEW es \in Seq(EntryRecord), NEW use \in [Locations -> Nat], Sorted(es, use),
         NEW l \in Locations
  PROVE  /\ Delete(es, l) \in Seq(EntryRecord)
         /\ Len(Delete(es, l)) = IF l \in Keys(es) THEN Len(es) - 1 ELSE Len(es)
         /\ \A i \in 1..Len(Delete(es, l)) :
              Delete(es, l)[i].loc # l /\ \E j \in 1..Len(es) : Delete(es, l)[i] = es[j]
         /\ \A j \in 1..Len(es) :
              es[j].loc # l => \E i \in 1..Len(Delete(es, l)) : Delete(es, l)[i] = es[j]
         /\ Sorted(Delete(es, l), use)
<1> DEFINE ds == Delete(es, l)
           n == Len(es)
<1>0. n \in Nat /\ DOMAIN es = 1..n
  BY Entries
<1>1. CASE l \notin Keys(es)
  <2>1. ds = es
    BY <1>1 DEF Delete
  <2>2. \A i \in 1..n : es[i].loc # l
    BY <1>0, <1>1 DEF Keys
  <2> QED BY <1>1, <2>1, <2>2
<1>2. CASE l \in Keys(es)
  <2> DEFINE p == IndexOf(es, l)
             a == SubSeq(es, 1, p - 1)
             b == SubSeq(es, p + 1, n)
  <2>1. p \in 1..n /\ es[p].loc = l
    BY <1>0, <1>2 DEF Keys, IndexOf
  <2>2. ds = a \o b
    BY <1>2 DEF Delete, RemoveAt
  <2>3. \A i \in 1..p - 1 : es[i] \in EntryRecord
    BY <1>0, <2>1, Entries
  <2>4. \A i \in p + 1..n : es[i] \in EntryRecord
    BY <1>0, <2>1, Entries
  <2>5. /\ a \in Seq(EntryRecord) /\ Len(a) = p - 1
        /\ \A i \in 1..p - 1 : a[i] = es[i]
    <3>1. p - 1 \in Int
      BY <1>0, <2>1
    <3>2. /\ a \in Seq(EntryRecord)
          /\ Len(a) = IF 1 <= p - 1 THEN p - 1 - 1 + 1 ELSE 0
          /\ \A i \in 1..p - 1 - 1 + 1 : a[i] = es[1 + i - 1]
      BY <2>3, <3>1, SubSeqProperties
    <3>3. Len(a) = p - 1
      BY <1>0, <2>1, <3>2
    <3> QED BY <1>0, <2>1, <3>2, <3>3
  <2>6. /\ b \in Seq(EntryRecord) /\ Len(b) = n - p
        /\ \A i \in 1..n - p : b[i] = es[p + i]
    <3>1. p + 1 \in Int /\ n \in Int
      BY <1>0, <2>1
    <3>2. /\ b \in Seq(EntryRecord)
          /\ Len(b) = IF p + 1 <= n THEN n - (p + 1) + 1 ELSE 0
          /\ \A i \in 1..n - (p + 1) + 1 : b[i] = es[p + 1 + i - 1]
      BY <2>4, <3>1, SubSeqProperties
    <3>3. Len(b) = n - p
      BY <1>0, <2>1, <3>2
    <3> QED BY <1>0, <2>1, <3>2, <3>3
  <2>7. /\ ds \in Seq(EntryRecord)
        /\ Len(ds) = Len(a) + Len(b)
        /\ \A i \in 1..Len(a) + Len(b) :
             ds[i] = IF i <= Len(a) THEN a[i] ELSE b[i - Len(a)]
    <3> HIDE DEF a, b
    <3>1. /\ a \o b \in Seq(EntryRecord)
          /\ Len(a \o b) = Len(a) + Len(b)
          /\ \A i \in 1..Len(a) + Len(b) :
               (a \o b)[i] = IF i <= Len(a) THEN a[i] ELSE b[i - Len(a)]
      BY <2>5, <2>6, ConcatProperties
    <3> QED BY <2>2, <3>1
  <2> HIDE DEF ds, n, p, a, b
  <2>8. /\ Len(ds) = n - 1
        /\ \A i \in 1..n - 1 : ds[i] = IF i < p THEN es[i] ELSE es[i + 1]
    <3>1. Len(ds) = n - 1
      BY <1>0, <2>1, <2>5, <2>6, <2>7
    <3>2. ASSUME NEW i \in 1..n - 1
          PROVE  ds[i] = IF i < p THEN es[i] ELSE es[i + 1]
      <4>1. i \in 1..Len(a) + Len(b)
        BY <1>0, <2>1, <2>5, <2>6
      <4>2. CASE i < p
        <5>1. i \in 1..p - 1 /\ i <= Len(a)
          BY <1>0, <2>1, <2>5, <4>2
        <5> QED BY <2>5, <2>7, <4>1, <4>2, <5>1
      <4>3. CASE ~(i < p)
        <5>1. /\ i - (p - 1) \in 1..n - p /\ ~(i <= Len(a))
              /\ p + (i - (p - 1)) = i + 1
          BY <1>0, <2>1, <2>5, <4>3
        <5>2. ds[i] = b[i - (p - 1)]
          BY <2>5, <2>7, <4>1, <5>1
        <5> QED BY <2>6, <4>3, <5>1, <5>2
      <4> QED BY <4>2, <4>3
    <3> QED BY <3>1, <3>2
  <2>9. \A i \in 1..n : i # p => es[i].loc # l
    BY <2>1, OnePlace DEF n
  <2>10. ASSUME NEW i \in 1..n - 1
         PROVE  ds[i].loc # l /\ \E j \in 1..n : ds[i] = es[j]
    BY <1>0, <2>1, <2>8, <2>9
  <2>11. ASSUME NEW j \in 1..n, es[j].loc # l
         PROVE  \E i \in 1..n - 1 : ds[i] = es[j]
    <3>1. CASE j < p
      <4>1. j \in 1..n - 1
        BY <1>0, <2>1, <3>1
      <4>2. ds[j] = es[j]
        BY <2>8, <3>1, <4>1
      <4> QED BY <4>1, <4>2
    <3>2. CASE j > p
      <4>1. j - 1 \in 1..n - 1 /\ ds[j - 1] = es[j]
        BY <1>0, <2>1, <2>8, <3>2
      <4> QED BY <4>1
    <3> QED BY <1>0, <2>1, <2>11, <3>1, <3>2
  <2>12. Sorted(ds, use)
    <3>1. SUFFICES ASSUME NEW i \in 1..n - 1, NEW j \in 1..n - 1, i < j
                   PROVE  use[ds[i].loc] < use[ds[j].loc]
      BY <2>8 DEF Sorted
    <3>2. PICK g \in 1..n, h \in 1..n : g < h /\ ds[i] = es[g] /\ ds[j] = es[h]
      <4> DEFINE place(k) == IF k < p THEN k ELSE k + 1
      <4>1. place(i) \in 1..n /\ place(j) \in 1..n /\ place(i) < place(j)
        BY <1>0, <2>1, <3>1
      <4>2. ds[i] = es[place(i)] /\ ds[j] = es[place(j)]
        BY <2>8
      <4> HIDE DEF place
      <4> QED BY <4>1, <4>2
    <3> QED BY <3>2 DEF Sorted, n
  <2> QED BY <1>2, <2>7, <2>8, <2>10, <2>11, <2>12 DEF ds, n
<1> QED BY <1>1, <1>2

\* The keys are those of the entries that stay.
LEMMA DeletedKeys ==
  ASSUME NEW es \in Seq(EntryRecord), NEW use \in [Locations -> Nat], Sorted(es, use),
         NEW l \in Locations
  PROVE  Keys(Delete(es, l)) = Keys(es) \ {l}
<1> DEFINE ds == Delete(es, l)
<1>1. /\ ds \in Seq(EntryRecord)
      /\ \A i \in 1..Len(ds) : ds[i].loc # l /\ \E j \in 1..Len(es) : ds[i] = es[j]
      /\ \A j \in 1..Len(es) : es[j].loc # l => \E i \in 1..Len(ds) : ds[i] = es[j]
  BY DeleteKeepsOthers
<1>2. DOMAIN ds = 1..Len(ds) /\ DOMAIN es = 1..Len(es)
  BY <1>1, Entries
<1> HIDE DEF ds
<1>3. ASSUME NEW m \in Keys(ds) PROVE m \in Keys(es) /\ m # l
  <2>1. PICK i \in 1..Len(ds) : ds[i].loc = m
    BY <1>2 DEF Keys
  <2>2. ds[i].loc # l /\ \E j \in 1..Len(es) : ds[i] = es[j]
    BY <1>1
  <2> QED BY <1>2, <2>1, <2>2 DEF Keys
<1>4. ASSUME NEW m \in Keys(es), m # l PROVE m \in Keys(ds)
  <2>1. PICK j \in 1..Len(es) : es[j].loc = m
    BY <1>2 DEF Keys
  <2>2. PICK i \in 1..Len(ds) : ds[i] = es[j]
    BY <1>1, <1>4, <2>1
  <2> QED BY <1>2, <2>1, <2>2 DEF Keys
<1> QED BY <1>3, <1>4 DEF ds

\* Deleting takes the location from the map.
LEMMA DeletedMap ==
  ASSUME NEW es \in Seq(EntryRecord), NEW use \in [Locations -> Nat], Sorted(es, use),
         NEW l \in Locations
  PROVE  MapOf(Delete(es, l)) = [MapOf(es) EXCEPT ![l] = NoEntry]
<1> DEFINE ds == Delete(es, l)
<1>1. /\ ds \in Seq(EntryRecord) /\ Sorted(ds, use)
      /\ \A i \in 1..Len(ds) : \E j \in 1..Len(es) : ds[i] = es[j]
  BY DeleteKeepsOthers
<1>2. Keys(ds) = Keys(es) \ {l}
  BY DeletedKeys
<1> HIDE DEF ds
<1>3. ASSUME NEW m \in Locations
      PROVE  MapOf(ds)[m] = IF m = l THEN NoEntry ELSE MapOf(es)[m]
  <2>1. CASE m \notin Keys(ds)
    BY <1>1, <1>2, <2>1, MapOfEntries
  <2>2. CASE m \in Keys(ds)
    <3>1. PICK i \in 1..Len(ds) : ds[i].loc = m
      BY <1>1, <2>2, Entries DEF Keys
    <3>2. PICK j \in 1..Len(es) : ds[i] = es[j]
      BY <1>1
    <3>3. MapOf(ds)[m] = MapOf(es)[m]
      <4>1. /\ MapOf(ds)[ds[i].loc] = Item(ds[i])
            /\ MapOf(es)[es[j].loc] = Item(es[j])
        BY <1>1, MapOfEntries
      <4> QED BY <3>1, <3>2, <4>1
    <3> QED BY <1>2, <2>2, <3>3
  <2> QED BY <2>1, <2>2
<1> QED BY <1>3 DEF MapOf, ds

\* Appending the entry of a location that has none makes it the most recent.
LEMMA AppendIsLastUsed ==
  ASSUME NEW es \in Seq(EntryRecord), NEW use \in [Locations -> Nat], Sorted(es, use),
         NEW e \in EntryRecord, e.loc \notin Keys(es),
         NEW t \in Nat, \A l \in Locations : use[l] < t
  PROVE  /\ Append(es, e) \in Seq(EntryRecord)
         /\ Len(Append(es, e)) = Len(es) + 1
         /\ \A i \in 1..Len(es) : Append(es, e)[i] = es[i]
         /\ Append(es, e)[Len(es) + 1] = e
         /\ Sorted(Append(es, e), [use EXCEPT ![e.loc] = t])
         /\ MapOf(Append(es, e)) =
              [MapOf(es) EXCEPT ![e.loc] = Item(e)]
<1> DEFINE grown == Append(es, e)
           n == Len(es)
           later == [use EXCEPT ![e.loc] = t]
<1>1. /\ grown \in Seq(EntryRecord)
      /\ Len(grown) = n + 1
      /\ \A i \in 1..n : grown[i] = es[i]
      /\ grown[n + 1] = e
  BY AppendProperties
<1>2. /\ n \in Nat /\ DOMAIN es = 1..n /\ DOMAIN grown = 1..n + 1
      /\ \A i \in 1..n : es[i].loc \in Locations /\ es[i].loc # e.loc
  BY <1>1, Entries DEF Keys
<1>3. e.loc \in Locations /\ later \in [Locations -> Nat]
  BY DEF EntryRecord
<1>4. \A l \in Locations : later[l] = IF l = e.loc THEN t ELSE use[l]
  BY <1>3
<1> HIDE DEF grown, n, later
<1>5. Sorted(grown, later)
  <2>1. SUFFICES ASSUME NEW i \in 1..n + 1, NEW j \in 1..n + 1, i < j
                 PROVE  later[grown[i].loc] < later[grown[j].loc]
    BY <1>1 DEF Sorted
  <2>2. i \in 1..n /\ grown[i] = es[i] /\ later[grown[i].loc] = use[es[i].loc]
    <3>1. i \in 1..n
      BY <1>2, <2>1
    <3>2. grown[i] = es[i] /\ es[i].loc \in Locations /\ es[i].loc # e.loc
      BY <1>1, <1>2, <3>1
    <3> QED BY <1>4, <3>1, <3>2
  <2>3. CASE j = n + 1
    <3>1. later[grown[j].loc] = t
      BY <1>1, <1>3, <1>4, <2>3
    <3>2. es[i].loc \in Locations
      BY <1>2, <2>2
    <3> QED BY <2>2, <3>1, <3>2
  <2>4. CASE j # n + 1
    <3>1. j \in 1..n
      BY <1>2, <2>1, <2>4
    <3>2. grown[j] = es[j] /\ es[j].loc \in Locations /\ es[j].loc # e.loc
      BY <1>1, <1>2, <3>1
    <3>3. later[grown[j].loc] = use[es[j].loc]
      BY <1>4, <3>2
    <3> QED BY <2>1, <2>2, <3>1, <3>3 DEF Sorted, n
  <2> QED BY <2>3, <2>4
<1>6. ASSUME NEW m \in Locations
      PROVE  MapOf(grown)[m] = IF m = e.loc THEN Item(e)
                                         ELSE MapOf(es)[m]
  <2>1. CASE m = e.loc
    <3>1. n + 1 \in 1..Len(grown)
      BY <1>1, <1>2
    <3>2. MapOf(grown)[grown[n + 1].loc]
            = Item(grown[n + 1])
      BY <1>1, <1>3, <1>5, <3>1, MapOfEntries
    <3> QED BY <1>1, <2>1, <3>2
  <2>2. CASE m # e.loc /\ m \in Keys(es)
    <3>1. PICK i \in 1..n : es[i].loc = m
      BY <1>2, <2>2 DEF Keys
    <3>2. i \in 1..n + 1
      BY <1>2
    <3>3. i \in 1..Len(grown) /\ grown[i] = es[i]
      BY <1>1, <3>2
    <3>4. MapOf(grown)[grown[i].loc] = Item(grown[i])
      BY <1>1, <1>3, <1>5, <3>3, MapOfEntries
    <3>5. MapOf(es)[es[i].loc] = Item(es[i])
      BY MapOfEntries DEF n
    <3> QED BY <2>2, <3>1, <3>3, <3>4, <3>5
  <2>3. CASE m # e.loc /\ m \notin Keys(es)
    <3>1. ASSUME m \in Keys(grown) PROVE FALSE
      <4>1. PICK i \in 1..n + 1 : grown[i].loc = m
        BY <1>2, <3>1 DEF Keys
      <4>2. i \in 1..n
        <5>1. i # n + 1
          BY <1>1, <2>3, <4>1
        <5> QED BY <1>2, <4>1, <5>1
      <4>3. es[i].loc = m
        BY <1>1, <4>1, <4>2
      <4> QED BY <1>2, <2>3, <4>2, <4>3 DEF Keys
    <3> QED BY <1>1, <1>3, <1>5, <2>3, <3>1, MapOfEntries
  <2> QED BY <2>1, <2>2, <2>3
<1> QED BY <1>1, <1>5, <1>6 DEF MapOf, grown, n, later

\* Eviction drops what is in front, as much as there is too much.
LEMMA EvictionDropsTheFront ==
  ASSUME NEW es \in Seq(EntryRecord)
  PROVE  LET kept == EvictIfNeeded(es)
             drop == IF Len(es) > Capacity THEN Len(es) - Capacity ELSE 0
         IN  /\ kept \in Seq(EntryRecord)
             /\ Len(kept) = Len(es) - drop
             /\ Len(kept) <= Capacity
             /\ \A i \in 1..Len(kept) : kept[i] = es[drop + i]
<1> DEFINE n == Len(es)
           kept == EvictIfNeeded(es)
           drop == IF n > Capacity THEN n - Capacity ELSE 0
<1>1. n \in Nat /\ Capacity \in Nat \ {0}
  BY Entries, Capacities
<1>2. CASE n > Capacity
  <2> DEFINE m == n - Capacity + 1
  <2>1. m \in 1..n /\ drop = n - Capacity
    BY <1>1, <1>2
  <2>2. \A i \in m..n : es[i] \in EntryRecord
    BY <1>1, <2>1, Entries
  <2>3. kept = SubSeq(es, m, n)
    BY <1>2 DEF EvictIfNeeded
  <2> HIDE DEF m, kept
  <2>4. /\ kept \in Seq(EntryRecord)
        /\ Len(kept) = IF m <= n THEN n - m + 1 ELSE 0
        /\ \A i \in 1..n - m + 1 : kept[i] = es[m + i - 1]
    BY <1>1, <2>1, <2>2, <2>3, SubSeqProperties
  <2>5. Len(kept) = n - drop /\ Len(kept) <= Capacity
    BY <1>1, <2>1, <2>4 DEF m
  <2>6. ASSUME NEW i \in 1..Len(kept) PROVE kept[i] = es[drop + i]
    <3>1. i \in 1..n - m + 1 /\ m + i - 1 = drop + i
      BY <1>1, <2>1, <2>5 DEF m
    <3> QED BY <2>4, <3>1
  <2> QED BY <2>4, <2>5, <2>6 DEF kept
<1>3. CASE ~(n > Capacity)
  <2>1. kept = es /\ drop = 0
    BY <1>3 DEF EvictIfNeeded
  <2>2. \A i \in 1..n : es[i] = es[0 + i]
    BY <1>1
  <2> QED BY <1>1, <1>3, <2>1, <2>2
<1> QED BY <1>2, <1>3

\* A suffix of a sorted Map is sorted.
LEMMA SuffixIsSorted ==
  ASSUME NEW es \in Seq(EntryRecord), NEW use \in [Locations -> Nat], Sorted(es, use),
         NEW drop \in Nat,
         NEW kept \in Seq(EntryRecord), Len(kept) = Len(es) - drop,
         \A i \in 1..Len(kept) : kept[i] = es[drop + i]
  PROVE  Sorted(kept, use)
<1>1. SUFFICES ASSUME NEW i \in 1..Len(kept), NEW j \in 1..Len(kept), i < j
               PROVE  use[kept[i].loc] < use[kept[j].loc]
  BY DEF Sorted
<1>2. /\ drop + i \in 1..Len(es) /\ drop + j \in 1..Len(es)
      /\ drop + i < drop + j
  BY <1>1, Entries
<1> QED BY <1>2 DEF Sorted

\* As many entries, as many locations.
LEMMA CountOfKeys ==
  ASSUME NEW es \in Seq(EntryRecord), NEW use \in [Locations -> Nat], Sorted(es, use),
         NEW n \in 0..Len(es)
  PROVE  /\ IsFiniteSet({es[i].loc : i \in 1..n})
         /\ Cardinality({es[i].loc : i \in 1..n}) = n
<1> DEFINE f == [i \in 1..n |-> es[i].loc]
           T == {es[i].loc : i \in 1..n}
<1>1. n \in Nat /\ \A i \in 1..n : i \in 1..Len(es)
  BY Entries
<1>2. f \in [1..n -> T] /\ \A t \in T : \E i \in 1..n : f[i] = t
  OBVIOUS
<1>3. \A i, j \in 1..n : f[i] = f[j] => i = j
  BY <1>1, OnePlace
<1>4. DOMAIN f = 1..n
  OBVIOUS
<1> HIDE DEF f, T
<1>5. f \in Bijection(1..n, T)
  BY <1>2, <1>3, <1>4, Zenon DEF Bijection, Injection, Surjection, IsInjective
<1>6. ExistsBijection(1..n, T)
  BY <1>5, Zenon DEF ExistsBijection
<1>7. IsFiniteSet(T) /\ Cardinality(T) = n
  BY <1>1, <1>6, FS_CountingElements, FS_NatBijection
<1> QED BY <1>7 DEF T

-----------------------------------------------------------------------------
\* The operations, one after the other: each keeps the invariant and is, on the map,
\* what CacheMap says it is.

LEMMA CacheFacts ==
  ASSUME CacheInv
  PROVE  /\ entries \in Seq(EntryRecord) /\ Len(entries) <= Capacity
         /\ lastUse \in [Locations -> Nat] /\ Sorted(entries, lastUse)
         /\ ops \in Nat
         /\ \A l \in Locations : lastUse[l] < ops + 1
  BY TtlAssumption, MaxOpsAssumption DEF CacheInv, CacheTypeOK

LEMMA MapsAreMaps == AsMap = MapOf(entries) /\ AsMap' = MapOf(entries')
  BY DEF AsMap, MapOf, Item, Has, EntryOf

\* What is to be shown of a step.
LEMMA InvariantAfter ==
  ASSUME entries' \in Seq(EntryRecord), Len(entries') <= Capacity,
         lastUse' \in [Locations -> 0..ops'], ops' \in 0..MaxOps,
         Sorted(entries', lastUse')
  PROVE  CacheInv'
<1>1. lastUse' \in [Locations -> Nat]
  BY TtlAssumption, MaxOpsAssumption
<1>2. DOMAIN entries' = 1..Len(entries')
  BY Entries
<1>3. \A i, j \in DOMAIN entries' : entries'[i].loc = entries'[j].loc => i = j
  BY <1>1, <1>2, OnePlace
<1>4. lastUse' \in [Locations -> 0..MaxOps] /\ \A l \in Locations : lastUse'[l] <= ops'
  BY TtlAssumption, MaxOpsAssumption
<1> QED BY <1>3, <1>4 DEF CacheInv, CacheTypeOK

\* Uses so far are no later than the operation that follows.
LEMMA UsesAfter ==
  ASSUME CacheInv, Step
  PROVE  /\ ops' \in 0..MaxOps
         /\ lastUse \in [Locations -> 0..ops']
         /\ \A l \in Locations : [lastUse EXCEPT ![l] = ops + 1] \in [Locations -> 0..ops']
<1>1. ops' = ops + 1 /\ ops \in Nat /\ ops < MaxOps
  BY CacheFacts DEF Step
<1>2. \A l \in Locations : lastUse[l] \in 0..ops'
  BY <1>1, CacheFacts
<1>3. lastUse \in [Locations -> 0..ops']
  BY <1>2, CacheFacts
<1> QED BY <1>1, <1>3, TtlAssumption, MaxOpsAssumption

\* The entry that is found is one of the Map's.
LEMMA EntryFound ==
  ASSUME CacheInv, NEW l \in Locations, Has(l)
  PROVE  /\ EntryOf(l) \in EntryRecord /\ EntryOf(l).loc = l
         /\ AsMap[l] = Item(EntryOf(l))
         /\ AsMap[l].left = EntryOf(l).left
<1>1. PICK i \in 1..Len(entries) : entries[i].loc = l
  BY CacheFacts, Entries DEF Has, Keys
<1>2. IndexOf(entries, l) = i
  BY <1>1, CacheFacts, Found
<1>3. AsMap[l] = Item(EntryOf(l))
  BY DEF AsMap, Item
<1>4. AsMap[l].left = EntryOf(l).left
  BY <1>3 DEF Item
<1> QED BY <1>1, <1>2, <1>3, <1>4, CacheFacts, Entries DEF EntryOf

\* The entry of l is deleted.
LEMMA DeleteStep ==
  ASSUME CacheInv, NEW l \in Locations, Step,
         entries' = Delete(entries, l), UNCHANGED lastUse
  PROVE  CacheInv' /\ AsMap' = [AsMap EXCEPT ![l] = NoEntry]
<1>1. /\ entries \in Seq(EntryRecord) /\ Len(entries) <= Capacity
      /\ lastUse \in [Locations -> Nat] /\ Sorted(entries, lastUse)
  BY CacheFacts
<1>2. /\ entries' \in Seq(EntryRecord)
      /\ Len(entries') = IF l \in Keys(entries) THEN Len(entries) - 1 ELSE Len(entries)
      /\ Sorted(entries', lastUse)
  BY <1>1, DeleteKeepsOthers
<1>3. Len(entries') <= Capacity
  BY <1>1, <1>2, Entries, Capacities
<1>4. CacheInv'
  BY <1>2, <1>3, InvariantAfter, UsesAfter
<1>5. MapOf(entries') = [MapOf(entries) EXCEPT ![l] = NoEntry]
  BY <1>1, DeletedMap
<1> QED BY <1>4, <1>5, MapsAreMaps

LEMMA InvalidateStep ==
  ASSUME CacheInv, NEW l \in Locations, Invalidate(l)
  PROVE  CacheInv' /\ AsMap' = AfterInvalidate(AsMap, l)
  BY DeleteStep DEF Invalidate, AfterInvalidate

LEMMA GetStep ==
  ASSUME CacheInv, NEW l \in Locations, Get(l)
  PROVE  CacheInv' /\ AsMap' = AfterGet(AsMap, l)
<1>0. /\ entries \in Seq(EntryRecord) /\ Len(entries) <= Capacity
      /\ lastUse \in [Locations -> Nat] /\ Sorted(entries, lastUse)
      /\ ops \in Nat /\ \A m \in Locations : lastUse[m] < ops + 1
  BY CacheFacts
<1>1. CASE ~Has(l)
  <2>1. UNCHANGED <<entries, lastUse>> /\ Step
    BY <1>1 DEF Get
  <2>2. CacheInv'
    BY <1>0, <2>1, InvariantAfter, UsesAfter
  <2>3. AsMap[l] = NoEntry /\ AsMap' = AsMap
    BY <1>1, <2>1 DEF AsMap, Has, EntryOf
  <2>4. [AsMap EXCEPT ![l] = NoEntry] = AsMap
    BY <2>3 DEF AsMap
  <2> QED BY <2>2, <2>3, <2>4 DEF AfterGet, Hit
<1>2. CASE Has(l) /\ EntryOf(l).left = 0
  <2>1. Step /\ entries' = Delete(entries, l) /\ UNCHANGED lastUse
    BY <1>2 DEF Get
  <2>2. ~Hit(AsMap, l)
    BY <1>2, EntryFound DEF Hit
  <2> QED BY <2>1, <2>2, DeleteStep DEF AfterGet
<1>3. CASE Has(l) /\ EntryOf(l).left > 0
  <2> DEFINE e == EntryOf(l)
             ds == Delete(entries, l)
  <2>1. /\ Step
        /\ entries' = Append(ds, e)
        /\ lastUse' = [lastUse EXCEPT ![l] = ops + 1]
    BY <1>3, EntryFound DEF Get, Used
  <2>2. e \in EntryRecord /\ e.loc = l
    BY <1>3, EntryFound
  <2>3. /\ ds \in Seq(EntryRecord) /\ Sorted(ds, lastUse)
        /\ Len(ds) = Len(entries) - 1
        /\ Keys(ds) = Keys(entries) \ {l}
        /\ MapOf(ds) = [MapOf(entries) EXCEPT ![l] = NoEntry]
    BY <1>0, <1>3, DeleteKeepsOthers, DeletedKeys, DeletedMap DEF Has
  <2> HIDE DEF e, ds
  <2>4. /\ Append(ds, e) \in Seq(EntryRecord)
        /\ Len(Append(ds, e)) = Len(ds) + 1
        /\ Sorted(Append(ds, e), [lastUse EXCEPT ![e.loc] = ops + 1])
        /\ MapOf(Append(ds, e)) =
             [MapOf(ds) EXCEPT ![e.loc] = Item(e)]
    <3>1. e.loc \notin Keys(ds) /\ ops + 1 \in Nat
      BY <1>0, <2>2, <2>3
    <3> QED BY <1>0, <2>2, <2>3, <3>1, AppendIsLastUsed
  <2>5. Len(entries') <= Capacity
    BY <1>0, <2>1, <2>3, <2>4, Entries
  <2>6. CacheInv'
    BY <2>1, <2>2, <2>4, <2>5, InvariantAfter, UsesAfter
  <2>7. AsMap' = AsMap
    <3>1. AsMap[l] = Item(e)
      BY <1>3, EntryFound DEF e
    <3>2. AsMap' = [[AsMap EXCEPT ![l] = NoEntry] EXCEPT ![l] = AsMap[l]]
      BY <2>1, <2>2, <2>3, <2>4, <3>1, MapsAreMaps
    <3> QED BY <3>2 DEF AsMap
  <2>8. Hit(AsMap, l)
    <3>1. AsMap[l] # NoEntry
      BY <1>0, <1>3, KeysAreMapped, MapsAreMaps DEF Has
    <3> QED BY <1>3, <3>1, EntryFound DEF Hit
  <2> QED BY <2>6, <2>7, <2>8 DEF AfterGet
<1> QED BY <1>1, <1>2, <1>3 DEF Get

\* Time passes for every entry, and moves none.
LEMMA TickStep ==
  ASSUME CacheInv, CacheTick
  PROVE  CacheInv' /\ AsMap' = Aged(AsMap)
<1> DEFINE n == Len(entries)
<1>0. /\ entries \in Seq(EntryRecord) /\ n <= Capacity
      /\ lastUse \in [Locations -> Nat] /\ Sorted(entries, lastUse)
  BY CacheFacts
<1>1. /\ n \in Nat /\ DOMAIN entries = 1..n
      /\ \A i \in 1..n : /\ entries[i] \in EntryRecord
                         /\ entries[i].loc \in Locations
                         /\ entries[i].value \in Values
                         /\ entries[i].left \in 0..Ttl
  BY <1>0, Entries
<1>2. /\ Step /\ lastUse' = lastUse
      /\ entries' = [i \in 1..n |-> IF entries[i].left > 0
                                    THEN [entries[i] EXCEPT !.left = @ - 1]
                                    ELSE entries[i]]
  BY <1>1 DEF CacheTick
<1>3. ASSUME NEW i \in 1..n
      PROVE  /\ entries'[i] \in EntryRecord
             /\ entries'[i].loc = entries[i].loc
             /\ entries'[i].value = entries[i].value
             /\ entries'[i].left = IF entries[i].left > 0 THEN entries[i].left - 1
                                                         ELSE entries[i].left
  BY <1>1, <1>2, TtlAssumption, MaxOpsAssumption DEF EntryRecord
<1>4. entries' \in Seq(EntryRecord) /\ Len(entries') = n
  <2>1. entries' \in [1..n -> EntryRecord]
    BY <1>2, <1>3
  <2>2. entries' \in Seq(EntryRecord)
    BY <1>1, <2>1, SeqDef
  <2>3. Len(entries') \in Nat /\ DOMAIN entries' = 1..Len(entries')
    BY <2>2, Entries
  <2> QED BY <1>1, <2>1, <2>2, <2>3
<1> HIDE DEF n
<1>5. Sorted(entries', lastUse)
  BY <1>0, <1>3, <1>4 DEF Sorted, n
<1>6. CacheInv'
  BY <1>0, <1>2, <1>4, <1>5, InvariantAfter, UsesAfter
<1>7. ASSUME NEW l \in Locations PROVE AsMap'[l] = Aged(AsMap)[l]
  <2>1. CASE l \in Keys(entries)
    <3>1. PICK i \in 1..n : entries[i].loc = l
      BY <1>1, <2>1 DEF Keys
    <3>2. i \in 1..Len(entries') /\ entries'[i].loc = l
      BY <1>3, <1>4, <3>1
    <3>3. AsMap'[l] = Item(entries'[i])
      BY <1>0, <1>4, <1>5, <3>2, MapOfEntries, MapsAreMaps
    <3>4. AsMap[l] = Item(entries[i])
      BY <1>0, <3>1, MapOfEntries, MapsAreMaps DEF n
    <3>5. AsMap[l] # NoEntry
      BY <1>0, <2>1, KeysAreMapped, MapsAreMaps
    <3>6. Aged(AsMap)[l] = IF AsMap[l].left > 0 THEN [AsMap[l] EXCEPT !.left = @ - 1]
                                                ELSE AsMap[l]
      BY <3>5 DEF Aged, Hit
    <3>7. CASE entries[i].left > 0
      BY <1>3, <3>3, <3>4, <3>6, <3>7 DEF Item
    <3>8. CASE ~(entries[i].left > 0)
      BY <1>3, <3>3, <3>4, <3>6, <3>8 DEF Item
    <3> QED BY <3>7, <3>8
  <2>2. CASE l \notin Keys(entries)
    <3>1. l \notin Keys(entries')
      BY <1>0, <1>1, <1>3, <1>4, <2>2, Entries DEF Keys
    <3>2. AsMap[l] = NoEntry /\ AsMap'[l] = NoEntry
      BY <2>2, <3>1, MapsAreMaps DEF MapOf
    <3> QED BY <3>2 DEF Aged, Hit
  <2> QED BY <2>1, <2>2
<1> QED BY <1>6, <1>7, MapsAreMaps DEF Aged, MapOf

\* Set: what it keeps, as a Map and as a map.
LEMMA SetStep ==
  ASSUME CacheInv, NEW l \in Locations, NEW v \in Values, Set(l, v)
  PROVE  /\ CacheInv'
         /\ AsMap' \in AfterSet(AsMap, l, [value |-> v, left |-> Ttl])
         /\ \A gone, kept \in Locations \ {l} :
              Has(gone) /\ ~Has(gone)' /\ Has(kept) /\ Has(kept)'
                => lastUse[gone] < lastUse[kept]
<1> DEFINE e == [loc |-> l, value |-> v, left |-> Ttl]
           new == [value |-> v, left |-> Ttl]
           ds == Delete(entries, l)
           grown == Append(ds, e)
           n == Len(ds)
           later == [lastUse EXCEPT ![l] = ops + 1]
           drop == IF n + 1 > Capacity THEN n + 1 - Capacity ELSE 0
<1>0. /\ entries \in Seq(EntryRecord) /\ Len(entries) <= Capacity
      /\ lastUse \in [Locations -> Nat] /\ Sorted(entries, lastUse)
      /\ ops \in Nat /\ \A m \in Locations : lastUse[m] < ops + 1
  BY CacheFacts
<1>1. Step /\ entries' = EvictIfNeeded(grown) /\ lastUse' = later
  BY DEF Set, Used
<1>2. e \in EntryRecord /\ e.loc = l /\ e.value = v /\ e.left = Ttl
  BY TtlAssumption, MaxOpsAssumption DEF EntryRecord
<1>3. /\ ds \in Seq(EntryRecord) /\ Sorted(ds, lastUse)
      /\ Keys(ds) = Keys(entries) \ {l}
      /\ MapOf(ds) = [MapOf(entries) EXCEPT ![l] = NoEntry]
  BY <1>0, DeleteKeepsOthers, DeletedKeys, DeletedMap
<1>4. /\ n \in Nat /\ DOMAIN ds = 1..n
      /\ \A i \in 1..n : ds[i].loc \in Locations
  BY <1>3, Entries
<1> HIDE DEF e, ds
<1>5. /\ grown \in Seq(EntryRecord)
      /\ Len(grown) = n + 1
      /\ \A i \in 1..n : grown[i] = ds[i]
      /\ grown[n + 1] = e
      /\ Sorted(grown, later)
      /\ MapOf(grown) = [MapOf(ds) EXCEPT ![l] = new]
  <2>1. e.loc \notin Keys(ds) /\ ops + 1 \in Nat
    BY <1>0, <1>2, <1>3
  <2>2. /\ grown \in Seq(EntryRecord)
        /\ Len(grown) = Len(ds) + 1
        /\ \A i \in 1..Len(ds) : grown[i] = ds[i]
        /\ grown[Len(ds) + 1] = e
        /\ Sorted(grown, [lastUse EXCEPT ![e.loc] = ops + 1])
        /\ MapOf(grown) =
             [MapOf(ds) EXCEPT ![e.loc] = Item(e)]
    BY <1>0, <1>2, <1>3, <2>1, AppendIsLastUsed
  <2> QED BY <1>2, <2>2 DEF Item
<1>6. later \in [Locations -> Nat]
  BY <1>0
<1> HIDE DEF new, grown, n, later, drop
<1>7. drop \in 0..n
  BY <1>4, Capacities DEF drop
<1>8. /\ entries' \in Seq(EntryRecord)
      /\ Len(entries') = n + 1 - drop
      /\ Len(entries') <= Capacity
      /\ \A i \in 1..n + 1 - drop : entries'[i] = grown[drop + i]
  <2>1. drop = IF Len(grown) > Capacity THEN Len(grown) - Capacity ELSE 0
    BY <1>4, <1>5, Capacities DEF drop
  <2>2. /\ entries' \in Seq(EntryRecord)
        /\ Len(entries') = Len(grown) - drop
        /\ Len(entries') <= Capacity
        /\ \A i \in 1..Len(entries') : entries'[i] = grown[drop + i]
    BY <1>1, <1>5, <2>1, EvictionDropsTheFront
  <2> QED BY <1>4, <1>5, <1>7, <2>2
<1>9. DOMAIN entries' = 1..n + 1 - drop
  BY <1>8, Entries
<1>10. Sorted(entries', later)
  <2>1. /\ drop \in Nat
        /\ Len(entries') = Len(grown) - drop
        /\ \A i \in 1..Len(entries') : entries'[i] = grown[drop + i]
    BY <1>4, <1>5, <1>7, <1>8
  <2> QED BY <1>5, <1>6, <1>8, <2>1, SuffixIsSorted
<1>11. CacheInv'
  <2>1. later \in [Locations -> 0..ops'] /\ ops' \in 0..MaxOps
    BY <1>1, UsesAfter DEF later
  <2> QED BY <1>1, <1>8, <1>10, <2>1, InvariantAfter
\* Whoever stays, other than l itself, is behind what was dropped.
<1>12. \A m \in Locations \ {l} :
         m \in Keys(entries') <=> \E i \in drop + 1..n : ds[i].loc = m
  <2>1. ASSUME NEW m \in Locations \ {l}, m \in Keys(entries')
        PROVE  \E i \in drop + 1..n : ds[i].loc = m
    <3>1. PICK j \in 1..n + 1 - drop : entries'[j].loc = m
      BY <1>9, <2>1 DEF Keys
    <3>2. drop + j \in drop + 1..n + 1 /\ grown[drop + j].loc = m
      <4>1. drop + j \in drop + 1..n + 1
        BY <1>4, <1>7, <3>1
      <4> QED BY <1>8, <3>1, <4>1
    <3>3. drop + j # n + 1
      BY <1>2, <1>5, <2>1, <3>2
    <3>4. drop + j \in drop + 1..n /\ drop + j \in 1..n
      BY <1>4, <1>7, <3>2, <3>3
    <3> QED BY <1>5, <3>2, <3>4
  <2>2. ASSUME NEW m \in Locations \ {l}, NEW i \in drop + 1..n, ds[i].loc = m
        PROVE  m \in Keys(entries')
    <3>1. i \in 1..n /\ i - drop \in 1..n + 1 - drop /\ drop + (i - drop) = i
      BY <1>4, <1>7
    <3>2. entries'[i - drop].loc = m
      BY <1>5, <1>8, <2>2, <3>1
    <3> QED BY <1>9, <3>1, <3>2 DEF Keys
  <2> QED BY <2>1, <2>2
<1>13. ASSUME NEW gone \in Locations \ {l}, NEW kept \in Locations \ {l},
              Has(gone), ~Has(gone)', Has(kept)'
       PROVE  lastUse[gone] < lastUse[kept]
  <2>1. gone \in Keys(ds) /\ gone \notin Keys(entries') /\ kept \in Keys(entries')
    BY <1>3, <1>13 DEF Has
  <2>2. PICK i \in 1..n : ds[i].loc = gone
    BY <1>4, <2>1 DEF Keys
  <2>3. PICK j \in drop + 1..n : ds[j].loc = kept
    BY <1>12, <2>1
  <2>4. i \notin drop + 1..n
    BY <1>12, <2>1, <2>2
  <2>5. j \in 1..n /\ i < j
    BY <1>4, <1>7, <2>3, <2>4
  <2> QED BY <1>3, <2>2, <2>3, <2>5 DEF Sorted, n
\* As a map.
<1>14. ASSUME NEW m \in Locations
       PROVE  AsMap'[m] = IF m = l THEN new
                          ELSE IF m \in Keys(entries') THEN AsMap[m] ELSE NoEntry
  <2>1. CASE m = l
    <3>1. /\ n + 1 - drop \in 1..Len(entries') /\ drop + (n + 1 - drop) = n + 1
          /\ n + 1 - drop \in 1..n + 1 - drop
      BY <1>4, <1>7, <1>8
    <3>2. entries'[n + 1 - drop] = e
      BY <1>5, <1>8, <3>1
    <3>3. MapOf(entries')[e.loc] = Item(e)
      BY <1>6, <1>8, <1>10, <3>1, <3>2, MapOfEntries
    <3> QED BY <1>2, <2>1, <3>3, MapsAreMaps DEF Item, new
  <2>2. CASE m # l /\ m \in Keys(entries')
    <3>1. PICK i \in drop + 1..n : ds[i].loc = m
      BY <1>12, <2>2
    <3>2. /\ i \in 1..n /\ i - drop \in 1..n + 1 - drop
          /\ drop + (i - drop) = i
      BY <1>4, <1>7
    <3>3. entries'[i - drop] = ds[i] /\ i - drop \in 1..Len(entries')
      BY <1>5, <1>8, <3>2
    <3>4. MapOf(entries')[m] = Item(ds[i])
      <4>1. MapOf(entries')[entries'[i - drop].loc] =
              Item(entries'[i - drop])
        BY <1>6, <1>8, <1>10, <3>3, MapOfEntries
      <4> QED BY <3>1, <3>3, <4>1
    <3>5. MapOf(ds)[m] = Item(ds[i])
      <4>1. MapOf(ds)[ds[i].loc] = Item(ds[i])
        BY <1>0, <1>3, <3>2, MapOfEntries DEF n
      <4> QED BY <3>1, <4>1
    <3>6. MapOf(ds)[m] = MapOf(entries)[m]
      BY <1>3, <2>2 DEF MapOf
    <3> QED BY <2>2, <3>4, <3>5, <3>6, MapsAreMaps
  <2>3. CASE m # l /\ m \notin Keys(entries')
    BY <2>3, MapsAreMaps DEF MapOf
  <2> QED BY <2>1, <2>2, <2>3
\* As many as there is room for.
<1> DEFINE others == {m \in Locations \ {l} : AsMap[m] # NoEntry}
           stay == {m \in Locations \ {l} : m \in Keys(entries')}
<1>15. others = {ds[i].loc : i \in 1..n}
  <2>1. \A m \in Locations : AsMap[m] # NoEntry <=> m \in Keys(entries)
    BY <1>0, KeysAreMapped, MapsAreMaps
  <2>2. others = Keys(entries) \ {l}
    <3>1. Keys(entries) \subseteq Locations
      BY <1>0, Entries DEF Keys
    <3> QED BY <2>1, <3>1
  <2> QED BY <1>3, <1>4, <2>2 DEF Keys
<1>16. Cardinality(others) = n
  <2>1. n \in 0..Len(ds)
    BY <1>4 DEF n
  <2> QED BY <1>0, <1>3, <1>15, <2>1, CountOfKeys
<1>17. stay = {entries'[i].loc : i \in 1..n - drop}
  <2>1. ASSUME NEW m \in stay PROVE \E i \in 1..n - drop : entries'[i].loc = m
    <3>1. PICK i \in drop + 1..n : ds[i].loc = m
      BY <1>12
    <3>2. /\ i \in 1..n /\ i - drop \in 1..n - drop /\ i - drop \in 1..n + 1 - drop
          /\ drop + (i - drop) = i
      BY <1>4, <1>7
    <3> QED BY <1>5, <1>8, <3>1, <3>2
  <2>2. ASSUME NEW i \in 1..n - drop PROVE entries'[i].loc \in stay
    <3>1. /\ i \in 1..n + 1 - drop /\ drop + i \in 1..n /\ drop + i \in drop + 1..n
      BY <1>4, <1>7
    <3>2. entries'[i].loc = ds[drop + i].loc
      BY <1>5, <1>8, <3>1
    <3>3. ds[drop + i].loc \in Keys(ds) /\ ds[drop + i].loc \in Locations
      BY <1>4, <3>1 DEF Keys
    <3>4. entries'[i].loc \in Locations \ {l}
      BY <1>3, <3>2, <3>3
    <3>5. entries'[i].loc \in Keys(entries')
      BY <1>9, <3>1 DEF Keys
    <3> QED BY <3>4, <3>5
  <2> QED BY <2>1, <2>2
<1>18. Cardinality(stay) = n - drop
  <2>1. n - drop \in 0..Len(entries')
    BY <1>4, <1>7, <1>8
  <2> HIDE DEF stay
  <2> QED BY <1>6, <1>8, <1>10, <1>17, <2>1, CountOfKeys
<1>19. stay \in SUBSET others
  <2>1. ASSUME NEW m \in stay PROVE m \in {ds[i].loc : i \in 1..n}
    <3>1. PICK i \in drop + 1..n : ds[i].loc = m
      BY <1>12
    <3>2. i \in 1..n
      BY <1>4, <1>7
    <3> QED BY <3>1, <3>2
  <2> QED BY <1>15, <2>1
<1>20. IF n <= Capacity - 1 THEN stay = others ELSE Cardinality(stay) = Capacity - 1
  <2>1. CASE n <= Capacity - 1
    <3>1. drop = 0
      BY <1>4, <2>1, Capacities DEF drop
    <3>2. ASSUME NEW m \in others PROVE m \in stay
      <4>1. PICK i \in 1..n : ds[i].loc = m
        BY <1>15
      <4>2. i \in drop + 1..n
        BY <3>1, <4>1
      <4> QED BY <1>12, <4>1, <4>2
    <3> QED BY <1>19, <2>1, <3>2
  <2>2. CASE ~(n <= Capacity - 1)
    <3>1. n - drop = Capacity - 1
      BY <1>4, <2>2, Capacities DEF drop
    <3> QED BY <1>18, <2>2, <3>1
  <2> QED BY <2>1, <2>2
<1>21. AsMap' = [m \in Locations |->
                   IF m = l THEN new ELSE IF m \in stay THEN AsMap[m] ELSE NoEntry]
  BY <1>14 DEF AsMap
<1>22. AsMap' \in AfterSet(AsMap, l, new)
  <2> HIDE DEF stay
  <2> QED BY <1>16, <1>19, <1>20, <1>21, Zenon DEF AfterSet
<1> QED BY <1>11, <1>13, <1>22 DEF new

-----------------------------------------------------------------------------
LEMMA CacheStep ==
  ASSUME CacheInv, [CacheNext]_cacheVars
  PROVE  CacheInv'
<1>1. CASE CacheTick
  BY <1>1, TickStep
<1>2. ASSUME NEW l \in Locations, Get(l) PROVE CacheInv'
  BY <1>2, GetStep
<1>3. ASSUME NEW l \in Locations, Invalidate(l) PROVE CacheInv'
  BY <1>3, InvalidateStep
<1>4. ASSUME NEW l \in Locations, NEW v \in Values, Set(l, v) PROVE CacheInv'
  BY <1>4, SetStep
<1>5. CASE UNCHANGED cacheVars
  BY <1>5 DEF CacheInv, CacheTypeOK, Sorted, cacheVars
<1> QED BY <1>1, <1>2, <1>3, <1>4, <1>5 DEF CacheNext

\* The Map is well formed, and its order is the order of use.
THEOREM CacheInvariant == CacheSpec => []CacheInv
<1>1. CacheInit => CacheInv
  <2> SUFFICES ASSUME CacheInit PROVE CacheInv
    OBVIOUS
  <2>1. entries \in Seq(EntryRecord) /\ Len(entries) = 0 /\ DOMAIN entries = {}
    BY EmptySeq DEF CacheInit
  <2>2. lastUse \in [Locations -> 0..MaxOps] /\ ops \in 0..MaxOps
    BY TtlAssumption, MaxOpsAssumption DEF CacheInit
  <2>3. \A l \in Locations : lastUse[l] <= ops
    BY DEF CacheInit
  <2> QED BY <2>1, <2>2, <2>3, Capacities DEF CacheInv, CacheTypeOK, Sorted
<1> QED BY <1>1, CacheStep, PTL DEF CacheSpec

\* A set evicts the least recently used entries only (evictIfNeeded takes the first key
\* of the Map, and get and set move a key to its end), whatever the capacity.
THEOREM LeastRecentlyUsedIsEvicted == CacheSpec => EvictsLeastRecentlyUsed
<1>1. ASSUME CacheInv, [CacheNext]_cacheVars
      PROVE  [\A l \in Locations : \A v \in Values : Set(l, v) =>
                \A gone, kept \in Locations \ {l} :
                  Has(gone) /\ ~Has(gone)' /\ Has(kept) /\ Has(kept)'
                    => lastUse[gone] < lastUse[kept] ]_cacheVars
  BY <1>1, SetStep
<1> QED BY <1>1, CacheInvariant, PTL DEF CacheSpec, EvictsLeastRecentlyUsed

\* The Map of ForecastCache implements the map of CacheMap, operation by operation:
\* what the service is checked and proved with in place of the cache holds of the
\* cache that the code has.
THEOREM CacheIsAMap == CacheSpec => ImplementsCacheMap
<1>1. ASSUME CacheInv, [CacheNext]_cacheVars
      PROVE  [/\ CacheTypeOK'
              /\ CacheTick => AsMap' = Aged(AsMap)
              /\ \A l \in Locations :
                   /\ Get(l) => AsMap' = AfterGet(AsMap, l)
                   /\ Invalidate(l) => AsMap' = AfterInvalidate(AsMap, l)
                   /\ \A v \in Values : Set(l, v) =>
                        AsMap' \in AfterSet(AsMap, l, [value |-> v, left |-> Ttl])
             ]_cacheVars
  <2>1. CacheTypeOK'
    BY <1>1, CacheStep DEF CacheInv
  <2>2. CacheTick => AsMap' = Aged(AsMap)
    BY <1>1, TickStep
  <2>3. ASSUME NEW l \in Locations
        PROVE  /\ Get(l) => AsMap' = AfterGet(AsMap, l)
               /\ Invalidate(l) => AsMap' = AfterInvalidate(AsMap, l)
               /\ \A v \in Values : Set(l, v) =>
                    AsMap' \in AfterSet(AsMap, l, [value |-> v, left |-> Ttl])
    BY <1>1, GetStep, InvalidateStep, SetStep
  <2> QED BY <2>1, <2>2, <2>3
<1> QED BY <1>1, CacheInvariant, PTL DEF CacheSpec, ImplementsCacheMap
=============================================================================
