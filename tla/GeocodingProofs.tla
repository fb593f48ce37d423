-------------------------- MODULE GeocodingProofs ---------------------------
(***************************************************************************)
(* Proofs about Geocoding for any requests, processes, queries, answers of *)
(* the provider and any cap.                                               *)
(*                                                                         *)
(* The cap rests on the advisory lock: whoever has counted holds it until  *)
(* the commit, so nobody can promote in between and what was counted is    *)
(* still true when the transaction commits (CountHolds).  That a call is   *)
(* answered with a tracked location unless no place is left is the other   *)
(* half of what the count says, carried to the end of the call.            *)
(*                                                                         *)
(* The sharing of resolves rests on the entry: a call that has started a   *)
(* resolve is the entry of its query in its process until it ends, so who  *)
(* waits for it, and who may save its answer, is known (Shares).  From     *)
(* that follows that a process asks the provider for nothing it has just   *)
(* stored.                                                                 *)
(***************************************************************************)
EXTENDS Geocoding, FiniteSetTheorems, TLAPS

Full == Cardinality(tracked) = MaxTracked

\* What the steps of a call leave true of it.
Located(r) ==
  /\ request[r].pc \in {"create", "lock", "count", "commit", "save", "ok"} =>
       request[r].answer # <<>>
  /\ request[r].pc \in {"lock", "count", "commit", "save"} => Primary(r) \in created
  /\ request[r].pc \in {"save", "ok"} => Primary(r) \in tracked \/ Full

\* What a call that has the lock may rely on.
CountHolds(r) ==
  /\ request[r].pc \in {"count", "commit"} => lock = r
  /\ request[r].pc = "commit" =>
       \/ request[r].promote = TRUE /\ Cardinality(tracked) < MaxTracked
       \/ request[r].promote = FALSE /\ (Primary(r) \in tracked \/ Full)

CapInv == IsFiniteSet(tracked) /\ WithinCap

IInv ==
  /\ TypeOK
  /\ CapInv
  /\ \A r \in Requests : Located(r) /\ CountHolds(r)

-----------------------------------------------------------------------------
\* Types.

\* A call that has ended or not begun has the type of a call.
LEMMA EndedTypes ==
  ASSUME NEW pc \in {"idle", "ok", "lookup"}, NEW q \in Queries,
         NEW answer \in Answers \cup {<<>>}
  PROVE  /\ Ended(pc, q, answer) \in Request
         /\ Ended(pc, q, answer).pc = pc
         /\ Ended(pc, q, answer).query = q
         /\ Ended(pc, q, answer).from = "cache"
         /\ Ended(pc, q, answer).waits = Nobody
         /\ Ended(pc, q, answer).answer = answer
  BY DEF Ended, Request, Steps

\* The first candidate of an answer is a place, and one of its places.
LEMMA PrimaryIsPlace ==
  ASSUME NEW answer \in Answers \cup {<<>>}, answer # <<>>
  PROVE  /\ Head(answer) \in Places
         /\ Head(answer) \in {answer[i] : i \in DOMAIN answer}
         /\ {answer[i] : i \in DOMAIN answer} \subseteq Places
<1>1. answer \in Seq(Places) /\ Len(answer) > 0
  BY AnswersAssumption
<1>2. Head(answer) = answer[1] /\ 1 \in DOMAIN answer
  BY <1>1
<1> QED BY <1>1, <1>2

\* The candidates of no call are anything but places.
LEMMA CandidatesArePlaces ==
  ASSUME NEW answer \in Answers \cup {<<>>}
  PROVE  {answer[i] : i \in DOMAIN answer} \subseteq Places
  BY AnswersAssumption

\* The initial state.
LEMMA InitInvariant == Init => IInv
<1> SUFFICES ASSUME Init PROVE IInv
  OBVIOUS
<1>1. \A r \in Requests : request[r] \in Request /\ request[r].pc = "idle"
  <2> SUFFICES ASSUME NEW r \in Requests
               PROVE  request[r] \in Request /\ request[r].pc = "idle"
    OBVIOUS
  <2>1. PICK q \in Queries : request[r] = Ended("idle", q, <<>>)
    BY DEF Init
  <2> QED BY <2>1, EndedTypes
<1>2. request \in [Requests -> Request]
  BY <1>1 DEF Init
<1>3. row \in [Queries -> Row]
  <2>1. NoRow \in Row
    BY LimitsAssumption DEF NoRow, Row, MaxAge
  <2> QED BY <2>1 DEF Init
<1>4. TypeOK
  BY <1>2, <1>3 DEF Init, TypeOK
<1>5. CapInv
  BY FS_EmptySet, LimitsAssumption DEF Init, CapInv, WithinCap
<1>6. \A r \in Requests : Located(r) /\ CountHolds(r)
  BY <1>1 DEF Located, CountHolds
<1> QED BY <1>4, <1>5, <1>6 DEF IInv

-----------------------------------------------------------------------------
\* Steps that leave the tracked locations and the lock alone.

\* A call keeps what it has while others move, as long as places are only added
\* and, if it is in the transaction, the lock stays with it.
LEMMA OthersKept ==
  ASSUME IInv, NEW s \in Requests, request'[s] = request[s],
         created \subseteq created', tracked' = tracked,
         lock = s => lock' = s
  PROVE  Located(s)' /\ CountHolds(s)'
<1>1. Primary(s)' = Primary(s) /\ Full' = Full
  BY DEF Primary, Full
<1>2. Located(s)'
  BY <1>1 DEF IInv, Located
<1>3. CountHolds(s)'
  BY <1>1 DEF IInv, CountHolds
<1> QED BY <1>2, <1>3

\* A call that waits, or is over without a location, has nothing to keep.
LEMMA NothingToKeep ==
  ASSUME NEW s \in Requests,
         request'[s].pc \in {"idle", "lookup", "missed", "waiting", "again", "geocode"}
  PROVE  Located(s)' /\ CountHolds(s)'
  BY DEF Located, CountHolds

\* Nothing is promoted: the cap holds still.
LEMMA CapKept ==
  ASSUME IInv, tracked' = tracked PROVE CapInv'
  BY DEF IInv, CapInv, WithinCap

\* How a call ends, alone or with those who await it.
LEMMA EndKeeps ==
  ASSUME IInv, NEW r \in Requests, NEW pc \in {"idle", "ok"}, End(r, pc),
         pc = "ok" => /\ request[r].answer # <<>>
                      /\ (Primary(r) \in tracked \/ Full)'
  PROVE  /\ request' \in [Requests -> Request]
         /\ inflight' \in [Procs -> [Queries -> Requests \cup {Nobody}]]
         /\ request'[r].pc = pc
         /\ \A s \in Requests :
              \/ request'[s] = request[s] /\ s # r
              \/ Located(s)' /\ CountHolds(s)'
<1>1. Query(r) \in Queries /\ request[r].answer \in Answers \cup {<<>>}
  BY DEF IInv, TypeOK, Request, Query
<1> DEFINE answer == IF pc = "ok" THEN request[r].answer ELSE <<>>
           over == Ended(pc, Query(r), answer)
<1>2. answer \in Answers \cup {<<>>}
  BY <1>1
<1>3. over \in Request /\ over.pc = pc /\ over.answer = answer
  BY <1>1, <1>2, EndedTypes
<1>4. request' = [s \in Requests |->
          IF s = r \/ request[s].waits = r THEN over ELSE request[s]]
  BY DEF End
<1> HIDE DEF over
<1>5. request' \in [Requests -> Request]
  BY <1>3, <1>4 DEF IInv, TypeOK
<1>6. inflight' \in [Procs -> [Queries -> Requests \cup {Nobody}]]
  BY <1>1, HostAssumption DEF End, InflightAfter, IInv, TypeOK
<1>7. ASSUME NEW s \in Requests, request'[s] = over PROVE Located(s)' /\ CountHolds(s)'
  <2>1. CASE pc = "idle"
    BY <1>3, <1>7, <2>1, NothingToKeep
  <2>2. CASE pc = "ok"
    <3>1. request'[s].answer = request[r].answer
      BY <1>3, <1>7, <2>2
    <3>2. request'[r] = over
      BY <1>4
    <3>3. Primary(s)' = Primary(r)'
      BY <1>7, <3>2 DEF Primary
    <3> QED BY <1>3, <1>7, <2>2, <3>1, <3>3 DEF Located, CountHolds
  <2> QED BY <2>1, <2>2
<1> QED BY <1>3, <1>4, <1>5, <1>6, <1>7

-----------------------------------------------------------------------------
\* The steps.

\* A step of one call that promotes nothing.
LEMMA MovePreserves ==
  ASSUME IInv, NEW r \in Requests, NEW new \in Request,
         request' = [request EXCEPT ![r] = new],
         inflight' \in [Procs -> [Queries -> Requests \cup {Nobody}]],
         created \subseteq created', created' \subseteq Places,
         UNCHANGED <<tracked, row>>,
         lock' \in Requests \cup {Nobody},
         \A s \in Requests \ {r} : lock = s => lock' = s,
         Located(r)' /\ CountHolds(r)'
  PROVE  IInv'
<1>1. TypeOK'
  BY DEF IInv, TypeOK
<1>2. \A s \in Requests \ {r} : request'[s] = request[s]
  BY DEF IInv, TypeOK
<1>3. \A s \in Requests : Located(s)' /\ CountHolds(s)'
  BY <1>2, OthersKept
<1> QED BY <1>1, <1>3, CapKept DEF IInv

\* The end of a call that promotes nothing.
LEMMA EndPreserves ==
  ASSUME IInv, NEW r \in Requests, NEW pc \in {"idle", "ok"}, End(r, pc),
         pc = "ok" => /\ request[r].answer # <<>>
                      /\ (Primary(r) \in tracked \/ Full)',
         created \subseteq created', created' \subseteq Places,
         tracked' = tracked, row' \in [Queries -> Row],
         lock' \in Requests \cup {Nobody},
         \A s \in Requests \ {r} : lock = s => lock' = s
  PROVE  IInv'
<1>1. TypeOK'
  BY EndKeeps DEF IInv, TypeOK
<1>2. \A s \in Requests : Located(s)' /\ CountHolds(s)'
  BY EndKeeps, OthersKept
<1> QED BY <1>1, <1>2, CapKept DEF IInv

\* A new call.
LEMMA StartPreserves ==
  ASSUME IInv, NEW r \in Requests, NEW q \in Queries, Start(r, q)
  PROVE  IInv'
<1> DEFINE new == Ended("lookup", q, <<>>)
<1>1. new \in Request /\ new.pc = "lookup"
  BY EndedTypes
<1>2. request' = [request EXCEPT ![r] = new]
  BY DEF Start
<1>3. UNCHANGED <<created, tracked, lock, row, inflight>>
  BY DEF Start, DatabaseUnchanged
<1>4. request'[r] = new
  BY <1>2 DEF IInv, TypeOK
<1> HIDE DEF new
<1>5. Located(r)' /\ CountHolds(r)'
  BY <1>1, <1>4, NothingToKeep
<1> QED BY <1>1, <1>2, <1>3, <1>5, MovePreserves DEF IInv, TypeOK

\* A call goes on with nothing but where it is.
LEMMA GoesPreserves ==
  ASSUME IInv, NEW r \in Requests,
         NEW pc \in {"missed", "geocode"}, Goes(r, pc),
         UNCHANGED inflight, DatabaseUnchanged
  PROVE  IInv'
<1> DEFINE new == [request[r] EXCEPT !.pc = pc]
<1>1. new \in Request /\ new.pc = pc
  BY DEF IInv, TypeOK, Request, Steps
<1>2. request' = [request EXCEPT ![r] = new]
  BY DEF Goes
<1>3. UNCHANGED <<created, tracked, lock, row, inflight>>
  BY DEF DatabaseUnchanged
<1>4. request'[r] = new
  BY <1>2 DEF IInv, TypeOK
<1> HIDE DEF new
<1>5. Located(r)' /\ CountHolds(r)'
  BY <1>1, <1>4, NothingToKeep
<1> QED BY <1>1, <1>2, <1>3, <1>5, MovePreserves DEF IInv, TypeOK

\* Candidates arrive, from wherever they come.
LEMMA MapPreserves ==
  ASSUME IInv, NEW r \in Requests, NEW answer \in Answers \cup {<<>>},
         NEW from \in {"cache", "reread", "provider"}, Map(r, answer, from),
         DatabaseUnchanged
  PROVE  IInv'
<1>0. UNCHANGED <<created, tracked, lock, row>>
  BY DEF DatabaseUnchanged
<1>1. CASE End(r, "idle")
  BY <1>0, <1>1, EndPreserves DEF IInv, TypeOK
<1>2. CASE /\ answer # <<>>
           /\ request' = [request EXCEPT ![r].pc = "create", ![r].answer = answer,
                                         ![r].from = from]
           /\ UNCHANGED inflight
  <2> DEFINE new == [request[r] EXCEPT !.pc = "create", !.answer = answer, !.from = from]
  <2>1. new \in Request /\ new.pc = "create" /\ new.answer = answer
    BY DEF IInv, TypeOK, Request, Steps
  <2>2. request' = [request EXCEPT ![r] = new]
    BY <1>2 DEF IInv, TypeOK
  <2>3. request'[r] = new
    BY <2>2 DEF IInv, TypeOK
  <2> HIDE DEF new
  <2>4. Located(r)' /\ CountHolds(r)'
    BY <1>2, <2>1, <2>3 DEF Located, CountHolds
  <2> QED BY <1>0, <1>2, <2>1, <2>2, <2>4, MovePreserves DEF IInv, TypeOK
<1> QED BY <1>1, <1>2 DEF Map

\* The reads of the cache, and the provider's answer.
LEMMA LookupPreserves ==
  ASSUME IInv, NEW r \in Requests,
         LookupHit(r) \/ LookupMiss(r) \/ Again(r) \/ Geocode(r)
  PROVE  IInv'
<1>1. row[Query(r)].answer \in Answers \cup {<<>>}
  BY DEF IInv, TypeOK, Request, Query, Row
<1>2. CASE LookupHit(r)
  BY <1>1, <1>2, MapPreserves DEF LookupHit
<1>3. CASE LookupMiss(r)
  BY <1>3, GoesPreserves DEF LookupMiss
<1>4. CASE Again(r)
  BY <1>1, <1>4, MapPreserves, GoesPreserves DEF Again
<1>5. CASE Geocode(r)
  BY <1>5, MapPreserves DEF Geocode
<1> QED BY <1>2, <1>3, <1>4, <1>5

\* A miss joins a resolve or starts one.
LEMMA JoinPreserves ==
  ASSUME IInv, NEW r \in Requests, Join(r)
  PROVE  IInv'
<1>0. UNCHANGED <<created, tracked, lock, row>>
  BY DEF Join, DatabaseUnchanged
<1> DEFINE other == inflight[Host[r]][Query(r)]
<1>1. other \in Requests \cup {Nobody} /\ Host[r] \in Procs /\ Query(r) \in Queries
  BY HostAssumption DEF IInv, TypeOK, Request, Query
<1>2. PICK new \in Request :
        /\ request' = [request EXCEPT ![r] = new]
        /\ new.pc \in {"waiting", "again"}
  <2>1. CASE request' = [request EXCEPT ![r].pc = "waiting", ![r].waits = other]
    <3> DEFINE new == [request[r] EXCEPT !.pc = "waiting", !.waits = other]
    <3>1. new \in Request /\ new.pc = "waiting"
      BY <1>1 DEF IInv, TypeOK, Request, Steps
    <3>2. request' = [request EXCEPT ![r] = new]
      BY <2>1 DEF IInv, TypeOK
    <3> QED BY <3>1, <3>2
  <2>2. CASE request' = [request EXCEPT ![r].pc = "again", ![r].from = "reread"]
    <3> DEFINE new == [request[r] EXCEPT !.pc = "again", !.from = "reread"]
    <3>1. new \in Request /\ new.pc = "again"
      BY DEF IInv, TypeOK, Request, Steps
    <3>2. request' = [request EXCEPT ![r] = new]
      BY <2>2 DEF IInv, TypeOK
    <3> QED BY <3>1, <3>2
  <2> QED BY <2>1, <2>2 DEF Join
<1>3. inflight' \in [Procs -> [Queries -> Requests \cup {Nobody}]]
  BY <1>1 DEF Join, IInv, TypeOK
<1>4. request'[r] = new
  BY <1>2 DEF IInv, TypeOK
<1>5. Located(r)' /\ CountHolds(r)'
  BY <1>2, <1>4, NothingToKeep
<1> QED BY <1>0, <1>2, <1>3, <1>5, MovePreserves DEF IInv, TypeOK

\* The candidates become locations.
LEMMA CreatePreserves ==
  ASSUME IInv, NEW r \in Requests, Create(r)
  PROVE  IInv'
<1> DEFINE new == [request[r] EXCEPT !.pc = "lock"]
<1>1. /\ new \in Request /\ new.pc = "lock"
      /\ new.answer = request[r].answer /\ new.answer # <<>>
  BY DEF Create, At, IInv, TypeOK, Request, Steps, Located
<1>2. request' = [request EXCEPT ![r] = new]
  BY DEF Create, Goes
<1>3. UNCHANGED <<tracked, lock, row, inflight>>
  BY DEF Create
<1>4. request'[r] = new
  BY <1>2 DEF IInv, TypeOK
<1>5. request[r].answer \in Answers \cup {<<>>}
  BY DEF IInv, TypeOK, Request
<1> HIDE DEF new
<1>6. created \subseteq created' /\ created' \subseteq Places
  BY <1>5, CandidatesArePlaces DEF Create, IInv, TypeOK
<1>7. Primary(r)' \in created'
  BY <1>1, <1>4, <1>5, PrimaryIsPlace DEF Create, Primary
<1>8. Located(r)' /\ CountHolds(r)'
  BY <1>1, <1>4, <1>7 DEF Located, CountHolds
<1> QED BY <1>1, <1>2, <1>3, <1>6, <1>8, MovePreserves DEF IInv, TypeOK

\* The transaction has the lock: no other call is between its count and commit.
LEMMA TakeLockPreserves ==
  ASSUME IInv, NEW r \in Requests, TakeLock(r)
  PROVE  IInv'
<1> DEFINE new == [request[r] EXCEPT !.pc = "count"]
<1>1. /\ new \in Request /\ new.pc = "count"
      /\ new.answer = request[r].answer /\ new.answer # <<>>
  BY DEF TakeLock, At, IInv, TypeOK, Request, Steps, Located
<1>2. request' = [request EXCEPT ![r] = new]
  BY DEF TakeLock, Goes
<1>3. UNCHANGED <<created, tracked, row, inflight>> /\ lock = Nobody /\ lock' = r
  BY DEF TakeLock
<1>4. request'[r] = new
  BY <1>2 DEF IInv, TypeOK
<1> HIDE DEF new
<1>5. Primary(r)' \in created'
  BY <1>1, <1>3, <1>4 DEF TakeLock, At, Primary, IInv, Located
<1>6. Located(r)' /\ CountHolds(r)'
  BY <1>1, <1>3, <1>4, <1>5 DEF Located, CountHolds
<1> QED
  BY <1>1, <1>2, <1>3, <1>6, MovePreserves, NobodyAssumption DEF IInv, TypeOK

\* What the transaction reads is true of the tracked locations now.
LEMMA CountPreserves ==
  ASSUME IInv, NEW r \in Requests, Count(r)
  PROVE  IInv'
<1> DEFINE promote == Primary(r) \notin tracked /\ Room
           new == [request[r] EXCEPT !.pc = "commit", !.promote = promote]
<1>1. /\ new \in Request /\ new.pc = "commit"
      /\ new.answer = request[r].answer /\ new.answer # <<>>
      /\ new.promote = promote
  BY DEF Count, At, IInv, TypeOK, Request, Steps, Located
<1>2. request' = [request EXCEPT ![r] = new]
  BY DEF Count, IInv, TypeOK
<1>3. UNCHANGED <<created, tracked, lock, row, inflight>> /\ lock = r
  BY DEF Count, DatabaseUnchanged, At, IInv, CountHolds
<1>4. request'[r] = new
  BY <1>2 DEF IInv, TypeOK
<1>5. Cardinality(tracked) \in Nat /\ Cardinality(tracked) <= MaxTracked
  BY FS_CardinalityType DEF IInv, CapInv, WithinCap
<1>6. \/ promote = TRUE /\ Cardinality(tracked) < MaxTracked
      \/ promote = FALSE /\ (Primary(r) \in tracked \/ Full)
  <2>1. CASE promote
    BY <2>1 DEF Room
  <2>2. CASE ~promote
    <3>1. Primary(r) \in tracked \/ ~Room
      BY <2>2
    <3>2. ~Room => Full
      BY <1>5, LimitsAssumption DEF Room, Full
    <3> QED BY <2>2, <3>1, <3>2
  <2> QED BY <2>1, <2>2
<1> HIDE DEF promote, new
<1>7. Primary(r)' = Primary(r) /\ Full' = Full /\ Primary(r) \in created
  BY <1>1, <1>3, <1>4 DEF Primary, Full, Count, At, IInv, Located
<1>8. Located(r)'
  BY <1>1, <1>3, <1>4, <1>7 DEF Located
<1>9. CountHolds(r)'
  BY <1>1, <1>3, <1>4, <1>6, <1>7 DEF CountHolds
<1> QED BY <1>1, <1>2, <1>3, <1>8, <1>9, MovePreserves DEF IInv, TypeOK

\* The commit promotes within the cap, and leaves its location tracked or no place
\* to track it.
LEMMA PromotionSound ==
  ASSUME IInv, NEW r \in Requests, Commit(r)
  PROVE  /\ CapInv'
         /\ tracked \subseteq tracked' /\ tracked' \subseteq created
         /\ Primary(r) \in tracked' \/ Full'
         /\ Full => tracked' = tracked
<1>1. /\ IsFiniteSet(tracked) /\ Cardinality(tracked) \in Nat
      /\ Cardinality(tracked) <= MaxTracked /\ MaxTracked \in Nat
  BY FS_CardinalityType, LimitsAssumption DEF IInv, CapInv, WithinCap
<1>2. Primary(r) \in created /\ tracked \subseteq created
  BY DEF Commit, At, IInv, Located, TypeOK
<1>3. CASE request[r].promote = TRUE /\ Cardinality(tracked) < MaxTracked
  <2>1. tracked' = tracked \cup {Primary(r)}
    BY <1>3 DEF Commit
  <2>2. IsFiniteSet(tracked') /\ Cardinality(tracked') <= Cardinality(tracked) + 1
    BY <1>1, <2>1, FS_AddElement
  <2>3. Cardinality(tracked') <= MaxTracked
    BY <1>1, <1>3, <2>2, FS_CardinalityType
  <2> QED BY <1>1, <1>2, <1>3, <2>1, <2>2, <2>3 DEF CapInv, WithinCap, Full
<1>4. CASE request[r].promote = FALSE /\ (Primary(r) \in tracked \/ Full)
  <2>1. tracked' = tracked
    BY <1>4 DEF Commit
  <2> QED BY <1>1, <1>2, <1>4, <2>1 DEF CapInv, WithinCap, Full
<1> QED BY <1>3, <1>4 DEF Commit, At, IInv, CountHolds

\* The others are outside the transaction, and what they know of the tracked
\* locations stays true when one is added.
LEMMA CommitKeepsOthers ==
  ASSUME IInv, NEW r \in Requests, Commit(r),
         NEW s \in Requests, s # r, request'[s] = request[s]
  PROVE  Located(s)' /\ CountHolds(s)'
<1>1. lock = r /\ created' = created
  BY DEF Commit, At, IInv, CountHolds
<1>2. request[s].pc \notin {"count", "commit"}
  BY <1>1 DEF IInv, CountHolds
<1>3. Primary(s)' = Primary(s)
  BY DEF Primary
<1>4. Primary(s) \in tracked \/ Full => Primary(s) \in tracked' \/ Full'
  BY PromotionSound DEF Full
<1>5. Located(s)'
  BY <1>1, <1>3, <1>4 DEF IInv, Located
<1> QED BY <1>2, <1>5 DEF CountHolds

\* A call that is answered keeps its location.
LEMMA EndKeepsPrimary ==
  ASSUME IInv, NEW r \in Requests, End(r, "ok")
  PROVE  Primary(r)' = Primary(r)
  BY DEF End, Ended, Primary

LEMMA ReleasedTypes ==
  ASSUME IInv, NEW r \in Requests
  PROVE  /\ Released(r) \in Requests \cup {Nobody}
         /\ \A s \in Requests \ {r} : lock = s => Released(r) = s
  BY DEF Released, IInv, TypeOK

LEMMA CommitPreserves ==
  ASSUME IInv, NEW r \in Requests, Commit(r)
  PROVE  IInv'
<1>1. /\ UNCHANGED <<created, row>> /\ lock' \in Requests \cup {Nobody}
      /\ request[r].answer # <<>> /\ Primary(r) \in created
  BY ReleasedTypes DEF Commit, At, IInv, Located
<1>2. /\ CapInv'
      /\ tracked' \subseteq created
      /\ Primary(r) \in tracked' \/ Full'
  BY PromotionSound
<1>3. CASE Goes(r, "save") /\ UNCHANGED inflight
  <2> DEFINE new == [request[r] EXCEPT !.pc = "save"]
  <2>1. new \in Request /\ new.pc = "save" /\ new.answer = request[r].answer
    BY DEF IInv, TypeOK, Request, Steps
  <2>2. request' = [request EXCEPT ![r] = new]
    BY <1>3 DEF Goes
  <2>3. request' \in [Requests -> Request] /\ request'[r] = new
    BY <2>1, <2>2 DEF IInv, TypeOK
  <2>4. \A s \in Requests : s # r => request'[s] = request[s]
    BY <2>2 DEF IInv, TypeOK
  <2> HIDE DEF new
  <2>5. TypeOK'
    BY <1>1, <1>2, <1>3, <2>3 DEF IInv, TypeOK
  <2>6. Primary(r)' = Primary(r)
    BY <2>1, <2>3 DEF Primary
  <2>7. Located(r)' /\ CountHolds(r)'
    BY <1>1, <1>2, <2>1, <2>3, <2>6 DEF Located, CountHolds
  <2> QED BY <1>2, <2>4, <2>5, <2>7, CommitKeepsOthers DEF IInv
<1>4. ASSUME NEW pc \in {"idle", "ok"}, End(r, pc) PROVE IInv'
  <2>1. pc = "ok" => /\ request[r].answer # <<>>
                     /\ (Primary(r) \in tracked \/ Full)'
    BY <1>1, <1>2, <1>4, EndKeepsPrimary
  <2>2. /\ request' \in [Requests -> Request]
        /\ inflight' \in [Procs -> [Queries -> Requests \cup {Nobody}]]
    BY <1>4, <2>1, EndKeeps
  <2>3. \A s \in Requests :
          \/ request'[s] = request[s] /\ s # r
          \/ Located(s)' /\ CountHolds(s)'
    BY <1>4, <2>1, EndKeeps
  <2>4. TypeOK'
    <3>1. created' \subseteq Places /\ tracked' \subseteq created'
      BY <1>1, <1>2 DEF IInv, TypeOK
    <3>2. row' \in [Queries -> Row] /\ lock' \in Requests \cup {Nobody}
      BY <1>1 DEF IInv, TypeOK
    <3> QED BY <2>2, <3>1, <3>2 DEF TypeOK
  <2>5. ASSUME NEW s \in Requests PROVE Located(s)' /\ CountHolds(s)'
    BY <2>3, <2>5, CommitKeepsOthers
  <2> QED BY <1>2, <2>4, <2>5 DEF IInv
<1> QED BY <1>3, <1>4 DEF Commit

\* The answer of the provider is saved.
LEMMA SavePreserves ==
  ASSUME IInv, NEW r \in Requests, Save(r)
  PROVE  IInv'
<1>1. /\ UNCHANGED <<created, tracked, lock>> /\ request[r].answer # <<>>
      /\ Primary(r) \in tracked \/ Full
  BY DEF Save, At, IInv, Located
<1>2. row' \in [Queries -> Row]
  <2>1. [there |-> TRUE, answer |-> request[r].answer, age |-> 0, by |-> Host[r]] \in Row
    BY HostAssumption, LimitsAssumption DEF Row, MaxAge, IInv, TypeOK, Request
  <2> QED BY <2>1 DEF Save, IInv, TypeOK
<1>3. ASSUME NEW pc \in {"idle", "ok"}, End(r, pc) PROVE IInv'
  <2>1. pc = "ok" => (Primary(r) \in tracked \/ Full)'
    BY <1>1, <1>3, EndKeepsPrimary DEF Full
  <2> QED BY <1>1, <1>2, <1>3, <2>1, EndPreserves DEF IInv, TypeOK
<1> QED BY <1>3 DEF Save

\* A step rejects.
LEMMA RejectsPreserves ==
  ASSUME IInv, NEW r \in Requests, Rejects(r)
  PROVE  IInv'
<1>1. created \subseteq created' /\ created' \subseteq Places
  <2>1. {request[r].answer[i] : i \in DOMAIN request[r].answer} \subseteq Places
    BY CandidatesArePlaces DEF IInv, TypeOK, Request
  <2> QED BY <2>1 DEF Rejects, IInv, TypeOK
<1>2. tracked' = tracked /\ row' = row /\ lock' = Released(r) /\ End(r, "idle")
  BY DEF Rejects
<1> QED BY <1>1, <1>2, ReleasedTypes, EndPreserves DEF IInv, TypeOK

\* Steps that no call takes.
LEMMA QuietPreserves ==
  ASSUME IInv, UNCHANGED <<tracked, lock, inflight, request>>,
         created \subseteq created', created' \subseteq Places,
         row' \in [Queries -> Row]
  PROVE  IInv'
<1>1. TypeOK'
  BY DEF IInv, TypeOK
<1>2. \A s \in Requests : Located(s)' /\ CountHolds(s)'
  BY OthersKept
<1> QED BY <1>1, <1>2, CapKept DEF IInv

LEMMA EnvironmentPreserves ==
  ASSUME IInv, (\E place \in Places : Coordinates(place)) \/ Sweep \/ Tick
  PROVE  IInv'
<1>1. CASE \E place \in Places : Coordinates(place)
  BY <1>1, QuietPreserves DEF Coordinates, IInv, TypeOK
<1>2. CASE Sweep
  <2>1. NoRow \in Row
    BY LimitsAssumption DEF NoRow, Row, MaxAge
  <2>2. row' \in [Queries -> Row]
    BY <1>2, <2>1 DEF Sweep, IInv, TypeOK
  <2> QED BY <1>2, <2>2, QuietPreserves DEF Sweep, IInv, TypeOK
<1>3. CASE Tick
  <2>1. ASSUME NEW q \in Queries, row[q].age < MaxAge
        PROVE  [row[q] EXCEPT !.age = @ + 1] \in Row
    <3>1. row[q] \in Row
      BY DEF IInv, TypeOK
    <3>2. row[q].age + 1 \in 0..MaxAge
      BY <2>1, <3>1, LimitsAssumption DEF Row, MaxAge
    <3> QED BY <3>1, <3>2 DEF Row
  <2>2. row' \in [Queries -> Row]
    BY <1>3, <2>1 DEF Tick, IInv, TypeOK
  <2> QED BY <1>3, <2>2, QuietPreserves DEF Tick, IInv, TypeOK
<1> QED BY <1>1, <1>2, <1>3

\* A crash ends the calls of its process, and only their transactions.
LEMMA CrashPreserves ==
  ASSUME IInv, NEW p \in Procs, Crash(p)
  PROVE  IInv'
<1> DEFINE gone(s) == Ended("idle", Query(s), <<>>)
<1>1. \A s \in Requests : gone(s) \in Request /\ gone(s).pc = "idle"
  BY EndedTypes DEF IInv, TypeOK, Request, Query
<1>2. \A s \in Requests : request'[s] = IF Host[s] = p THEN gone(s) ELSE request[s]
  BY DEF Crash
<1>3. request' \in [Requests -> Request]
  BY <1>1 DEF Crash, IInv, TypeOK
<1> HIDE DEF gone
<1>4. TypeOK'
  BY <1>3 DEF Crash, IInv, TypeOK
<1>5. ASSUME NEW s \in Requests PROVE Located(s)' /\ CountHolds(s)'
  <2>1. CASE Host[s] = p
    BY <1>1, <1>2, <2>1, NothingToKeep
  <2>2. CASE Host[s] # p
    <3>1. lock = s => lock' = s
      BY <2>2 DEF Crash
    <3> QED BY <1>2, <2>2, <3>1, OthersKept DEF Crash
  <2> QED BY <2>1, <2>2
<1> QED BY <1>4, <1>5, CapKept DEF Crash, IInv

\* Every step preserves the invariant.
LEMMA StepInvariant == IInv /\ [Next]_vars => IInv'
<1> SUFFICES ASSUME IInv, [Next]_vars PROVE IInv'
  OBVIOUS
<1>1. ASSUME NEW r \in Requests, Continue(r) \/ TakeLock(r) \/ Rejects(r) PROVE IInv'
  BY <1>1, LookupPreserves, JoinPreserves, CreatePreserves, TakeLockPreserves,
     CountPreserves, CommitPreserves, SavePreserves, RejectsPreserves
  DEF Continue
<1>2. ASSUME NEW r \in Requests, NEW q \in Queries, Start(r, q) PROVE IInv'
  BY <1>2, StartPreserves
<1>3. CASE (\E place \in Places : Coordinates(place)) \/ Sweep \/ Tick
  BY <1>3, EnvironmentPreserves
<1>4. ASSUME NEW p \in Procs, Crash(p) PROVE IInv'
  BY <1>4, CrashPreserves
<1>5. CASE UNCHANGED vars
  BY <1>5, QuietPreserves DEF vars, IInv, TypeOK
<1> QED BY <1>1, <1>2, <1>3, <1>4, <1>5 DEF Next

-----------------------------------------------------------------------------
\* The sharing of resolves.  A call that has started a resolve is the entry of its
\* query in its process until it ends, and only such calls are entries.

Resolving(r) == request[r].from # "cache"

Shares(r) ==
  /\ request[r].pc = "waiting" =>
       /\ request[r].waits # Nobody
       /\ inflight[Host[r]][Query(r)] = request[r].waits
  /\ request[r].waits # Nobody => request[r].pc = "waiting"
  /\ request[r].pc \in {"again", "geocode", "save"} => Resolving(r)
  /\ Resolving(r) =>
       /\ request[r].pc \in Steps \ {"lookup", "missed", "waiting"}
       /\ inflight[Host[r]][Query(r)] = r

IsEntry(p, q, r) == Host[r] = p /\ Query(r) = q /\ Resolving(r)

EntriesResolve ==
  \A p \in Procs, q \in Queries :
    inflight[p][q] # Nobody => IsEntry(p, q, inflight[p][q])

FlightInv == EntriesResolve /\ \A r \in Requests : Shares(r)

\* The initial state: nobody resolves.
LEMMA InitFlights == Init => FlightInv
<1> SUFFICES ASSUME Init PROVE FlightInv
  OBVIOUS
<1>1. ASSUME NEW r \in Requests PROVE Shares(r)
  <2>1. PICK q \in Queries : request[r] = Ended("idle", q, <<>>)
    BY DEF Init
  <2> QED BY <2>1, EndedTypes DEF Shares, Resolving
<1> QED BY <1>1 DEF Init, FlightInv, EntriesResolve

\* A call that waits for nobody goes on, and is an entry as before.
LEMMA MoveShares ==
  ASSUME TypeOK, FlightInv, NEW r \in Requests, NEW new \in Request,
         request' = [request EXCEPT ![r] = new], inflight' = inflight,
         new.pc # "waiting", new.waits = Nobody,
         new.from # "cache" <=> Resolving(r),
         Resolving(r) => /\ new.query = Query(r)
                         /\ new.pc \in Steps \ {"lookup", "missed", "waiting"},
         new.pc \in {"again", "geocode", "save"} => Resolving(r)
  PROVE  FlightInv'
<1>1. /\ request'[r] = new
      /\ \A s \in Requests : s # r => request'[s] = request[s]
  BY DEF TypeOK
<1>2. ASSUME NEW s \in Requests, s # r PROVE Shares(s)'
  BY <1>1, <1>2 DEF FlightInv, Shares, Resolving, Query
<1>3. Shares(r)'
  BY <1>1 DEF FlightInv, Shares, Resolving, Query
<1>4. EntriesResolve'
  <2> SUFFICES ASSUME NEW p \in Procs, NEW q \in Queries, inflight[p][q] # Nobody
               PROVE  IsEntry(p, q, inflight[p][q])'
    BY DEF EntriesResolve
  <2>1. inflight[p][q] \in Requests /\ IsEntry(p, q, inflight[p][q])
    BY DEF FlightInv, EntriesResolve, TypeOK
  <2> QED BY <1>1, <2>1 DEF IsEntry, Resolving, Query
<1> QED BY <1>2, <1>3, <1>4 DEF FlightInv

\* A call ends: its entry goes, and with it everybody who waits for it.
LEMMA EndShares ==
  ASSUME TypeOK, FlightInv, NEW r \in Requests, NEW pc \in {"idle", "ok"}, End(r, pc)
  PROVE  FlightInv'
<1> DEFINE over == Ended(pc, Query(r), IF pc = "ok" THEN request[r].answer ELSE <<>>)
<1>1. over.pc = pc /\ over.from = "cache" /\ over.waits = Nobody
  BY DEF Ended
<1>2. request' = [s \in Requests |->
          IF s = r \/ request[s].waits = r THEN over ELSE request[s]]
  BY DEF End
<1> HIDE DEF over
<1>3. Host[r] \in Procs /\ Query(r) \in Queries
  BY HostAssumption DEF TypeOK, Request, Query
<1>4. \A p \in Procs, q \in Queries :
        inflight'[p][q] =
          IF Resolving(r) /\ p = Host[r] /\ q = Query(r) THEN Nobody ELSE inflight[p][q]
  BY <1>3 DEF End, InflightAfter, Resolving, TypeOK
<1>5. Resolving(r) => inflight[Host[r]][Query(r)] = r
  BY DEF FlightInv, Shares
<1>6. ASSUME NEW s \in Requests PROVE Shares(s)'
  <2>1. CASE s = r \/ request[s].waits = r
    BY <1>1, <1>2, <2>1 DEF Shares, Resolving, Query
  <2>2. CASE s # r /\ request[s].waits # r
    <3>1. request'[s] = request[s] /\ Query(s)' = Query(s)
      BY <1>2, <2>2 DEF Query
    <3>2. Host[s] \in Procs /\ Query(s) \in Queries
      BY HostAssumption DEF TypeOK, Request, Query
    <3>3. inflight[Host[s]][Query(s)] # r =>
            inflight'[Host[s]][Query(s)] = inflight[Host[s]][Query(s)]
      BY <1>4, <1>5, <3>2
    <3>4. Shares(s)
      BY DEF FlightInv
    <3> QED BY <2>2, <3>1, <3>3, <3>4 DEF Shares, Resolving
  <2> QED BY <2>1, <2>2
<1>7. EntriesResolve'
  <2> SUFFICES ASSUME NEW p \in Procs, NEW q \in Queries, inflight'[p][q] # Nobody
               PROVE  IsEntry(p, q, inflight[p][q])'
    BY DEF EntriesResolve
  <2> DEFINE s == inflight[p][q]
  <2>1. inflight'[p][q] = s /\ s \in Requests /\ s # Nobody
    BY <1>4 DEF TypeOK
  <2>2. IsEntry(p, q, s) /\ Shares(s)
    BY <2>1 DEF FlightInv, EntriesResolve
  <2>3. s # r
    BY <1>4, <2>1, <2>2 DEF IsEntry
  <2>4. request[s].waits = Nobody
    BY <2>1, <2>2 DEF Shares, IsEntry, TypeOK, Request
  <2>5. request'[s] = request[s]
    BY <1>2, <2>1, <2>3, <2>4, NobodyAssumption
  <2> QED BY <2>1, <2>2, <2>5 DEF IsEntry, Resolving, Query
<1> QED BY <1>6, <1>7 DEF FlightInv

\* The steps that only say where a call is.
LEMMA GoesShares ==
  ASSUME TypeOK, FlightInv, NEW r \in Requests, NEW pc \in Steps,
         Goes(r, pc), UNCHANGED inflight,
         \/ request[r].pc = "lookup" /\ pc = "missed"
         \/ /\ request[r].pc \in {"again", "create", "lock", "count", "commit"}
            /\ pc \in {"geocode", "lock", "count"} \/ (pc = "save" /\ Resolving(r))
            /\ pc = "geocode" => request[r].pc = "again"
  PROVE  FlightInv'
<1> DEFINE new == [request[r] EXCEPT !.pc = pc]
<1>1. /\ new \in Request /\ new.pc = pc /\ new.query = Query(r)
      /\ new.waits = request[r].waits /\ new.from = request[r].from
  BY DEF TypeOK, Request, Query
<1>2. request' = [request EXCEPT ![r] = new]
  BY DEF Goes
<1> HIDE DEF new
<1>3. Shares(r) /\ request[r].waits \in Requests \cup {Nobody}
  BY DEF FlightInv, TypeOK, Request
<1>4. new.waits = Nobody /\ new.pc # "waiting"
  BY <1>1, <1>3 DEF Shares
<1>5. Resolving(r) => new.pc \in Steps \ {"lookup", "missed", "waiting"}
  BY <1>1, <1>3 DEF Shares
<1>6. new.pc \in {"again", "geocode", "save"} => Resolving(r)
  BY <1>1, <1>3 DEF Shares
<1> QED BY <1>1, <1>2, <1>4, <1>5, <1>6, MoveShares DEF Resolving

\* Candidates arrive.
LEMMA MapShares ==
  ASSUME TypeOK, FlightInv, NEW r \in Requests, NEW answer \in Answers \cup {<<>>},
         NEW from \in {"cache", "reread", "provider"}, Map(r, answer, from),
         \/ request[r].pc = "lookup" /\ from = "cache"
         \/ request[r].pc \in {"again", "geocode"} /\ from # "cache"
  PROVE  FlightInv'
<1>1. CASE End(r, "idle")
  BY <1>1, EndShares
<1>2. CASE /\ request' = [request EXCEPT ![r].pc = "create", ![r].answer = answer,
                                         ![r].from = from]
           /\ UNCHANGED inflight
  <2> DEFINE new == [request[r] EXCEPT !.pc = "create", !.answer = answer, !.from = from]
  <2>1. /\ new \in Request /\ new.pc = "create" /\ new.query = Query(r)
        /\ new.waits = request[r].waits /\ new.from = from
    BY DEF TypeOK, Request, Steps, Query
  <2>2. request' = [request EXCEPT ![r] = new]
    BY <1>2 DEF TypeOK
  <2> HIDE DEF new
  <2>3. Shares(r) /\ request[r].waits \in Requests \cup {Nobody}
    BY DEF FlightInv, TypeOK, Request
  <2>4. new.waits = Nobody
    BY <2>1, <2>3 DEF Shares
  <2>5. new.from # "cache" <=> Resolving(r)
    BY <2>1, <2>3 DEF Shares
  <2>6. new.pc \in Steps \ {"lookup", "missed", "waiting"}
    BY <2>1 DEF Steps
  <2> QED BY <1>2, <2>1, <2>2, <2>4, <2>5, <2>6, MoveShares
<1> QED BY <1>1, <1>2 DEF Map

\* A miss joins the resolve of its query, or becomes it.
LEMMA JoinShares ==
  ASSUME TypeOK, FlightInv, NEW r \in Requests, Join(r)
  PROVE  FlightInv'
<1> DEFINE other == inflight[Host[r]][Query(r)]
<1>1. /\ other \in Requests \cup {Nobody} /\ Host[r] \in Procs /\ Query(r) \in Queries
      /\ request[r].pc = "missed" /\ Shares(r)
  BY HostAssumption DEF TypeOK, Request, Query, Join, At, FlightInv
<1>2. request[r].from = "cache" /\ request[r].waits = Nobody
  BY <1>1 DEF Shares, Resolving, TypeOK, Request
<1>3. \A s \in Requests : s # r => request'[s] = request[s]
  BY DEF Join, TypeOK
<1>4. ASSUME NEW p \in Procs, NEW q \in Queries, NEW o, o = inflight[p][q], o # Nobody
      PROVE  IsEntry(p, q, o)'
  <2>1. o \in Requests /\ IsEntry(p, q, o)
    BY <1>4 DEF TypeOK, FlightInv, EntriesResolve
  <2>2. o # r
    BY <1>2, <2>1 DEF IsEntry, Resolving
  <2> QED BY <1>3, <2>1, <2>2 DEF IsEntry, Resolving, Query
<1>5. CASE /\ other # Nobody
           /\ request' = [request EXCEPT ![r].pc = "waiting", ![r].waits = other]
           /\ UNCHANGED inflight
  <2>1. /\ request'[r].pc = "waiting" /\ request'[r].waits = other
        /\ request'[r].from = "cache" /\ Query(r)' = Query(r)
    BY <1>2, <1>5 DEF TypeOK, Request, Query
  <2>2. Shares(r)'
    BY <1>5, <2>1 DEF Shares, Resolving
  <2>3. ASSUME NEW s \in Requests, s # r PROVE Shares(s)'
    <3>1. request'[s] = request[s] /\ inflight' = inflight /\ Shares(s)
      BY <1>3, <1>5, <2>3 DEF FlightInv
    <3> QED BY <3>1 DEF Shares, Resolving, Query
  <2>4. EntriesResolve'
    <3> SUFFICES ASSUME NEW p \in Procs, NEW q \in Queries, inflight'[p][q] # Nobody
                 PROVE  IsEntry(p, q, inflight[p][q])'
      BY DEF EntriesResolve
    <3> DEFINE o == inflight[p][q]
    <3>1. inflight'[p][q] = o /\ IsEntry(p, q, o)
      BY <1>5 DEF FlightInv, EntriesResolve
    <3>2. o \in Requests /\ o # r
      BY <1>2, <1>5, <3>1 DEF TypeOK, IsEntry, Resolving
    <3> QED BY <1>3, <3>1, <3>2 DEF IsEntry, Resolving, Query
  <2> QED BY <2>2, <2>3, <2>4 DEF FlightInv
<1>6. CASE /\ other = Nobody
           /\ request' = [request EXCEPT ![r].pc = "again", ![r].from = "reread"]
           /\ inflight' = [inflight EXCEPT ![Host[r]][Query(r)] = r]
  <2>1. /\ request'[r].pc = "again" /\ request'[r].waits = Nobody
        /\ request'[r].from = "reread" /\ Query(r)' = Query(r)
    BY <1>2, <1>6 DEF TypeOK, Request, Query
  <2>2. \A p \in Procs, q \in Queries :
          inflight'[p][q] = IF p = Host[r] /\ q = Query(r) THEN r ELSE inflight[p][q]
    BY <1>1, <1>6 DEF TypeOK
  <2>3. Shares(r)'
    <3>1. "again" \in Steps \ {"lookup", "missed", "waiting"}
      BY DEF Steps
    <3>2. inflight'[Host[r]][Query(r)] = r
      BY <1>1, <2>2
    <3> QED BY <2>1, <3>1, <3>2 DEF Shares, Resolving
  <2>4. ASSUME NEW s \in Requests, s # r PROVE Shares(s)'
    <3>1. Host[s] \in Procs /\ Query(s) \in Queries /\ Shares(s)
      BY HostAssumption DEF TypeOK, Request, Query, FlightInv
    <3>2. ~(Host[s] = Host[r] /\ Query(s) = Query(r)) =>
            inflight'[Host[s]][Query(s)] = inflight[Host[s]][Query(s)]
      BY <2>2, <3>1
    <3>3. Host[s] = Host[r] /\ Query(s) = Query(r) =>
            request[s].pc # "waiting" /\ ~Resolving(s)
      BY <1>6, <3>1, NobodyAssumption DEF Shares
    <3>4. request'[s] = request[s] /\ Query(s)' = Query(s)
      BY <1>3, <2>4 DEF Query
    <3> QED BY <3>1, <3>2, <3>3, <3>4 DEF Shares, Resolving
  <2>5. EntriesResolve'
    <3> SUFFICES ASSUME NEW p \in Procs, NEW q \in Queries, inflight'[p][q] # Nobody
                 PROVE  IsEntry(p, q, inflight[p][q])'
      BY DEF EntriesResolve
    <3>1. CASE p = Host[r] /\ q = Query(r)
      BY <2>1, <2>2, <3>1 DEF IsEntry, Resolving
    <3>2. CASE ~(p = Host[r] /\ q = Query(r))
      <4>1. inflight'[p][q] = inflight[p][q]
        BY <2>2, <3>2
      <4> QED BY <1>4, <4>1 DEF IsEntry
    <3> QED BY <3>1, <3>2
  <2> QED BY <2>3, <2>4, <2>5 DEF FlightInv
<1> QED BY <1>5, <1>6 DEF Join

\* A new call.
LEMMA StartShares ==
  ASSUME TypeOK, FlightInv, NEW r \in Requests, NEW q \in Queries, Start(r, q)
  PROVE  FlightInv'
<1> DEFINE new == Ended("lookup", q, <<>>)
<1>1. new \in Request /\ new.pc = "lookup" /\ new.waits = Nobody /\ new.from = "cache"
  BY EndedTypes
<1>2. request' = [request EXCEPT ![r] = new] /\ inflight' = inflight
  BY DEF Start
<1>3. ~Resolving(r)
  BY DEF Start, FlightInv, Shares, Steps
<1> HIDE DEF new
<1> QED BY <1>1, <1>2, <1>3, MoveShares

\* The transaction, which is nobody else's business.
LEMMA CountShares ==
  ASSUME TypeOK, FlightInv, NEW r \in Requests, Count(r)
  PROVE  FlightInv'
<1> DEFINE promote == Primary(r) \notin tracked /\ Room
           new == [request[r] EXCEPT !.pc = "commit", !.promote = promote]
<1>1. /\ new \in Request /\ new.pc = "commit" /\ new.query = Query(r)
      /\ new.waits = request[r].waits /\ new.from = request[r].from
  BY DEF TypeOK, Request, Steps, Query
<1>2. request' = [request EXCEPT ![r] = new] /\ inflight' = inflight
  BY DEF Count, TypeOK
<1> HIDE DEF promote, new
<1>3. Shares(r) /\ request[r].pc = "count"
  BY DEF FlightInv, Count, At
<1>4. new.waits = Nobody
  BY <1>1, <1>3 DEF Shares
<1>5. new.pc \in Steps \ {"lookup", "missed", "waiting"}
  BY <1>1 DEF Steps
<1> QED BY <1>1, <1>2, <1>4, <1>5, MoveShares DEF Resolving

\* A crash ends the calls of its process and clears its map.
LEMMA CrashShares ==
  ASSUME TypeOK, FlightInv, NEW p \in Procs, Crash(p)
  PROVE  FlightInv'
<1>1. \A s \in Requests :
        request'[s] = IF Host[s] = p THEN Ended("idle", Query(s), <<>>) ELSE request[s]
  BY DEF Crash
<1>2. \A o \in Procs, q \in Queries :
        inflight'[o][q] = IF o = p THEN Nobody ELSE inflight[o][q]
  BY DEF Crash, TypeOK
<1>3. ASSUME NEW s \in Requests PROVE Shares(s)'
  <2>1. Host[s] \in Procs /\ Query(s) \in Queries /\ Shares(s)
    BY HostAssumption DEF TypeOK, Request, Query, FlightInv
  <2>2. CASE Host[s] = p
    BY <1>1, <2>1, <2>2, EndedTypes DEF Shares, Resolving
  <2>3. CASE Host[s] # p
    BY <1>1, <1>2, <2>1, <2>3 DEF Shares, Resolving, Query
  <2> QED BY <2>2, <2>3
<1>4. EntriesResolve'
  <2> SUFFICES ASSUME NEW o \in Procs, NEW q \in Queries, inflight'[o][q] # Nobody
               PROVE  IsEntry(o, q, inflight[o][q])'
    BY DEF EntriesResolve
  <2>1. o # p /\ inflight'[o][q] = inflight[o][q]
    BY <1>2
  <2>2. inflight[o][q] \in Requests /\ IsEntry(o, q, inflight[o][q])
    BY <2>1 DEF TypeOK, FlightInv, EntriesResolve
  <2> QED BY <1>1, <2>1, <2>2 DEF IsEntry, Resolving, Query
<1> QED BY <1>3, <1>4 DEF FlightInv

\* Steps that no call takes.
LEMMA QuietShares ==
  ASSUME FlightInv, UNCHANGED <<inflight, request>>
  PROVE  FlightInv'
  BY DEF FlightInv, EntriesResolve, IsEntry, Shares, Resolving, Query

\* Every step preserves the sharing.
LEMMA StepFlights == TypeOK /\ FlightInv /\ [Next]_vars => FlightInv'
<1> SUFFICES ASSUME TypeOK, FlightInv, [Next]_vars PROVE FlightInv'
  OBVIOUS
<1>1. ASSUME NEW r \in Requests, Continue(r) \/ TakeLock(r) \/ Rejects(r)
      PROVE  FlightInv'
  <2>1. row[Query(r)].answer \in Answers \cup {<<>>}
    BY DEF TypeOK, Request, Query, Row
  <2>2. CASE LookupHit(r)
    BY <2>1, <2>2, MapShares DEF LookupHit, At
  <2>3. CASE LookupMiss(r)
    BY <2>3, GoesShares DEF LookupMiss, At, Steps
  <2>4. CASE Join(r)
    BY <2>4, JoinShares
  <2>5. CASE Again(r)
    BY <2>1, <2>5, MapShares, GoesShares DEF Again, At, Steps
  <2>6. CASE Geocode(r)
    BY <2>6, MapShares DEF Geocode, At
  <2>7. CASE Create(r) \/ TakeLock(r)
    BY <2>7, GoesShares DEF Create, TakeLock, At, Steps
  <2>8. CASE Count(r)
    BY <2>8, CountShares
  <2>9. CASE Commit(r)
    BY <2>9, EndShares, GoesShares DEF Commit, At, Steps, Resolving
  <2>10. CASE Save(r) \/ Rejects(r)
    BY <2>10, EndShares DEF Save, Rejects
  <2> QED BY <1>1, <2>2, <2>3, <2>4, <2>5, <2>6, <2>7, <2>8, <2>9, <2>10 DEF Continue
<1>2. ASSUME NEW r \in Requests, NEW q \in Queries, Start(r, q) PROVE FlightInv'
  BY <1>2, StartShares
<1>3. CASE (\E place \in Places : Coordinates(place)) \/ Sweep \/ Tick \/ UNCHANGED vars
  BY <1>3, QuietShares DEF Coordinates, Sweep, Tick, vars
<1>4. ASSUME NEW p \in Procs, Crash(p) PROVE FlightInv'
  BY <1>4, CrashShares
<1> QED BY <1>1, <1>2, <1>3, <1>4 DEF Next

-----------------------------------------------------------------------------
\* The freshness of rows.

\* A row that is fresh after a step was fresh before, and from the same process, or
\* has just been saved.
LEMMA FreshRows ==
  ASSUME TypeOK, [Next]_vars, NEW q \in Queries, Fresh(q)'
  PROVE  \/ Fresh(q) /\ row'[q].by = row[q].by
         \/ \E s \in Requests : Save(s) /\ Query(s) = q /\ row'[q].by = Host[s]
<1>1. row[q] \in Row /\ row[q].age \in Nat /\ Ttl \in Nat
  BY LimitsAssumption DEF TypeOK, Row, MaxAge
<1>2. CASE row'[q] = row[q]
  BY <1>2 DEF Fresh
<1>3. CASE \E s \in Requests : Save(s)
  <2>1. PICK s \in Requests : Save(s)
    BY <1>3
  <2>2. Query(s) \in Queries
    BY DEF TypeOK, Request, Query
  <2>3. Query(s) # q => row'[q] = row[q]
    BY <2>1, <2>2 DEF Save, TypeOK
  <2>4. Query(s) = q => row'[q].by = Host[s]
    BY <2>1, <2>2 DEF Save, TypeOK
  <2> QED BY <1>2, <2>1, <2>3, <2>4
<1>4. CASE Sweep
  <2>1. row'[q] \in {NoRow, row[q]}
    BY <1>4 DEF Sweep
  <2>2. ~NoRow.there
    BY DEF NoRow
  <2> QED BY <1>2, <2>1, <2>2 DEF Fresh
<1>5. CASE Tick
  <2>1. row'[q] = IF row[q].there /\ row[q].age < MaxAge
                  THEN [row[q] EXCEPT !.age = @ + 1] ELSE row[q]
    BY <1>5 DEF Tick
  <2>2. /\ row'[q].there = row[q].there /\ row'[q].by = row[q].by
        /\ row'[q].age \in Nat /\ row'[q].age >= row[q].age
    BY <1>1, <2>1 DEF Row
  <2> QED BY <1>1, <2>2 DEF Fresh
<1>6. ASSUME NEW r \in Requests, Continue(r) \/ TakeLock(r) \/ Rejects(r), ~Save(r)
      PROVE  row' = row
  BY <1>6 DEF Continue, LookupHit, LookupMiss, Join, Again, Geocode, Create, Count,
     Commit, TakeLock, Rejects, DatabaseUnchanged
<1>7. CASE \E r \in Requests, c \in Queries : Start(r, c)
  BY <1>2, <1>7 DEF Start, DatabaseUnchanged
<1>8. CASE (\E place \in Places : Coordinates(place)) \/ (\E p \in Procs : Crash(p))
  BY <1>2, <1>8 DEF Coordinates, Crash
<1> QED BY <1>2, <1>3, <1>4, <1>5, <1>6, <1>7, <1>8 DEF Next, vars

\* A call comes to the provider from a second read that found nothing fresh, or
\* has been there before.
LEMMA ToProvider ==
  ASSUME TypeOK, [Next]_vars, NEW r \in Requests, At(r, "geocode")'
  PROVE  /\ Query(r)' = Query(r)
         /\ At(r, "geocode") \/ (At(r, "again") /\ ~Fresh(Query(r)) /\ row' = row)
<1>1. CASE request'[r] = request[r]
  BY <1>1 DEF At, Query
<1>2. ASSUME NEW s \in Requests, NEW pc \in {"idle", "ok"}, End(s, pc)
      PROVE  request'[r] = request[r]
  <2>1. request'[r] = request[r] \/ request'[r].pc = pc
    BY <1>2 DEF End, Ended
  <2> QED BY <2>1 DEF At
<1>3. ASSUME NEW s \in Requests, NEW pc, Goes(s, pc), pc # "geocode"
      PROVE  request'[r] = request[r]
  BY <1>3 DEF Goes, At, TypeOK, Request
<1>4. ASSUME NEW s \in Requests, NEW answer, NEW from, Map(s, answer, from)
      PROVE  request'[r] = request[r]
  <2>1. CASE End(s, "idle")
    BY <1>2, <2>1
  <2>2. CASE request' = [request EXCEPT ![s].pc = "create", ![s].answer = answer,
                                        ![s].from = from]
    BY <2>2 DEF At, TypeOK, Request
  <2> QED BY <1>4, <2>1, <2>2 DEF Map
<1>5. ASSUME NEW s \in Requests, Again(s)
      PROVE  \/ request'[r] = request[r]
             \/ s = r /\ At(r, "again") /\ ~Fresh(Query(r)) /\ row' = row
                /\ Query(r)' = Query(r)
  <2>1. CASE Map(s, row[Query(s)].answer, "reread")
    BY <1>4, <2>1
  <2>2. CASE ~Fresh(Query(s)) /\ Goes(s, "geocode")
    BY <1>5, <2>2 DEF Again, DatabaseUnchanged, Goes, At, Query, TypeOK, Request
  <2> QED BY <1>5, <2>1, <2>2 DEF Again
<1>6. ASSUME NEW s \in Requests, Join(s) \/ Count(s) \/ (\E q \in Queries : Start(s, q))
      PROVE  request'[r] = request[r]
  BY <1>6 DEF Join, Count, Start, Ended, At, TypeOK, Request
<1>7. ASSUME NEW s \in Requests,
             LookupHit(s) \/ LookupMiss(s) \/ Geocode(s) \/ Create(s) \/ TakeLock(s)
      PROVE  request'[r] = request[r]
  BY <1>3, <1>4, <1>7 DEF LookupHit, LookupMiss, Geocode, Create, TakeLock
<1>8. ASSUME NEW s \in Requests, Commit(s) \/ Save(s) \/ Rejects(s)
      PROVE  request'[r] = request[r]
  BY <1>2, <1>3, <1>8 DEF Commit, Save, Rejects
<1>9. CASE \E p \in Procs : Crash(p)
  BY <1>1, <1>9 DEF Crash, Ended, At
<1>10. CASE (\E place \in Places : Coordinates(place)) \/ Sweep \/ Tick \/ UNCHANGED vars
  BY <1>1, <1>10 DEF Coordinates, Sweep, Tick, vars
<1>11. ASSUME NEW s \in Requests, Continue(s) \/ TakeLock(s) \/ Rejects(s)
                                  \/ (\E q \in Queries : Start(s, q))
       PROVE  \/ request'[r] = request[r]
              \/ At(r, "again") /\ ~Fresh(Query(r)) /\ row' = row /\ Query(r)' = Query(r)
  BY <1>5, <1>6, <1>7, <1>8, <1>11 DEF Continue
<1> QED BY <1>1, <1>9, <1>10, <1>11 DEF Next

\* The call that resolves a query is the only one that can save its row from this
\* process, and it has not while it waits for the provider.
LEMMA StepNoRepeat ==
  ASSUME TypeOK, FlightInv, NoRepeatedLookup, [Next]_vars
  PROVE  NoRepeatedLookup'
<1> SUFFICES ASSUME NEW r \in Requests, At(r, "geocode")',
                    (Fresh(Query(r)) /\ row[Query(r)].by = Host[r])'
             PROVE  FALSE
  BY DEF NoRepeatedLookup
<1> DEFINE q == Query(r)
<1>1. q \in Queries /\ q' = q
  BY ToProvider DEF TypeOK, Request, Query
<1>2. CASE At(r, "again") /\ ~Fresh(q) /\ row' = row
  BY <1>1, <1>2 DEF Fresh
<1>3. CASE At(r, "geocode")
  <2>1. Fresh(q)' /\ row'[q].by = Host[r]
    BY <1>1 DEF Fresh
  <2>2. ~(Fresh(q) /\ row'[q].by = row[q].by)
    BY <1>3, <2>1 DEF NoRepeatedLookup
  <2>3. PICK s \in Requests : Save(s) /\ Query(s) = q /\ row'[q].by = Host[s]
    BY <1>1, <2>1, <2>2, FreshRows
  <2>4. Resolving(s) /\ Resolving(r) /\ Shares(s) /\ Shares(r)
    BY <1>3, <2>3 DEF Save, At, FlightInv, Shares
  <2>5. s = r
    BY <2>1, <2>3, <2>4 DEF Shares
  <2> QED BY <1>3, <2>3, <2>5 DEF Save, At
<1> QED BY <1>2, <1>3, ToProvider

\* Nothing but the sweep deletes a row, and it only finds rows that nobody would use.
LEMMA StepFreshRows ==
  ASSUME TypeOK, [Next]_vars, NEW q \in Queries, Fresh(q)
  PROVE  row'[q].there
<1>1. row[q] \in Row /\ row[q].age \in Nat /\ Ttl \in Nat
  BY LimitsAssumption DEF TypeOK, Row, MaxAge
<1>2. CASE row'[q].there = row[q].there
  BY <1>2 DEF Fresh
<1>3. ASSUME NEW s \in Requests, Save(s) PROVE row'[q].there
  <2>1. row'[q].there \/ row'[q] = row[q]
    BY <1>3 DEF Save, TypeOK
  <2> QED BY <1>2, <2>1
<1>4. CASE Sweep
  <2>1. ~Expired(q)
    BY <1>1 DEF Fresh, Expired
  <2>2. row'[q] = row[q]
    BY <1>4, <2>1 DEF Sweep
  <2> QED BY <1>2, <2>2
<1>5. CASE Tick
  <2>1. row'[q] = IF row[q].there /\ row[q].age < MaxAge
                  THEN [row[q] EXCEPT !.age = @ + 1] ELSE row[q]
    BY <1>5 DEF Tick
  <2> QED BY <1>1, <1>2, <2>1 DEF Row
<1>6. ASSUME NEW r \in Requests, Continue(r) \/ TakeLock(r) \/ Rejects(r), ~Save(r)
      PROVE  row' = row
  BY <1>6 DEF Continue, LookupHit, LookupMiss, Join, Again, Geocode, Create, Count,
     Commit, TakeLock, Rejects, DatabaseUnchanged
<1>7. CASE \E r \in Requests, c \in Queries : Start(r, c)
  BY <1>2, <1>7 DEF Start, DatabaseUnchanged
<1>8. CASE (\E place \in Places : Coordinates(place)) \/ (\E p \in Procs : Crash(p))
  BY <1>2, <1>8 DEF Coordinates, Crash
<1> QED BY <1>2, <1>3, <1>4, <1>5, <1>6, <1>7, <1>8 DEF Next, vars

-----------------------------------------------------------------------------
\* The results.

\* The inductive invariant holds of every behaviour.
THEOREM Invariant == Spec => []IInv
  BY InitInvariant, StepInvariant, PTL DEF Spec

\* The types of the tables, the lock, the maps and the calls.
THEOREM TypeCorrect == Spec => []TypeOK
  BY Invariant, PTL DEF IInv

\* However promotions of any number of processes interleave, crash and fail, no more
\* than MaxTracked locations are tracked.
THEOREM CapHolds == Spec => []WithinCap
  BY Invariant, PTL DEF IInv, CapInv

\* Whoever is answered has a tracked location, unless no place is left.
THEOREM AnsweredTracked == Spec => []AnsweredIsTracked
<1>1. IInv => AnsweredIsTracked
  BY DEF IInv, Located, AnsweredIsTracked, At, Full
<1> QED BY <1>1, Invariant, PTL

\* Who waits for a resolve waits for the one of its query in its process, and the
\* map names no resolve that has ended.
THEOREM ResolvesAreShared == Spec => []FlightsShared
<1>1. TypeOK /\ FlightInv => FlightsShared
  <2> SUFFICES ASSUME TypeOK, FlightInv PROVE FlightsShared
    OBVIOUS
  <2>1. ASSUME NEW p \in Procs, NEW q \in Queries, inflight[p][q] # Nobody
        PROVE  LET r == inflight[p][q]
               IN  /\ Host[r] = p /\ Query(r) = q
                   /\ request[r].pc \in Steps \ {"lookup", "missed", "waiting"}
    <3>1. inflight[p][q] \in Requests
      BY <2>1 DEF TypeOK
    <3> QED BY <2>1, <3>1 DEF FlightInv, EntriesResolve, IsEntry, Shares
  <2>2. ASSUME NEW r \in Requests, At(r, "waiting")
        PROVE  /\ request[r].waits # Nobody
               /\ inflight[Host[r]][Query(r)] = request[r].waits
    BY <2>2 DEF FlightInv, Shares, At
  <2> QED BY <2>1, <2>2 DEF FlightsShared
<1> QED BY <1>1, InitFlights, StepFlights, TypeCorrect, PTL DEF Spec

\* A process does not ask the provider for what it has just stored.
THEOREM NoLookupRepeated == Spec => []NoRepeatedLookup
<1>1. Init => NoRepeatedLookup
  <2> SUFFICES ASSUME Init, NEW r \in Requests PROVE ~At(r, "geocode")
    BY DEF NoRepeatedLookup
  <2>1. PICK q \in Queries : request[r] = Ended("idle", q, <<>>)
    BY DEF Init
  <2> QED BY <2>1 DEF Ended, At
<1>2. TypeOK /\ FlightInv /\ NoRepeatedLookup /\ [Next]_vars => NoRepeatedLookup'
  BY StepNoRepeat
<1> QED BY <1>1, <1>2, InitFlights, StepFlights, TypeCorrect, PTL DEF Spec

\* No sweep deletes a row that a request would still use.
THEOREM SweepSparesFresh == Spec => FreshRowsSurvive
<1>1. TypeOK /\ [Next]_vars => [\A q \in Queries : Fresh(q) => row'[q].there]_vars
  BY StepFreshRows
<1> QED BY <1>1, TypeCorrect, PTL DEF Spec, FreshRowsSurvive
=============================================================================
