----------------------- MODULE ActivityRankingProofs ------------------------
(***************************************************************************)
(* Proofs about ActivityRanking for any finite set of requests, any        *)
(* locations and any limit.                                                *)
(*                                                                         *)
(* The argument rests on one fact about the two data structures of the     *)
(* service: a flight is in coldStartInflight, at its own location, exactly *)
(* as long as it has not settled, and its leader awaits it all that time.  *)
(* Coalescing and the well-being of the waiters follow; the slot count     *)
(* needs only that every path out of a slotted phase frees one slot.       *)
(***************************************************************************)
EXTENDS ActivityRanking, FiniteSetTheorems, TLAPS

\* A flight is in the map, and awaited by the request that launched it.
FlightInMap ==
    \A r \in Requests : flight[r] # "none" =>
        inflight[Loc(r)] = r /\ request[r].waits = r

\* Who waits awaits the entry of its location, and entries are in progress.
WaitersAwait ==
    /\ \A r \in Requests : request[r].pc = "waiting" =>
         /\ inflight[Loc(r)] = request[r].waits
         /\ request[r].waits # NoFlight
    /\ \A l \in Locations : inflight[l] # NoFlight =>
         flight[inflight[l]] # "none" /\ Loc(inflight[l]) = l

\* Only waiting requests await something.
OnlyWaitersWait ==
    \A r \in Requests : request[r].pc # "waiting" <=> request[r].waits = NoFlight

InSlots == {r \in Requests : flight[r] \in Slotted}

IInv ==
    /\ TypeOK
    /\ FlightInMap
    /\ OnlyWaitersWait
    /\ WaitersAwait
    /\ SlotsAreFlights

-----------------------------------------------------------------------------
\* Requests and locations have their types.
LEMMA RequestTypes ==
  ASSUME TypeOK, NEW r \in Requests
  PROVE  /\ request[r] \in RequestRecord
         /\ Loc(r) \in Locations
         /\ flight[r] \in FlightStates
  BY DEF TypeOK, RequestRecord, Loc

\* The records a request starts from and ends with.
LEMMA AnsweredTypes ==
  /\ IdleRequest \in RequestRecord
  /\ IdleRequest.pc = "idle" /\ IdleRequest.waits = NoFlight
  /\ \A a \in Answers : /\ Answered(a) \in RequestRecord
                        /\ Answered(a).pc = "answered" /\ Answered(a).waits = NoFlight
<1>1. AnyLocation \in Locations
  BY LocationsAssumption DEF AnyLocation
<1> QED BY <1>1 DEF IdleRequest, Answered, RequestRecord, Answers

\* The initial state.
LEMMA InitInvariant == Init => IInv
<1> SUFFICES ASSUME Init PROVE IInv
  OBVIOUS
<1>1. TypeOK
  BY AnsweredTypes DEF Init, TypeOK, FlightStates
<1>2. FlightInMap /\ OnlyWaitersWait /\ WaitersAwait
  BY AnsweredTypes DEF Init, FlightInMap, OnlyWaitersWait, WaitersAwait
<1>3. SlotsAreFlights
  <2>1. {r \in Requests : flight[r] \in Slotted} = {}
    BY DEF Init, Slotted
  <2> QED BY <2>1, FS_EmptySet, MaxConcurrentAssumption DEF Init, SlotsAreFlights
<1> QED BY <1>1, <1>2, <1>3 DEF IInv

\* A step that changes one request without touching the flights: whoever does not
\* wait may do anything except start waiting.
LEMMA RequestMoves ==
  ASSUME IInv, NEW r \in Requests, NEW new \in RequestRecord,
         request' = [request EXCEPT ![r] = new], request[r].pc # "waiting",
         new.pc # "waiting", new.waits = NoFlight,
         UNCHANGED <<flight, inflight, count>>, stored' = stored
  PROVE  IInv'
<1>1. request[r].waits = NoFlight
  BY DEF IInv, OnlyWaitersWait
<1>2. flight[r] = "none"
  BY <1>1, RequestsAssumption DEF IInv, FlightInMap
<1>3. /\ request'[r] = new
      /\ \A s \in Requests : s # r => request'[s] = request[s]
  BY DEF IInv, TypeOK
<1>4. TypeOK'
  BY DEF IInv, TypeOK
<1>5. FlightInMap'
  BY <1>2, <1>3 DEF IInv, FlightInMap, Loc
<1>6. OnlyWaitersWait'
  BY <1>3 DEF IInv, OnlyWaitersWait
<1>7. WaitersAwait'
  BY <1>2, <1>3 DEF IInv, TypeOK, WaitersAwait, Loc
<1>8. SlotsAreFlights'
  BY DEF IInv, SlotsAreFlights
<1> QED BY <1>4, <1>5, <1>6, <1>7, <1>8 DEF IInv

\* Resolve, Read, Finish and Again are such steps.
LEMMA RequestStepsPreserve ==
  ASSUME IInv, NEW r \in Requests,
         Resolve(r) \/ Read(r) \/ Finish(r) \/ Again(r)
  PROVE  IInv'
<1>1. request[r] \in RequestRecord
  BY RequestTypes DEF IInv
<1>2. request[r].pc # "waiting" /\ request[r].waits = NoFlight
  BY DEF Resolve, Read, Finish, Again, IInv, OnlyWaitersWait
<1>3. PICK new \in RequestRecord :
        /\ request' = [request EXCEPT ![r] = new]
        /\ new.pc # "waiting" /\ new.waits = NoFlight
  <2>1. CASE Resolve(r)
    <3>1. CASE \E l \in Locations :
                 request' = [request EXCEPT ![r].pc = "reading", ![r].loc = l]
      <4>1. PICK l \in Locations :
                 request' = [request EXCEPT ![r].pc = "reading", ![r].loc = l]
        BY <3>1
      <4>2. [request[r] EXCEPT !.pc = "reading", !.loc = l] \in RequestRecord
        BY <1>1 DEF RequestRecord
      <4>3. request' = [request EXCEPT ![r] =
                          [request[r] EXCEPT !.pc = "reading", !.loc = l]]
        BY <4>1 DEF IInv, TypeOK
      <4> QED BY <1>1, <1>2, <4>2, <4>3 DEF RequestRecord
    <3>2. CASE \E e \in ResolveErrors :
                 request' = [request EXCEPT ![r] = Answered(AnswerTo(e))]
      <4>1. \A e \in ResolveErrors : AnswerTo(e) \in Answers
        BY DEF AnswerTo, Answers
      <4> QED BY <3>2, <4>1, AnsweredTypes
    <3> QED BY <2>1, <3>1, <3>2 DEF Resolve
  <2>2. CASE Read(r)
    <3>1. ASSUME NEW pc \in {"warm", "cold"},
                 request' = [request EXCEPT ![r].pc = pc]
          PROVE  \E new \in RequestRecord :
                   /\ request' = [request EXCEPT ![r] = new]
                   /\ new.pc # "waiting" /\ new.waits = NoFlight
      <4>1. [request[r] EXCEPT !.pc = pc] \in RequestRecord
        BY <1>1 DEF RequestRecord
      <4>2. request' = [request EXCEPT ![r] = [request[r] EXCEPT !.pc = pc]]
        BY <3>1
      <4> QED BY <1>1, <1>2, <4>1, <4>2 DEF RequestRecord
    <3>2. CASE request' = [request EXCEPT ![r] = Answered("error")]
      BY <3>2, AnsweredTypes DEF Answers
    <3> QED BY <2>2, <3>1, <3>2 DEF Read
  <2>3. CASE Finish(r)
    BY <2>3, AnsweredTypes DEF Finish, Answers
  <2>4. CASE Again(r)
    BY <2>4, AnsweredTypes DEF Again
  <2> QED BY <2>1, <2>2, <2>3, <2>4
<1> QED BY <1>2, <1>3, RequestMoves DEF Resolve, Read, Finish, Again

\* Joining: the request awaits what the map holds for its location.
LEMMA JoinPreserves ==
  ASSUME IInv, NEW r \in Requests, Join(r)
  PROVE  IInv'
<1> DEFINE new == [request[r] EXCEPT !.pc = "waiting", !.waits = inflight[Loc(r)]]
<1>1. request[r] \in RequestRecord /\ Loc(r) \in Locations
  BY RequestTypes DEF IInv
<1>2. /\ new \in RequestRecord /\ new.pc = "waiting" /\ new.loc = Loc(r)
      /\ new.waits = inflight[Loc(r)]
  BY <1>1 DEF RequestRecord, Loc, IInv, TypeOK
<1>3. request' = [request EXCEPT ![r] = new]
  BY DEF Join, IsInFlight, IInv, TypeOK
<1> HIDE DEF new
<1>4. /\ request'[r] = new
      /\ \A s \in Requests : s # r => request'[s] = request[s]
  BY <1>3 DEF IInv, TypeOK
<1>5. flight[r] = "none" /\ inflight[Loc(r)] # NoFlight
  BY RequestsAssumption DEF Join, IsInFlight, IInv, OnlyWaitersWait, FlightInMap
<1>6. TypeOK'
  BY <1>2, <1>3 DEF Join, IsInFlight, IInv, TypeOK
<1>7. FlightInMap'
  BY <1>4, <1>5 DEF Join, IsInFlight, IInv, FlightInMap, Loc
<1>8. OnlyWaitersWait'
  BY <1>2, <1>4, <1>5 DEF IInv, OnlyWaitersWait
<1>9. WaitersAwait'
  BY <1>2, <1>4, <1>5 DEF Join, IsInFlight, IInv, TypeOK, WaitersAwait, Loc
<1>10. SlotsAreFlights'
  BY DEF Join, IsInFlight, IInv, SlotsAreFlights
<1> QED BY <1>6, <1>7, <1>8, <1>9, <1>10 DEF IInv

\* Launching or rejecting: the request becomes the leader of a flight.
LEMMA BeginKeepsMap ==
  ASSUME IInv, NEW r \in Requests, NEW state \in {"fetching", "rereading"},
         Begin(r, state), count' \in Nat
  PROVE  /\ TypeOK' /\ FlightInMap' /\ OnlyWaitersWait' /\ WaitersAwait'
         /\ flight[r] = "none" /\ flight' = [flight EXCEPT ![r] = state]
<1> DEFINE new == [request[r] EXCEPT !.pc = "waiting", !.waits = r]
<1>1. request[r] \in RequestRecord /\ Loc(r) \in Locations
  BY RequestTypes DEF IInv
<1>2. /\ new \in RequestRecord /\ new.pc = "waiting" /\ new.loc = Loc(r)
      /\ new.waits = r
  BY <1>1 DEF RequestRecord, Loc
<1>3. request' = [request EXCEPT ![r] = new]
  BY DEF Begin, IsInFlight, IInv, TypeOK
<1> HIDE DEF new
<1>4. /\ request'[r] = new
      /\ \A s \in Requests : s # r => request'[s] = request[s]
  BY <1>3 DEF IInv, TypeOK
<1>5. flight[r] = "none" /\ inflight[Loc(r)] = NoFlight
  BY RequestsAssumption DEF Begin, IsInFlight, IInv, OnlyWaitersWait, FlightInMap
<1>6. TypeOK'
  <2>1. request' \in [Requests -> RequestRecord]
    BY <1>2, <1>3 DEF IInv, TypeOK
  <2>2. state \in FlightStates
    BY DEF FlightStates, Slotted
  <2>3. flight' \in [Requests -> FlightStates]
    BY <2>2 DEF Begin, IsInFlight, IInv, TypeOK
  <2>4. inflight' \in [Locations -> Requests \cup {NoFlight}]
    BY <1>1 DEF Begin, IsInFlight, IInv, TypeOK
  <2> QED BY <2>1, <2>3, <2>4 DEF Begin, IsInFlight, IInv, TypeOK
<1>7. FlightInMap'
  <2> SUFFICES ASSUME NEW s \in Requests, flight'[s] # "none"
               PROVE  inflight'[Loc(s)'] = s /\ request'[s].waits = s
    BY DEF FlightInMap
  <2>1. CASE s = r
    BY <1>1, <1>2, <1>4, <2>1 DEF Begin, IsInFlight, IInv, TypeOK, Loc
  <2>2. CASE s # r
    <3>1. flight[s] # "none" /\ request'[s] = request[s]
      BY <1>4, <2>2 DEF Begin, IsInFlight, IInv, TypeOK
    <3>2. inflight[Loc(s)] = s /\ Loc(s) # Loc(r)
      BY <1>5, <3>1, RequestsAssumption DEF IInv, FlightInMap
    <3>3. inflight[Loc(s)] = s /\ request[s].waits = s
      BY <3>1 DEF IInv, FlightInMap
    <3> QED BY <1>1, <3>1, <3>2, <3>3, RequestTypes DEF Begin, IsInFlight, IInv, TypeOK, Loc
  <2> QED BY <2>1, <2>2
<1>8. OnlyWaitersWait'
  BY <1>2, <1>4, RequestsAssumption DEF IInv, OnlyWaitersWait
<1>9. WaitersAwait'
  <2>1. ASSUME NEW s \in Requests, request'[s].pc = "waiting"
        PROVE  inflight'[Loc(s)'] = request'[s].waits /\ request'[s].waits # NoFlight
    <3>1. CASE s = r
      BY <1>1, <1>2, <1>4, <3>1, RequestsAssumption DEF Begin, IsInFlight, IInv, TypeOK, Loc
    <3>2. CASE s # r
      <4>1. request'[s] = request[s] /\ Loc(s) \in Locations
        BY <1>4, <3>2, RequestTypes DEF IInv
      <4>2. inflight[Loc(s)] = request[s].waits /\ request[s].waits # NoFlight
        BY <2>1, <4>1 DEF IInv, WaitersAwait
      <4> QED BY <1>1, <1>5, <4>1, <4>2 DEF Begin, IsInFlight, IInv, TypeOK, Loc
    <3> QED BY <3>1, <3>2
  <2>2. ASSUME NEW l \in Locations, inflight'[l] # NoFlight
        PROVE  flight'[inflight'[l]] # "none" /\ request'[inflight'[l]].loc = l
    <3>1. CASE l = Loc(r)
      <4>1. inflight'[l] = r /\ flight'[r] = state
        BY <1>1, <3>1 DEF Begin, IsInFlight, IInv, TypeOK
      <4> QED BY <1>2, <1>4, <3>1, <4>1
    <3>2. CASE l # Loc(r)
      <4>1. inflight'[l] = inflight[l] /\ inflight[l] \in Requests
        BY <1>1, <2>2, <3>2 DEF Begin, IsInFlight, IInv, TypeOK
      <4>2. flight[inflight[l]] # "none" /\ Loc(inflight[l]) = l
        BY <2>2, <4>1 DEF IInv, WaitersAwait
      <4>3. inflight[l] # r
        BY <1>5, <4>2
      <4> QED BY <1>4, <4>1, <4>2, <4>3 DEF Begin, IsInFlight, IInv, TypeOK, Loc
    <3> QED BY <3>1, <3>2
  <2> QED BY <2>1, <2>2 DEF WaitersAwait, Loc
<1> QED BY <1>5, <1>6, <1>7, <1>8, <1>9 DEF Begin, IsInFlight

\* How the number of slotted flights changes when one flight changes phase.
LEMMA SlotCounting ==
  ASSUME IInv, NEW r \in Requests, NEW state,
         flight' = [flight EXCEPT ![r] = state]
  PROVE  /\ Cardinality(InSlots) \in Nat
         /\ (flight[r] \in Slotted <=> state \in Slotted) => InSlots' = InSlots
         /\ flight[r] \notin Slotted /\ state \in Slotted
              => Cardinality(InSlots') = Cardinality(InSlots) + 1
         /\ flight[r] \in Slotted /\ state \notin Slotted
              => /\ Cardinality(InSlots') = Cardinality(InSlots) - 1
                 /\ Cardinality(InSlots) > 0
<1>1. IsFiniteSet(InSlots)
  BY FS_Subset, RequestsAssumption DEF InSlots
<1>2. Cardinality(InSlots) \in Nat
  BY <1>1, FS_CardinalityType
<1>3. \A s \in Requests : s # r => flight'[s] = flight[s]
  BY DEF IInv, TypeOK
<1>4. flight'[r] = state
  BY DEF IInv, TypeOK
<1>5. ASSUME flight[r] \in Slotted <=> state \in Slotted PROVE InSlots' = InSlots
  BY <1>3, <1>4, <1>5 DEF InSlots
<1>6. ASSUME flight[r] \notin Slotted, state \in Slotted
      PROVE  Cardinality(InSlots') = Cardinality(InSlots) + 1
  <2>1. InSlots' = InSlots \cup {r} /\ r \notin InSlots
    BY <1>3, <1>4, <1>6 DEF InSlots
  <2> QED BY <1>1, <2>1, FS_AddElement
<1>7. ASSUME flight[r] \in Slotted, state \notin Slotted
      PROVE  /\ Cardinality(InSlots') = Cardinality(InSlots) - 1
             /\ Cardinality(InSlots) > 0
  <2>1. InSlots' = InSlots \ {r} /\ r \in InSlots
    BY <1>3, <1>4, <1>7 DEF InSlots
  <2>2. Cardinality(InSlots') = Cardinality(InSlots) - 1
    BY <1>1, <2>1, FS_RemoveElement
  <2>3. Cardinality(InSlots) # 0
    BY <1>1, <2>1, FS_EmptySet
  <2> QED BY <1>2, <2>2, <2>3
<1> QED BY <1>2, <1>5, <1>6, <1>7

\* Rejecting takes no slot, launching takes one below the limit.
LEMMA BeginPreserves ==
  ASSUME IInv, NEW r \in Requests, Reject(r) \/ Launch(r)
  PROVE  IInv'
<1>1. count \in Nat /\ count = Cardinality(InSlots) /\ count <= MaxConcurrent
  BY DEF IInv, TypeOK, SlotsAreFlights, InSlots
<1>2. CASE Reject(r)
  <2>1. /\ TypeOK' /\ FlightInMap' /\ OnlyWaitersWait' /\ WaitersAwait'
        /\ flight[r] = "none" /\ flight' = [flight EXCEPT ![r] = "rereading"]
    BY <1>1, <1>2, BeginKeepsMap DEF Reject
  <2>2. InSlots' = InSlots
    <3>1. flight[r] \notin Slotted /\ "rereading" \notin Slotted
      BY <2>1 DEF Slotted
    <3> QED BY <2>1, <3>1, SlotCounting
  <2> QED BY <1>1, <1>2, <2>1, <2>2 DEF Reject, IInv, SlotsAreFlights, InSlots
<1>3. CASE Launch(r)
  <2>1. /\ TypeOK' /\ FlightInMap' /\ OnlyWaitersWait' /\ WaitersAwait'
        /\ flight[r] = "none" /\ flight' = [flight EXCEPT ![r] = "fetching"]
    BY <1>1, <1>3, BeginKeepsMap DEF Launch
  <2>2. Cardinality(InSlots') = Cardinality(InSlots) + 1
    BY <2>1, SlotCounting DEF Slotted
  <2>3. count' = Cardinality(InSlots') /\ count' <= MaxConcurrent
    BY <1>1, <1>3, <2>2, MaxConcurrentAssumption DEF Launch
  <2> QED BY <2>1, <2>3 DEF IInv, SlotsAreFlights, InSlots
<1> QED BY <1>2, <1>3

\* A flight changes phase without settling; it frees its slot exactly when it
\* leaves the slotted phases.
LEMMA FlightMoves ==
  ASSUME IInv, NEW r \in Requests, NEW state \in FlightStates,
         flight[r] # "none", state # "none", flight' = [flight EXCEPT ![r] = state],
         UNCHANGED <<request, inflight>>,
         stored' \in [Locations -> {"nothing", "past", "current"}],
         \/ count' = count /\ (flight[r] \in Slotted <=> state \in Slotted)
         \/ count' = count - 1 /\ flight[r] \in Slotted /\ state \notin Slotted
  PROVE  IInv'
<1>1. count \in Nat /\ count = Cardinality(InSlots) /\ count <= MaxConcurrent
  BY DEF IInv, TypeOK, SlotsAreFlights, InSlots
<1>2. \A s \in Requests : (flight'[s] # "none") <=> (flight[s] # "none")
  BY DEF IInv, TypeOK
<1>3. count' \in Nat /\ count' = Cardinality(InSlots') /\ count' <= MaxConcurrent
  <2>1. CASE count' = count /\ (flight[r] \in Slotted <=> state \in Slotted)
    <3>1. InSlots' = InSlots
      BY <2>1, SlotCounting
    <3> QED BY <1>1, <2>1, <3>1
  <2>2. CASE count' = count - 1 /\ flight[r] \in Slotted /\ state \notin Slotted
    <3>1. /\ Cardinality(InSlots') = Cardinality(InSlots) - 1
          /\ Cardinality(InSlots) > 0
      BY <2>2, SlotCounting
    <3> QED BY <1>1, <2>2, <3>1, MaxConcurrentAssumption
  <2> QED BY <2>1, <2>2
<1>4. TypeOK'
  BY <1>3 DEF IInv, TypeOK
<1>5. FlightInMap' /\ OnlyWaitersWait'
  BY <1>2 DEF IInv, FlightInMap, OnlyWaitersWait, Loc
<1>6. WaitersAwait'
  BY <1>2 DEF IInv, TypeOK, WaitersAwait, Loc
<1> QED BY <1>3, <1>4, <1>5, <1>6 DEF IInv, SlotsAreFlights, InSlots

\* Every step of runColdStart between its launch and its settling is such a change.
LEMMA FlightStepsPreserve ==
  ASSUME IInv, NEW r \in Requests,
         \/ FetchDays(r) \/ FetchNothing(r) \/ UpsertCommits(r)
         \/ UpsertResolves(r) \/ UpsertRejects(r) \/ Reread(r)
  PROVE  IInv'
<1>1. stored' \in [Locations -> {"nothing", "past", "current"}]
  BY DEF IInv, TypeOK, FetchDays, FetchNothing, UpsertCommits, UpsertResolves,
         UpsertRejects, Reread
<1>2. UNCHANGED <<request, inflight>>
  BY DEF FetchDays, FetchNothing, UpsertCommits, UpsertResolves, UpsertRejects, Reread
<1>3. CASE FetchDays(r)
  BY <1>1, <1>2, <1>3, FlightMoves DEF FetchDays, Moves, Slotted, FlightStates
<1>4. CASE FetchNothing(r)
  BY <1>1, <1>2, <1>4, FlightMoves
  DEF FetchNothing, FreeSlot, Moves, Slotted, FlightStates
<1>5. CASE UpsertCommits(r)
  BY <1>1, <1>2, <1>5, FlightMoves DEF UpsertCommits, Moves, Slotted, FlightStates
<1>6. CASE UpsertResolves(r)
  BY <1>1, <1>2, <1>6, FlightMoves
  DEF UpsertResolves, FreeSlot, Moves, Slotted, FlightStates
<1>7. CASE UpsertRejects(r)
  BY <1>1, <1>2, <1>7, FlightMoves
  DEF UpsertRejects, FreeSlot, Moves, Slotted, FlightStates, Results
<1>8. CASE Reread(r)
  BY <1>1, <1>2, <1>8, FlightMoves DEF Reread, Moves, Slotted, FlightStates, Results
<1> QED BY <1>3, <1>4, <1>5, <1>6, <1>7, <1>8

\* Settling: everybody who awaits the flight goes on, nobody else is concerned.
LEMMA SettlePreserves ==
  ASSUME IInv, NEW r \in Requests, Settle(r)
  PROVE  IInv'
<1>1. /\ Loc(r) \in Locations /\ flight[r] \in Results /\ flight[r] # "none"
      /\ flight[r] \notin Slotted
  BY RequestTypes DEF Settle, InflightAfter, IInv, Results, Slotted
<1>2. inflight[Loc(r)] = r /\ request[r].waits = r
  BY <1>1 DEF IInv, FlightInMap
<1>3. /\ flight'[r] = "none" /\ inflight'[Loc(r)] = NoFlight
      /\ \A s \in Requests : s # r => flight'[s] = flight[s]
      /\ \A l \in Locations : l # Loc(r) => inflight'[l] = inflight[l]
  BY <1>1 DEF Settle, InflightAfter, IInv, TypeOK
<1>4. ASSUME NEW s \in Requests, request[s].waits = r
      PROVE  /\ request'[s] \in RequestRecord
             /\ request'[s].pc # "waiting" /\ request'[s].waits = NoFlight
  <2>1. request'[s] = After(s, flight[r])
    BY <1>4 DEF Settle, InflightAfter
  <2>2. request[s] \in RequestRecord
    BY RequestTypes DEF IInv
  <2>3. CASE flight[r] = "days"
    <3>1. request'[s] = [request[s] EXCEPT !.pc = "warm", !.waits = NoFlight]
      BY <2>1, <2>3 DEF After
    <3> QED BY <2>2, <3>1 DEF RequestRecord
  <2>4. CASE flight[r] = "empty"
    BY <2>1, <2>4, AnsweredTypes DEF After, Answers
  <2>5. CASE flight[r] = "failed"
    BY <2>1, <2>5, AnsweredTypes DEF After, Answers
  <2> QED BY <1>1, <2>3, <2>4, <2>5 DEF Results
<1>5. ASSUME NEW s \in Requests, request[s].waits # r
      PROVE  request'[s] = request[s]
  BY <1>5 DEF Settle, InflightAfter
<1>6. TypeOK'
  <2>1. request' \in [Requests -> RequestRecord]
    <3>1. \A s \in Requests : request'[s] \in RequestRecord
      BY <1>4, <1>5, RequestTypes DEF IInv
    <3> QED BY <3>1 DEF Settle, InflightAfter
  <2>2. flight' \in [Requests -> FlightStates]
    BY DEF Settle, InflightAfter, IInv, TypeOK, FlightStates
  <2>3. inflight' \in [Locations -> Requests \cup {NoFlight}]
    BY DEF Settle, InflightAfter, IInv, TypeOK
  <2> QED BY <2>1, <2>2, <2>3 DEF Settle, InflightAfter, IInv, TypeOK
<1>7. FlightInMap'
  <2> SUFFICES ASSUME NEW s \in Requests, flight'[s] # "none"
               PROVE  inflight'[request'[s].loc] = s /\ request'[s].waits = s
    BY DEF FlightInMap, Loc
  <2>1. s # r /\ flight[s] # "none"
    BY <1>3
  <2>2. inflight[Loc(s)] = s /\ request[s].waits = s /\ Loc(s) \in Locations
    BY <2>1, RequestTypes DEF IInv, FlightInMap
  <2> QED BY <1>2, <1>3, <1>5, <2>1, <2>2 DEF Loc
<1>8. OnlyWaitersWait'
  BY <1>4, <1>5 DEF IInv, OnlyWaitersWait
<1>9. WaitersAwait'
  <2>1. ASSUME NEW s \in Requests, request'[s].pc = "waiting"
        PROVE  /\ inflight'[request'[s].loc] = request'[s].waits
               /\ request'[s].waits # NoFlight
    <3>1. request[s].waits # r /\ request'[s] = request[s]
      BY <1>4, <1>5, <2>1
    <3>2. inflight[Loc(s)] = request[s].waits /\ request[s].waits # NoFlight
      BY <2>1, <3>1 DEF IInv, WaitersAwait
    <3>3. Loc(s) \in Locations
      BY RequestTypes DEF IInv
    <3> QED BY <1>2, <1>3, <3>1, <3>2, <3>3 DEF Loc
  <2>2. ASSUME NEW l \in Locations, inflight'[l] # NoFlight
        PROVE  /\ flight'[inflight'[l]] # "none"
               /\ request'[inflight'[l]].loc = l
    <3>1. l # Loc(r) /\ inflight'[l] = inflight[l] /\ inflight[l] \in Requests
      BY <1>3, <2>2 DEF IInv, TypeOK
    <3>2. flight[inflight[l]] # "none" /\ Loc(inflight[l]) = l
      BY <2>2, <3>1 DEF IInv, WaitersAwait
    <3>3. inflight[l] # r /\ request[inflight[l]].waits = inflight[l]
      BY <3>1, <3>2 DEF IInv, FlightInMap
    <3> QED BY <1>3, <1>5, <3>1, <3>2, <3>3 DEF Loc
  <2> QED BY <2>1, <2>2 DEF WaitersAwait, Loc
<1>10. SlotsAreFlights'
  <2>1. InSlots' = InSlots
    <3>1. "none" \notin Slotted
      BY DEF Slotted
    <3>2. flight' = [flight EXCEPT ![r] = "none"]
      BY DEF Settle, InflightAfter
    <3> QED BY <1>1, <3>1, <3>2, SlotCounting
  <2> QED BY <2>1 DEF Settle, InflightAfter, IInv, SlotsAreFlights, InSlots
<1> QED BY <1>6, <1>7, <1>8, <1>9, <1>10 DEF IInv

\* Upserts elsewhere, the passing of days and stuttering touch nothing here.
LEMMA EnvironmentPreserves ==
  ASSUME IInv, UNCHANGED <<request, flight, inflight, count>>,
         stored' \in [Locations -> {"nothing", "past", "current"}]
  PROVE  IInv'
<1>1. TypeOK'
  BY DEF IInv, TypeOK
<1>2. FlightInMap' /\ OnlyWaitersWait' /\ WaitersAwait' /\ SlotsAreFlights'
  BY DEF IInv, FlightInMap, OnlyWaitersWait, WaitersAwait, SlotsAreFlights, Loc
<1> QED BY <1>1, <1>2 DEF IInv

\* Every step preserves the invariant.
LEMMA StepInvariant == IInv /\ [Next]_vars => IInv'
<1> SUFFICES ASSUME IInv, [Next]_vars PROVE IInv'
  OBVIOUS
<1>1. ASSUME NEW r \in Requests, RankStep(r) \/ Again(r) PROVE IInv'
  BY <1>1, RequestStepsPreserve, JoinPreserves, BeginPreserves DEF RankStep
<1>2. ASSUME NEW r \in Requests, FlightStep(r) PROVE IInv'
  BY <1>2, FlightStepsPreserve, SettlePreserves DEF FlightStep
<1>3. ASSUME NEW l \in Locations, OtherUpsert(l) \/ Lapse(l) PROVE IInv'
  <2>1. stored' \in [Locations -> {"nothing", "past", "current"}]
    BY <1>3 DEF OtherUpsert, Lapse, IInv, TypeOK
  <2> QED BY <1>3, <2>1, EnvironmentPreserves DEF OtherUpsert, Lapse
<1>4. CASE UNCHANGED vars
  <2>1. stored' \in [Locations -> {"nothing", "past", "current"}]
    BY <1>4 DEF vars, IInv, TypeOK
  <2> QED BY <1>4, <2>1, EnvironmentPreserves DEF vars
<1> QED BY <1>1, <1>2, <1>3, <1>4 DEF Next

-----------------------------------------------------------------------------
\* The results.

\* The inductive invariant holds of every behaviour of the service.
THEOREM Invariant == Spec => []IInv
  BY InitInvariant, StepInvariant, PTL DEF Spec

\* The types of the requests, the flights, the map and the counter, which is never
\* counted down below zero.
THEOREM TypeCorrect == Spec => []TypeOK
  BY Invariant, PTL DEF IInv

\* The counter of cold starts never leaks a slot and never passes the limit.
THEOREM SlotsNeverLeak == Spec => []SlotsAreFlights
  BY Invariant, PTL DEF IInv

\* The map of cold starts is exact: whatever is in progress is in it, and whatever
\* is in it, or awaited, is in progress for that location.
THEOREM WaitersAlwaysHaveFlight == Spec => []WaitersHaveFlight
<1>1. IInv => WaitersHaveFlight
  BY DEF IInv, FlightInMap, WaitersAwait, WaitersHaveFlight
<1> QED BY <1>1, Invariant, PTL

\* No thundering herd: at most one cold start of a location is in flight.
THEOREM Coalescing ==
  Spec => [](\A r, s \in Requests :
               flight[r] # "none" /\ flight[s] # "none" /\ Loc(r) = Loc(s) => r = s)
<1>1. IInv => \A r, s \in Requests :
                flight[r] # "none" /\ flight[s] # "none" /\ Loc(r) = Loc(s) => r = s
  BY DEF IInv, FlightInMap
<1> QED BY <1>1, Invariant, PTL
=============================================================================
