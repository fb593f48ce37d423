-------------------------- MODULE ThrottlerProofs --------------------------
(***************************************************************************)
(* Theorems about the rate limit, for any number of calls, any limit, time *)
(* to live and duration of a block.                                        *)
(*                                                                         *)
(* The proof that twice the limit is never reached counts a request when   *)
(* the script is executed, as the script does: to the requests that were   *)
(* let through it adds those that will be when their answers arrive.  An   *)
(* answer that arrives leaves this sum alone, one that is lost lowers it,  *)
(* and only the script raises it, by one and only within the limit.        *)
(***************************************************************************)
EXTENDS Throttler, FiniteSetTheorems, TLAPS

\* What makes CountIsRecent inductive: the time to live is the age that the counter
\* has not reached yet.
LeftAndAge == hits > 0 => left > 0 /\ left + age = Ttl

\* The requests that were counted in this tick or the a before it, and whose
\* answers, under way, will let them through.
Waiting(a) == {c \in Calls : call[c].pc = "passed" /\ call[c].ago <= a}

\* The requests counted in that time and let through, now or then.
Admitted(a) == granted[a] + Cardinality(Waiting(a))

\* How many of the hits of this window may have been admitted.
Passed == IF hits <= Limit THEN hits ELSE Limit

\* What makes LessThanTwiceTheLimit inductive.  The first hit of a window starts it,
\* so a span that begins after that has one request less from this window; and when
\* the counter has expired, any Ttl ticks begin after that.
Windows ==
    \A a \in Ages :
        /\ hits = 0 => Admitted(a) < Limit /\ Admitted(0) = 0
        /\ hits > 0 =>
             /\ a < age => Admitted(a) < Passed
             /\ a <= age => Admitted(a) <= Passed
             /\ Admitted(a) < Limit + Passed

IInv == TypeOK /\ LeftAndAge /\ Windows

-----------------------------------------------------------------------------
\* Types

LEMMA WaitingTypes ==
    ASSUME NEW k \in [Calls -> Call], NEW g \in [Ages -> Nat], NEW a \in Ages,
           NEW W, W = {c \in Calls : k[c].pc = "passed" /\ k[c].ago <= a}
    PROVE  /\ IsFiniteSet(W) /\ Cardinality(W) \in Nat
           /\ g[a] \in Nat /\ g[a] + Cardinality(W) \in Nat
           /\ g[a] <= g[a] + Cardinality(W)
  <1>1. W \in SUBSET Calls
    OBVIOUS
  <1>2. IsFiniteSet(W)
    BY <1>1, CallsAssumption, FS_Subset
  <1>3. Cardinality(W) \in Nat /\ g[a] \in Nat
    BY <1>2, FS_CardinalityType
  <1> QED
    BY <1>2, <1>3

LEMMA AdmittedTypes ==
    ASSUME TypeOK, NEW a \in Ages
    PROVE  /\ IsFiniteSet(Waiting(a)) /\ Cardinality(Waiting(a)) \in Nat
           /\ granted[a] \in Nat /\ Admitted(a) \in Nat /\ granted[a] <= Admitted(a)
  BY WaitingTypes DEF TypeOK, Waiting, Admitted

\* The same of the next state.
LEMMA AdmittedTypesNext ==
    ASSUME TypeOK', NEW a \in Ages
    PROVE  Admitted(a)' \in Nat
  BY WaitingTypes DEF TypeOK, Waiting, Admitted

LEMMA CallTypes ==
    ASSUME TypeOK, NEW c \in Calls,
           NEW pc \in {"idle", "counting", "passed", "over", "blocking", "blocked"},
           Goes(c, pc)
    PROVE  /\ call' \in [Calls -> Call]
           /\ call'[c] = [pc |-> pc, ago |-> 0]
           /\ \A d \in Calls : d # c => call'[d] = call[d]
  <1>1. [pc |-> pc, ago |-> 0] \in Call
    BY TtlAssumption DEF Call
  <1> QED
    BY <1>1 DEF TypeOK, Goes

LEMMA GrantTypes ==
    ASSUME TypeOK, NEW ago \in 0 .. Ttl
    PROVE  OneMore(ago) \in [Ages -> Nat] /\ TickLater \in [Ages -> Nat]
  <1>1. OneMore(ago) \in [Ages -> Nat]
    BY DEF TypeOK, OneMore
  <1>2. ASSUME NEW a \in Ages, a # 0 PROVE a - 1 \in Ages
    BY <1>2, TtlAssumption DEF Ages
  <1> QED
    BY <1>1, <1>2 DEF TypeOK, TickLater

-----------------------------------------------------------------------------
\* Steps that neither count nor take time

\* Fewer requests admitted fit as well.
LEMMA WindowsKept ==
    ASSUME IInv, TypeOK', UNCHANGED <<hits, left, age>>,
           \A a \in Ages : Admitted(a)' <= Admitted(a)
    PROVE  IInv'
  <1>1. LeftAndAge'
    BY DEF IInv, LeftAndAge
  <1>2. Windows'
    <2> SUFFICES ASSUME NEW a \in Ages
                 PROVE  /\ hits = 0 => Admitted(a)' < Limit /\ Admitted(0)' = 0
                        /\ hits > 0 =>
                             /\ a < age => Admitted(a)' < Passed
                             /\ a <= age => Admitted(a)' <= Passed
                             /\ Admitted(a)' < Limit + Passed
      BY DEF Windows, Passed
    <2>1. 0 \in Ages
      BY TtlAssumption DEF Ages
    <2>2. /\ Admitted(a) \in Nat /\ Admitted(0) \in Nat
          /\ Admitted(a)' <= Admitted(a) /\ Admitted(0)' <= Admitted(0)
      BY <2>1, AdmittedTypes DEF IInv
    <2>3. Admitted(a)' \in Nat /\ Admitted(0)' \in Nat
      BY <2>1, AdmittedTypesNext
    <2>4. Limit \in Nat /\ Passed \in Nat /\ age \in Nat /\ a \in Nat
      BY LimitAssumption, TtlAssumption DEF Passed, IInv, TypeOK, Ages
    <2> QED
      BY <2>2, <2>3, <2>4 DEF IInv, Windows
  <1> QED
    BY <1>1, <1>2 DEF IInv

\* A call goes on, or is given up, without being counted, and nothing is let through.
LEMMA CallMoves ==
    ASSUME IInv, NEW c \in Calls,
           NEW pc \in {"idle", "counting", "over", "blocking", "blocked"}, Goes(c, pc),
           block' \in 0 .. BlockDuration, UNCHANGED <<hits, left, age, granted>>
    PROVE  IInv'
  <1>1. TypeOK /\ TypeOK'
    BY CallTypes DEF IInv, TypeOK
  <1>2. ASSUME NEW a \in Ages
        PROVE  Admitted(a)' <= Admitted(a)
    <2>1. Waiting(a)' \in SUBSET Waiting(a)
      BY <1>1, CallTypes DEF Waiting
    <2>2. IsFiniteSet(Waiting(a)) /\ Cardinality(Waiting(a)) \in Nat /\ granted[a] \in Nat
      BY <1>1, <1>2, AdmittedTypes
    <2>3. /\ Cardinality(Waiting(a)') <= Cardinality(Waiting(a))
          /\ Cardinality(Waiting(a)') \in Nat
      BY <2>1, <2>2, FS_Subset, FS_CardinalityType
    <2> QED
      BY <2>2, <2>3 DEF Admitted
  <1> QED
    BY <1>1, <1>2, WindowsKept

\* An answer lets a request through that was admitted when it was counted.
LEMMA LetThroughKeeps ==
    ASSUME IInv, NEW c \in Calls, LetThrough(c)
    PROVE  IInv'
  <1>1. Goes(c, "idle") /\ call[c].pc = "passed" /\ call[c].ago \in 0 .. Ttl
    BY DEF LetThrough, IInv, TypeOK, Call
  <1>2. TypeOK /\ TypeOK'
    BY <1>1, CallTypes, GrantTypes DEF LetThrough, IInv, TypeOK
  <1>3. ASSUME NEW a \in Ages
        PROVE  Admitted(a)' <= Admitted(a)
    <2>1. Waiting(a)' = Waiting(a) \ {c}
      BY <1>1, <1>2, CallTypes DEF Waiting
    <2>2. IsFiniteSet(Waiting(a)) /\ Cardinality(Waiting(a)) \in Nat /\ granted[a] \in Nat
      BY <1>2, <1>3, AdmittedTypes
    <2>3. Cardinality(Waiting(a)') =
            IF c \in Waiting(a) THEN Cardinality(Waiting(a)) - 1 ELSE Cardinality(Waiting(a))
      BY <2>1, <2>2, FS_RemoveElement
    <2>4. c \in Waiting(a) <=> call[c].ago <= a
      BY <1>1 DEF Waiting
    <2>5. granted'[a] = IF call[c].ago <= a THEN granted[a] + 1 ELSE granted[a]
      BY <1>3 DEF LetThrough, OneMore
    <2> QED
      BY <2>2, <2>3, <2>4, <2>5 DEF Admitted
  <1> QED
    BY <1>2, <1>3, WindowsKept DEF LetThrough

-----------------------------------------------------------------------------
\* The script

\* What it does to the counter.
LEMMA CounterTypes ==
    ASSUME IInv, NEW c \in Calls, Count(c)
    PROVE  /\ hits' \in 0 .. Limit + 1
           /\ left' \in 0 .. Ttl
           /\ age' \in 0 .. Ttl
           /\ hits' > 0 /\ left' > 0 /\ left' + age' = Ttl
  <1> USE LimitAssumption, TtlAssumption DEF IInv, TypeOK, LeftAndAge, Count, LeftAfterHit
  <1>1. CASE hits = 0
    BY <1>1
  <1>2. CASE hits > 0
    BY <1>2
  <1> QED
    BY <1>1, <1>2

\* It admits one request at most, and none beyond the limit.
LEMMA ScriptAdmits ==
    ASSUME IInv, NEW c \in Calls, Count(c), NEW a \in Ages
    PROVE  Admitted(a)' = Admitted(a) + (IF hits' <= Limit THEN 1 ELSE 0)
  <1>1. TypeOK /\ hits' \in Nat /\ Limit \in Nat /\ a >= 0
    BY CounterTypes, LimitAssumption, TtlAssumption DEF IInv, Ages
  <1>2. IsFiniteSet(Waiting(a)) /\ Cardinality(Waiting(a)) \in Nat /\ granted[a] \in Nat
    BY <1>1, AdmittedTypes
  <1>3. granted' = granted /\ call[c].pc = "counting"
    BY DEF Count
  <1>4. CASE hits' <= Limit
    <2>1. Goes(c, "passed")
      BY <1>1, <1>4 DEF Count, OverLimit
    <2>2. /\ call'[c] = [pc |-> "passed", ago |-> 0]
          /\ \A d \in Calls : d # c => call'[d] = call[d]
      BY <1>1, <2>1, CallTypes
    <2>3. Waiting(a)' = Waiting(a) \cup {c} /\ c \notin Waiting(a)
      BY <1>1, <1>3, <2>2 DEF Waiting
    <2>4. Cardinality(Waiting(a)') = Cardinality(Waiting(a)) + 1
      BY <1>2, <2>3, FS_AddElement
    <2> QED
      BY <1>2, <1>3, <1>4, <2>4 DEF Admitted
  <1>5. CASE hits' > Limit
    <2>1. Goes(c, "over")
      BY <1>1, <1>5 DEF Count, OverLimit
    <2>2. /\ call'[c] = [pc |-> "over", ago |-> 0]
          /\ \A d \in Calls : d # c => call'[d] = call[d]
      BY <1>1, <2>1, CallTypes
    <2>3. Waiting(a)' = Waiting(a)
      BY <1>3, <2>2 DEF Waiting
    <2> QED
      BY <1>1, <1>2, <1>3, <1>5, <2>3 DEF Admitted
  <1> QED
    BY <1>1, <1>4, <1>5

\* A request that is admitted fits in its window.
LEMMA WindowsAfterCount ==
    ASSUME IInv, NEW c \in Calls, Count(c)
    PROVE  Windows'
  <1> SUFFICES ASSUME NEW a \in Ages
               PROVE  /\ hits' > 0
                      /\ a < age' => Admitted(a)' < Passed'
                      /\ a <= age' => Admitted(a)' <= Passed'
                      /\ Admitted(a)' < Limit + Passed'
    BY CounterTypes, LimitAssumption DEF Windows
  <1> DEFINE more == IF hits' <= Limit THEN 1 ELSE 0
  <1>1. /\ Admitted(a)' = Admitted(a) + more /\ more \in {0, 1}
        /\ Admitted(a) \in Nat /\ Admitted(0) \in Nat
        /\ 0 \in Ages /\ a \in Nat
    BY ScriptAdmits, AdmittedTypes, TtlAssumption DEF IInv, Ages
  <1>2. more = 1 => hits' <= Limit
    OBVIOUS
  <1>3. hits \in Nat /\ hits <= Limit + 1 /\ age \in Nat /\ Limit \in Nat /\ Limit > 0
    BY LimitAssumption, TtlAssumption DEF IInv, TypeOK
  <1> HIDE DEF more
  <1>4. CASE hits = 0
    <2>1. hits' = 1 /\ age' = 0 /\ Passed' = 1
      BY <1>3, <1>4 DEF Count, Passed
    <2>2. Admitted(a) < Limit /\ Admitted(0) = 0
      BY <1>4 DEF IInv, Windows
    <2>3. a <= 0 => a = 0
      BY <1>1
    <2> QED
      BY <1>1, <1>3, <2>1, <2>2, <2>3
  <1>5. CASE hits > 0
    <2>1. hits' > 0 /\ age' = age
      BY <1>3, <1>5 DEF Count
    <2>2. Passed' \in Nat /\ Passed \in Nat /\ Passed' >= Passed + more
      <3>1. CASE hits > Limit
        BY <1>1, <1>2, <1>3, <3>1 DEF Count, Passed
      <3>2. CASE hits <= Limit
        BY <1>1, <1>2, <1>3, <3>2 DEF Count, Passed
      <3> QED
        BY <1>3, <3>1, <3>2
    <2>3. /\ a < age => Admitted(a) < Passed
          /\ a <= age => Admitted(a) <= Passed
          /\ Admitted(a) < Limit + Passed
      BY <1>1, <1>5 DEF IInv, Windows
    <2> QED
      BY <1>1, <1>3, <2>1, <2>2, <2>3
  <1> QED
    BY <1>3, <1>4, <1>5

-----------------------------------------------------------------------------
\* Time

LEMMA OlderTypes ==
    ASSUME NEW k \in Call
    PROVE  /\ Older(k) \in Call /\ Older(k).pc = k.pc
           /\ k.pc = "passed" => Older(k).ago = IF k.ago < Ttl THEN k.ago + 1 ELSE Ttl
  BY TtlAssumption DEF Older, Call

\* A span that ends a tick later holds what the shorter one did.
LEMMA AdmittedLater ==
    ASSUME IInv, Tick, NEW a \in Ages
    PROVE  /\ a = 0 => Admitted(a)' = 0
           /\ a # 0 => a - 1 \in Ages /\ Admitted(a)' = Admitted(a - 1)
  <1>1. \A c \in Calls : /\ call'[c] = Older(call[c])
                         /\ call[c] \in Call
    BY DEF Tick, IInv, TypeOK
  <1>2. \A c \in Calls : /\ call'[c].pc = call[c].pc
                         /\ call[c].ago \in 0 .. Ttl
                         /\ call[c].pc = "passed" =>
                              call'[c].ago = IF call[c].ago < Ttl THEN call[c].ago + 1 ELSE Ttl
    BY <1>1, OlderTypes DEF Call
  <1>3. a \in Nat /\ a < Ttl /\ Ttl \in Nat
    BY TtlAssumption DEF Ages
  <1>4. CASE a = 0
    <2>1. \A c \in Calls : call[c].pc = "passed" => ~(call'[c].ago <= a)
      BY <1>2, <1>3, <1>4
    <2>2. Waiting(a)' = {}
      BY <1>2, <2>1 DEF Waiting
    <2>3. granted'[a] = 0
      BY <1>4 DEF Tick, TickLater
    <2> QED
      BY <1>4, <2>2, <2>3, FS_EmptySet DEF Admitted
  <1>5. CASE a # 0
    <2>1. \A c \in Calls : call[c].pc = "passed" =>
            (call'[c].ago <= a <=> call[c].ago <= a - 1)
      BY <1>2, <1>3, <1>5
    <2>2. Waiting(a)' = Waiting(a - 1)
      BY <1>2, <2>1 DEF Waiting
    <2>3. granted'[a] = granted[a - 1] /\ a - 1 \in Ages
      BY <1>3, <1>5 DEF Tick, TickLater, Ages
    <2> QED
      BY <1>5, <2>2, <2>3 DEF Admitted
  <1> QED
    BY <1>4, <1>5

\* Time moves the spans on; if the counter expires they all begin after its start.
LEMMA WindowsAfterTick == IInv /\ Tick => Windows'
  <1> SUFFICES ASSUME IInv, Tick, NEW a \in Ages
               PROVE  /\ hits' = 0 => Admitted(a)' < Limit /\ Admitted(0)' = 0
                      /\ hits' > 0 =>
                           /\ a < age' => Admitted(a)' < Passed'
                           /\ a <= age' => Admitted(a)' <= Passed'
                           /\ Admitted(a)' < Limit + Passed'
    BY DEF Windows
  <1>1. Admitted(0)' = 0
    BY TtlAssumption, AdmittedLater DEF Ages
  <1>2. CASE a = 0
    <2>1. hits' > 0 => Passed' > 0 /\ Passed' \in Nat
      BY LimitAssumption DEF Tick, Passed, IInv, TypeOK
    <2> QED
      BY <1>1, <1>2, <2>1, LimitAssumption
  <1>3. CASE a # 0
    <2>1. /\ a - 1 \in Ages /\ a \in Nat
          /\ Admitted(a)' = Admitted(a - 1) /\ Admitted(a - 1) \in Nat
      BY <1>3, AdmittedLater, AdmittedTypes, TtlAssumption DEF Ages, IInv
    <2>2. CASE hits = 0
      <3>1. hits' = 0 /\ Admitted(a - 1) < Limit
        BY <2>1, <2>2 DEF Tick, IInv, Windows
      <3> QED
        BY <1>1, <2>1, <3>1
    <2>3. CASE hits > 0
      <3>1. /\ left > 0 /\ left + age = Ttl
            /\ left \in Nat /\ age \in Nat /\ Passed \in Nat /\ Passed <= Limit
            /\ a - 1 < age => Admitted(a - 1) < Passed
            /\ a - 1 <= age => Admitted(a - 1) <= Passed
            /\ Admitted(a - 1) < Limit + Passed
        BY <2>1, <2>3, LimitAssumption, TtlAssumption
        DEF IInv, TypeOK, Windows, LeftAndAge, Passed
      <3>2. CASE left = 1
        <4>1. hits' = 0 /\ a - 1 < age
          BY <3>1, <3>2, TtlAssumption DEF Tick, Ages
        <4> QED
          BY <1>1, <2>1, <3>1, <4>1, LimitAssumption
      <3>3. CASE left # 1
        <4>1. hits' = hits /\ age' = age + 1 /\ Passed' = Passed
          BY <3>1, <3>3, TtlAssumption DEF Tick, Passed
        <4> QED
          BY <2>1, <2>3, <3>1, <4>1
      <3> QED
        BY <3>2, <3>3
    <2> QED
      BY <2>2, <2>3 DEF IInv, TypeOK
  <1> QED
    BY <1>2, <1>3

-----------------------------------------------------------------------------
LEMMA Inductive == IInv /\ [Next]_vars => IInv'
  <1> SUFFICES ASSUME IInv, [Next]_vars PROVE IInv'
    OBVIOUS
  <1>0. TypeOK /\ block \in 0 .. BlockDuration /\ BlockDuration \in 0 .. BlockDuration
    BY BlockDurationAssumption DEF IInv, TypeOK
  <1>1. ASSUME NEW c \in Calls, Count(c) PROVE IInv'
    <2>1. \E pc \in {"passed", "over"} : Goes(c, pc)
      BY <1>1 DEF Count
    <2>2. call' \in [Calls -> Call]
      BY <1>0, <2>1, CallTypes
    <2>3. TypeOK' /\ LeftAndAge'
      BY <1>0, <1>1, <2>2, CounterTypes DEF Count, TypeOK, LeftAndAge
    <2> QED
      BY <1>1, <2>3, WindowsAfterCount DEF IInv
  <1>2. ASSUME NEW c \in Calls,
               Check(c) \/ SendBlock(c) \/ SetBlock(c) \/ Refuse(c) \/ CommandLost(c) \/ AnswerLost(c)
        PROVE  IInv'
    <2>1. \E pc \in {"idle", "counting", "over", "blocking", "blocked"} : Goes(c, pc)
      BY <1>2 DEF Check, SendBlock, SetBlock, Refuse, CommandLost, AnswerLost
    <2>2. UNCHANGED <<hits, left, age, granted>> /\ block' \in 0 .. BlockDuration
      BY <1>0, <1>2 DEF Check, SendBlock, SetBlock, Refuse, CommandLost, AnswerLost
    <2> QED
      BY <2>1, <2>2, CallMoves
  <1>3. ASSUME Tick PROVE IInv'
    <2>1. granted' \in [Ages -> Nat]
      BY <1>0, <1>3, GrantTypes, TtlAssumption DEF Tick
    <2>2. call' \in [Calls -> Call]
      BY <1>0, <1>3, OlderTypes DEF Tick, TypeOK
    <2>3. /\ hits' \in 0 .. Limit + 1
          /\ left' \in 0 .. Ttl
          /\ block' \in 0 .. BlockDuration
          /\ age' \in 0 .. Ttl
      BY <1>0, <1>3, LimitAssumption, TtlAssumption, BlockDurationAssumption
      DEF Tick, Less, TypeOK
    <2>4. LeftAndAge'
      BY <1>3, TtlAssumption DEF Tick, Less, IInv, TypeOK, LeftAndAge
    <2> QED
      BY <1>3, <2>1, <2>2, <2>3, <2>4, WindowsAfterTick DEF IInv, TypeOK
  <1>4. CASE UNCHANGED vars
    <2>1. TypeOK' /\ UNCHANGED <<hits, left, age>>
      BY <1>0, <1>4 DEF vars, TypeOK
    <2>2. \A a \in Ages : Admitted(a)' <= Admitted(a)
      <3>1. ASSUME NEW a \in Ages PROVE Admitted(a)' = Admitted(a) /\ Admitted(a) \in Nat
        BY <1>0, <1>4, <3>1, AdmittedTypes DEF vars, Admitted, Waiting
      <3> QED
        BY <3>1
    <2> QED
      BY <2>1, <2>2, WindowsKept
  <1> QED
    BY <1>1, <1>2, <1>3, <1>4, LetThroughKeeps DEF Next

LEMMA Invariance == Spec => []IInv
  <1>1. Init => TypeOK
    BY LimitAssumption, TtlAssumption, BlockDurationAssumption
    DEF Init, TypeOK, Call, IdleCall
  <1>2. Init => LeftAndAge /\ Windows
    <2> SUFFICES ASSUME Init PROVE LeftAndAge /\ Windows
      OBVIOUS
    <2>1. \A a \in Ages : granted[a] = 0 /\ Waiting(a) = {}
      BY DEF Init, Waiting, IdleCall
    <2>2. \A a \in Ages : Admitted(a) = 0
      BY <2>1, FS_EmptySet DEF Admitted
    <2>3. hits = 0 /\ 0 \in Ages
      BY TtlAssumption DEF Init, Ages
    <2> QED
      BY <2>2, <2>3, LimitAssumption DEF LeftAndAge, Windows
  <1> QED
    BY <1>1, <1>2, Inductive, PTL DEF Spec, IInv

-----------------------------------------------------------------------------
\* The calls, the counter within one of the limit, the times to live and the
\* history of increment() have their types.
THEOREM TypeCorrect == Spec => []TypeOK
  <1>1. IInv => TypeOK
    BY DEF IInv
  <1> QED
    BY <1>1, Invariance, PTL

\* The counter of INCR_WITH_TTL_LUA always has a time to live, and holds a hit for
\* less than Ttl, however calls, repeated commands and expiry interleave.
THEOREM CountsAreRecent == Spec => []CountIsRecent
  <1>1. IInv => CountIsRecent
    BY TtlAssumption DEF IInv, TypeOK, LeftAndAge, CountIsRecent
  <1> QED
    BY <1>1, Invariance, PTL

\* Of the requests counted in any span of Ttl, increment() lets fewer than twice the
\* limit through, however late their answers, however many processes count at once
\* and whatever commands are lost or repeated.
THEOREM LimitHolds == Spec => []LessThanTwiceTheLimit
  <1>1. IInv => LessThanTwiceTheLimit
    <2> SUFFICES ASSUME IInv PROVE granted[Ttl - 1] < 2 * Limit
      BY DEF LessThanTwiceTheLimit
    <2>1. Ttl - 1 \in Ages
      BY TtlAssumption DEF Ages
    <2>2. /\ granted[Ttl - 1] \in Nat /\ Admitted(Ttl - 1) \in Nat
          /\ granted[Ttl - 1] <= Admitted(Ttl - 1)
      BY <2>1, AdmittedTypes DEF IInv
    <2>3. hits \in Nat /\ Passed \in Nat /\ Passed <= Limit
      BY LimitAssumption DEF IInv, TypeOK, Passed
    <2>4. Admitted(Ttl - 1) < Limit \/ Admitted(Ttl - 1) < Limit + Passed
      BY <2>1, <2>3 DEF IInv, Windows
    <2> QED
      BY <2>2, <2>3, <2>4, LimitAssumption
  <1> QED
    BY <1>1, Invariance, PTL
=============================================================================
