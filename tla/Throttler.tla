----------------------------- MODULE Throttler -----------------------------
(***************************************************************************)
(* The rate limit that all API processes share through Redis:              *)
(* RedisThrottlerStorage.increment                                         *)
(* (src/src/common/redis-throttler.storage.ts), for one key, that is one   *)
(* handler and one client.                                                 *)
(*                                                                         *)
(* A call sends up to three commands: is the key blocked, count the        *)
(* request, block the key.  Redis executes each at once; its answer comes  *)
(* later, and only then does the call go on.  The commands and answers of  *)
(* different calls interleave, and the key's two entries expire on their   *)
(* own.  When the connection breaks before an answer, the Redis client of  *)
(* src/src/common/redis-throttler.module.ts sends the command again,       *)
(* executed or not, or gives up; an error refuses the request.             *)
(*                                                                         *)
(* Time is in ticks.  An entry that expires is represented by the ticks    *)
(* that are left to it, 0 if there is none.  The counter saturates above   *)
(* the limit, where it is no longer told apart.                            *)
(***************************************************************************)
EXTENDS Naturals, FiniteSets

CONSTANTS
    Calls,           \* requests of the client in progress at the same time
    Limit,           \* THROTTLE_LIMIT
    Ttl,             \* THROTTLE_TTL_MS, in ticks
    BlockDuration    \* what the guard passes: the ttl, unless configured

ASSUME CallsAssumption == IsFiniteSet(Calls)
ASSUME LimitAssumption == Limit \in Nat \ {0}
ASSUME TtlAssumption == Ttl \in Nat \ {0}
ASSUME BlockDurationAssumption == BlockDuration \in Nat

VARIABLES
    call,      \* where each call is, and the ticks since it was counted
    hits,      \* the counter of throttle:<name>:<key>
    left,      \* the ticks until it expires
    block,     \* the ticks until throttle-block:<name>:<key> expires
    age,       \* history: the ticks since the first of these hits, up to Ttl
    granted    \* history: requests let through that were counted in this tick
               \* or the a before it

vars == <<call, hits, left, block, age, granted>>

Ages == 0 .. Ttl - 1

\* "counting" and "blocking": the command is under way.  "passed", "over" and
\* "blocked": it is executed and its answer is under way.
Call == [pc : {"idle", "counting", "passed", "over", "blocking", "blocked"}, ago : 0 .. Ttl]
IdleCall == [pc |-> "idle", ago |-> 0]

TypeOK ==
    /\ call \in [Calls -> Call]
    /\ hits \in 0 .. Limit + 1
    /\ left \in 0 .. Ttl
    /\ block \in 0 .. BlockDuration
    /\ age \in 0 .. Ttl
    /\ granted \in [Ages -> Nat]

Init ==
    /\ call = [c \in Calls |-> IdleCall]
    /\ hits = 0 /\ left = 0 /\ block = 0 /\ age = 0
    /\ granted = [a \in Ages |-> 0]

-----------------------------------------------------------------------------
\* increment()

\* A request that was counted some ticks ago is let through.
OneMore(ago) == [a \in Ages |-> IF ago <= a THEN granted[a] + 1 ELSE granted[a]]
TickLater == [a \in Ages |-> IF a = 0 THEN 0 ELSE granted[a - 1]]

Goes(c, pc) == call' = [call EXCEPT ![c] = [pc |-> pc, ago |-> 0]]

\* Fault: a blocked key is counted all the same.
PassesAlways == block \in Nat

\* PTTL of the block key: there is none.  A blocked request is refused, which
\* changes nothing, and so is one whose PTTL fails.
Passes == block = 0

Check(c) ==
    /\ call[c].pc = "idle"
    /\ Passes
    /\ Goes(c, "counting")
    /\ UNCHANGED <<hits, left, block, age, granted>>

\* Fault: every hit starts the time to live again.
LeftAfterEachHit == Ttl

LeftAfterHit == IF hits = 0 THEN Ttl ELSE left

OverLimit(n) == n > Limit

\* Redis executes the script: INCR, and PEXPIRE on the first hit.
Count(c) ==
    /\ call[c].pc = "counting"
    /\ hits' = IF hits > Limit THEN hits ELSE hits + 1
    /\ left' = LeftAfterHit
    /\ age' = IF hits = 0 THEN 0 ELSE age
    /\ Goes(c, IF OverLimit(hits') THEN "over" ELSE "passed")
    /\ UNCHANGED <<block, granted>>

\* The answer of the script arrives: the request is let through, ...
LetThrough(c) ==
    /\ call[c].pc = "passed"
    /\ Goes(c, "idle")
    /\ granted' = OneMore(call[c].ago)
    /\ UNCHANGED <<hits, left, block, age>>

\* ... or the key is to be blocked, or the request refused at once.
SendBlock(c) ==
    /\ call[c].pc = "over"
    /\ Goes(c, IF BlockDuration > 0 THEN "blocking" ELSE "idle")
    /\ UNCHANGED <<hits, left, block, age, granted>>

\* Redis executes SET with PX.
SetBlock(c) ==
    /\ call[c].pc = "blocking"
    /\ Goes(c, "blocked")
    /\ block' = BlockDuration
    /\ UNCHANGED <<hits, left, age, granted>>

\* Its answer arrives, and the request is refused.
Refuse(c) ==
    /\ call[c].pc = "blocked"
    /\ Goes(c, "idle")
    /\ UNCHANGED <<hits, left, block, age, granted>>

-----------------------------------------------------------------------------
\* The connection to Redis and the process

\* Fault: an error of Redis lets the request through.
CommandLostOpen(c) ==
    /\ call[c].pc \in {"counting", "blocking"}
    /\ Goes(c, "idle")
    /\ granted' = IF call[c].pc = "counting" THEN OneMore(0) ELSE granted
    /\ UNCHANGED <<hits, left, block, age>>

\* The connection breaks before the command is executed and the client gives up, or
\* the process dies.  Sending the command again changes nothing.
CommandLost(c) ==
    /\ call[c].pc \in {"counting", "blocking"}
    /\ Goes(c, "idle")
    /\ UNCHANGED <<hits, left, block, age, granted>>

\* It breaks after that: nobody learns what the command did, and it may be sent
\* and executed again, as often as the connection breaks.
AnswerLost(c) ==
    /\ \/ call[c].pc \in {"passed", "over"} /\ Goes(c, "counting")
       \/ call[c].pc = "blocked" /\ Goes(c, "blocking")
       \/ call[c].pc \in {"passed", "over", "blocked"} /\ Goes(c, "idle")
    /\ UNCHANGED <<hits, left, block, age, granted>>

Less(n) == IF n > 0 THEN n - 1 ELSE 0

\* Only of a request that may yet be let through it matters when it was counted.
Older(k) ==
    IF k.pc = "passed" THEN [k EXCEPT !.ago = IF @ < Ttl THEN @ + 1 ELSE Ttl] ELSE k

\* A counter that has no time to live never expires.
Tick ==
    /\ left' = Less(left)
    /\ hits' = IF left = 1 THEN 0 ELSE hits
    /\ block' = Less(block)
    /\ age' = IF age < Ttl THEN age + 1 ELSE Ttl
    /\ granted' = TickLater
    /\ call' = [c \in Calls |-> Older(call[c])]

Next ==
    \/ \E c \in Calls :
         \/ Check(c) \/ Count(c) \/ LetThrough(c) \/ SendBlock(c) \/ SetBlock(c) \/ Refuse(c)
         \/ CommandLost(c) \/ AnswerLost(c)
    \/ Tick

Spec == Init /\ [][Next]_vars

\* Time passes, and a connection does not break for ever between the execution of
\* the same call's SET and its answer: the client reconnects.  Nothing is assumed of
\* the client whose requests are counted.
FairSpec == Spec /\ WF_vars(Tick) /\ \A c \in Calls : SF_vars(Refuse(c))

-----------------------------------------------------------------------------
\* The counter counts windows that follow each other, so more than the limit may be
\* counted and let through within the span of one; but never twice the limit,
\* whatever the calls of other processes do in between, however late the answers
\* come and whatever commands are repeated.  What a span sees let through beyond
\* that was counted before it and answered late.
LessThanTwiceTheLimit == granted[Ttl - 1] < 2 * Limit

\* Nobody is refused for requests of long ago: a counter that holds anything has
\* a time to live, and no order of hits, repeated ones included, lets it hold them
\* for longer than Ttl after the first.
CountIsRecent == hits > 0 => left > 0 /\ age < Ttl

\* A key that is blocked is free again one day, also when the client never stops
\* asking: only calls that had passed the check before can prolong the block.
BlockEnds == (block > 0) ~> (block = 0)
=============================================================================
