------------------------------- MODULE Health -------------------------------
(***************************************************************************)
(* The readiness probe of an API process (src/src/health/), beside the     *)
(* workers of RefreshCycle whose record it reads.                          *)
(*                                                                         *)
(* A probe reads the refresh_meta row and the number of tracked locations  *)
(* by two queries that run at the same time, and takes the time when it    *)
(* has both.  Of the number it only matters whether it is 0.               *)
(***************************************************************************)
EXTENDS RefreshCycle, Configuration

CONSTANTS
    StaleAfterTexts,      \* what STALE_AFTER_SECONDS may be set to
    DefaultStaleAfter

\* parseInt returns an integer or NaN.
ASSUME StaleAfterAssumption ==
    \A s \in NonnegativeSettings(StaleAfterTexts, DefaultStaleAfter) : s = NaN \/ s \in Int

VARIABLES
    staleAfter,   \* the setting the process has started with
    probe,        \* the call of getHealth()
    wasOk,        \* history: whether the status was ok at some time of the call
    served,       \* history: when a cycle last refreshed a location or had none
    orderly       \* history: whether sessions and statements have never gone astray

healthVars == <<staleAfter, probe, wasOk, served, orderly>>
allVars == <<vars, healthVars>>

Statuses == {"ok", "degraded", "unavailable"}
NoRead == {}
NewProbe(pc) == [pc |-> pc, read |-> NoRead, success |-> 0, any |-> FALSE]

HealthTypeOK ==
    /\ probe \in [pc : {"none", "reading"} \cup Statuses, read : SUBSET {"meta", "count"},
                  success : Nat, any : BOOLEAN]
    /\ wasOk \in BOOLEAN /\ orderly \in BOOLEAN
    /\ served \in Nat

-----------------------------------------------------------------------------
\* computeStatus(): 'ok' when nothing is tracked or the last success is recent.
\* Nothing is greater than NaN.
Status(any, success, now) ==
    IF any /\ (success = 0 \/ (staleAfter # NaN /\ now - success > staleAfter))
    THEN "degraded" ELSE "ok"

StatusNow == Status(tracked # {}, meta.success, clock)

HealthInit ==
    /\ Init
    /\ staleAfter \in NonnegativeSettings(StaleAfterTexts, DefaultStaleAfter)
    /\ probe = NewProbe("none")
    /\ wasOk = FALSE
    /\ served = 0
    /\ orderly = TRUE

-----------------------------------------------------------------------------
\* getHealth() and ready()

StartProbe ==
    /\ probe.pc # "reading"
    /\ probe' = NewProbe("reading")

ReadMeta ==
    /\ probe.pc = "reading"
    /\ "meta" \notin probe.read
    /\ probe' = [probe EXCEPT !.read = @ \cup {"meta"}, !.success = meta.success]

ReadCount ==
    /\ probe.pc = "reading"
    /\ "count" \notin probe.read
    /\ probe' = [probe EXCEPT !.read = @ \cup {"count"}, !.any = tracked # {}]

\* Fault: what could not be read is taken for healthy.
ReadFailsOpen ==
    /\ probe.pc = "reading"
    /\ probe.read # {"meta", "count"}
    /\ probe' = NewProbe("ok")

\* A query that fails answers the call, whatever the other one does.
ReadFails ==
    /\ probe.pc = "reading"
    /\ probe.read # {"meta", "count"}
    /\ probe' = NewProbe("unavailable")

Answer ==
    /\ probe.pc = "reading"
    /\ probe.read = {"meta", "count"}
    /\ probe' = NewProbe(Status(probe.any, probe.success, clock))

ProbeStep ==
    /\ StartProbe \/ ReadMeta \/ ReadCount \/ ReadFails \/ Answer
    /\ UNCHANGED <<vars, served, orderly>>

-----------------------------------------------------------------------------
\* The workers, and time

\* A cycle that records now has refreshed a location, or there was none to refresh.
Serves(r) ==
    /\ run[r].pc = "pool" /\ run'[r].pc = "recording"
    /\ run[r].pool.ok # {} \/ run[r].pool.items = 0

\* Every run in a cycle holds the lock, every statement has its run waiting for it.
Orderly ==
    /\ \A r \in Runs : InCycle(r) => held[Host[r]] > 0
    /\ \A w \in writes : \E r \in Runs : run[r].pc = "recording" /\ run[r].at = w.at

CycleStep ==
    /\ Next
    /\ served' = IF \E r \in Runs : Serves(r) THEN clock' ELSE served
    /\ orderly' = (orderly /\ Orderly')
    /\ UNCHANGED probe

\* Time passes; it keeps the room for records, too.
Tick ==
    /\ RoomToRecord
    /\ clock' = clock + 1
    /\ UNCHANGED <<run, running, held, tracked, meta, writes, probe, served, orderly>>

HealthNext ==
    /\ UNCHANGED staleAfter
    /\ ProbeStep \/ CycleStep \/ Tick
    /\ wasOk' = (/\ probe'.pc = "reading"
                 /\ (probe.pc = "reading" /\ wasOk) \/ StatusNow' = "ok")

HealthSpec == HealthInit /\ [][HealthNext]_allVars
FairHealthSpec == HealthSpec /\ Fairness

-----------------------------------------------------------------------------
Answers(status) == probe.pc = "reading" /\ probe'.pc = status

\* While something is tracked, 'ok' says that a cycle has refreshed a location (or
\* had none to refresh) no longer ago than STALE_AFTER_SECONDS, in whole seconds,
\* whatever has failed, died or come late; if the setting is NaN, that one ever has.
OkIsEarned ==
    [][Answers("ok") /\ probe.any =>
         /\ served # 0
         /\ staleAfter # NaN => clock - served <= staleAfter]_allVars

\* Two queries that are not synchronised with each other, with the records or with
\* the clock still do not invent health: an 'ok' was the true status at some time of
\* the call.
OkWasTrue == [][Answers("ok") => wasOk]_allVars

\* As long as sessions survive and statements are answered, the leadership lock
\* orders the records of all the workers: lastAttemptAt and lastSuccessAt, taken
\* before the upsert is sent, never go back.
MetaNeverGoesBack ==
    [][orderly => meta'.attempt >= meta.attempt /\ meta'.success >= meta.success]_allVars
=============================================================================
