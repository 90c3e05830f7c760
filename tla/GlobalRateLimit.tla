--------------------------- MODULE GlobalRateLimit ---------------------------
(***************************************************************************)
(* The database-backed token bucket of weasyl/rate_limits.py.  The row of  *)
(* `global_rate_limits` is the state; take_one is one UPDATE statement and *)
(* so one atomic step, whose success is `rowcount = 1`.  Time is the       *)
(* database's now() truncated to whole seconds, as in the statement.  The  *)
(* class promises its bounds "clock adjustments and event latency aside":  *)
(* the clock here never goes back and a statement takes no time.           *)
(***************************************************************************)
EXTENDS Integers

CONSTANTS
    Capacity,   \* GlobalRateLimit.capacity
    Period,     \* GlobalRateLimit.period, in seconds
    MaxTime     \* bound on the clock, for model checking

\* 0x3fff_ffff, where the statement's arithmetic still fits its SQL types.
Largest == 1073741823

\* __post_init__ refuses every other capacity and period.
ASSUME CapacityAssumption == Capacity \in Nat /\ Capacity <= Largest
ASSUME PeriodAssumption == Period \in Nat \ {0} /\ Period <= Largest
ASSUME MaxTimeAssumption == MaxTime \in Nat

VARIABLES
    now,            \* trunc(extract(epoch from now()))
    available,      \* global_rate_limits.available
    last_update,    \* global_rate_limits.last_update
    opened,         \* observer: the second in which the observed span begins
    events          \* observer: events let through since then

vars == <<now, available, last_update, opened, events>>

Least(a, b) == IF a <= b THEN a ELSE b
Greatest(a, b) == IF a >= b THEN a ELSE b

\* The row starts with the column defaults; the clock is anywhere.
Init ==
    /\ now \in 0..MaxTime
    /\ available = 0
    /\ last_update = 0
    /\ opened = now
    /\ events = 0

-----------------------------------------------------------------------------

TICKS == Greatest(0, now - last_update)

\* Fault: the division rounds up.
NEWLY_AVAILABLE_RoundedUp == (TICKS * Capacity + Period - 1) \div Period

NEWLY_AVAILABLE == (TICKS * Capacity) \div Period

Allowed == available > 0 \/ NEWLY_AVAILABLE > 0

\* Fault: the bucket has no brim.
TakeOneUncapped ==
    /\ Allowed
    /\ available' = available + NEWLY_AVAILABLE - 1
    /\ last_update' = last_update + TICKS
    /\ events' = events + 1
    /\ UNCHANGED <<now, opened>>

\* Fault: the time that was paid out is not written off.
TakeOneKeepingTime ==
    /\ Allowed
    /\ available' = Least(Capacity, available + NEWLY_AVAILABLE) - 1
    /\ events' = events + 1
    /\ UNCHANGED <<now, opened, last_update>>

\* The UPDATE matched the row: one event is let through.
TakeOne ==
    /\ Allowed
    /\ available' = Least(Capacity, available + NEWLY_AVAILABLE) - 1
    /\ last_update' = last_update + TICKS
    /\ events' = events + 1
    /\ UNCHANGED <<now, opened>>

\* rowcount = 0: WeasylError("globalLimit").  The row keeps its last_update,
\* so the fraction of an event accrued so far is not lost.
Refuse ==
    /\ ~ Allowed
    /\ UNCHANGED vars

Tick ==
    /\ now' \in (now + 1)..MaxTime
    /\ UNCHANGED <<available, last_update, opened, events>>

\* The observer may start a new span at any moment, even in the middle of a
\* second in which events have already been let through.
Observe ==
    /\ opened' = now
    /\ events' = 0
    /\ UNCHANGED <<now, available, last_update>>

Next == TakeOne \/ Refuse \/ Tick \/ Observe

Spec == Init /\ [][Next]_vars

-----------------------------------------------------------------------------

\* The row stays within the bucket and never gets ahead of the clock
\* (rate_limits.py, take_one).
TypeOK ==
    /\ now \in Nat
    /\ available \in 0..Capacity
    /\ last_update \in 0..now
    /\ opened \in 0..now
    /\ events \in Nat

\* "No time span of `period` ever contains more than `2 * capacity` events"
\* (rate_limits.py:15), whatever was taken before the span and however the
\* takes are spread in it.
PeriodBound ==
    now - opened <= Period => events <= 2 * Capacity

\* "The average rate of events converges to at most `capacity`/`period`"
\* (rate_limits.py:15): over a span of any length the events exceed that rate
\* by no more than one full bucket, so truncating division never mints any.
AverageRate ==
    events * Period <= Capacity * (Period + now - opened)

\* How full the bucket is at this second, in units of 1/Period of an event:
\* what the row holds and what has accrued since, up to a full bucket.
Level == Least(Capacity * Period,
               available * Period + (now - last_update) * Capacity)

Bucket == INSTANCE TokenBucket WITH level <- Level

\* The row implements the bucket it stands for: take_one lets an event
\* through only when the bucket really holds one, refusing costs nothing, and
\* time alone fills it (rate_limits.py, class GlobalRateLimit).
ImplementsBucket == Bucket!BucketSpec

\* The strengthening of AverageRate that is inductive: what was let through
\* in the span and what the bucket still holds were in the bucket when the
\* span began or have accrued since.
Ledger ==
    events * Period + Level <= Capacity * (Period + now - opened)
=============================================================================
