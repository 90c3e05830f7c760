------------------------ MODULE GlobalRateLimitProofs ------------------------
(***************************************************************************)
(* For every capacity and period: the row of global_rate_limits implements *)
(* the token bucket, and so keeps both bounds of the class comment.        *)
(***************************************************************************)
EXTENDS GlobalRateLimit, TLAPS

-----------------------------------------------------------------------------
\* Arithmetic the provers need in small pieces.

\* Multiplication by a natural number is monotonic.
LEMMA ProductMonotone ==
    ASSUME NEW a \in Int, NEW b \in Int, NEW c \in Nat, a <= b
    PROVE  a * c <= b * c
BY SMT

\* Elapsed time is a natural number.
LEMMA Elapsed ==
    ASSUME NEW a \in Nat, NEW b \in Nat, a <= b
    PROVE  b - a \in Nat
OBVIOUS

\* Truncating division never rounds up (NEWLY_AVAILABLE's division).
LEMMA QuotientBound ==
    ASSUME NEW n \in Nat, NEW d \in Nat, d > 0
    PROVE  /\ n \div d \in Nat
           /\ (n \div d) * d <= n
BY SMT

\* What one take does to a bucket with `a` events and `t` seconds accrued: it
\* held one, it still holds no less than none, and at least one is gone.
LEMMA TakeArithmetic ==
    ASSUME NEW C \in Nat, NEW P \in Nat, P > 0,
           NEW a \in 0..C, NEW t \in Nat,
           NEW n, n = (t * C) \div P,
           a > 0 \/ n > 0,
           NEW left, left = Least(C, a + n) - 1
    PROVE  /\ left \in 0..C
           /\ Least(C * P, a * P + t * C) >= P
           /\ Least(C * P, left * P) \in 0..(Least(C * P, a * P + t * C) - P)
<1>1. t * C \in Nat
  BY SMT
<1>2. n \in Nat /\ n * P <= t * C
  BY <1>1, QuotientBound
<1>3. C > 0
  <2>1. CASE a > 0
    BY <2>1
  <2>2. CASE n > 0
    <3>1. 1 * P <= n * P
      BY <1>2, <2>2, ProductMonotone
    <3>2. C # 0
      BY <3>1, <1>2, SMT
    <3> QED BY <3>2
  <2> QED BY <1>2, <2>1, <2>2
<1>4. a + n >= 1
  BY <1>2
<1>5. left \in 0..C /\ left <= C - 1 /\ left <= a + n - 1
  BY <1>2, <1>3, <1>4 DEF Least
<1>6. left * P <= C * P - P
  <2>1. left * P <= (C - 1) * P
    BY <1>5, ProductMonotone
  <2> QED BY <2>1, SMT
<1>7. left * P <= a * P + t * C - P
  <2>1. left * P <= (a + n - 1) * P
    BY <1>2, <1>5, ProductMonotone
  <2>2. (a + n - 1) * P = a * P + n * P - P
    BY <1>2, SMT
  <2>3. a * P \in Int /\ n * P \in Int /\ left * P \in Int
    BY <1>2, <1>5, SMT
  <2> QED BY <1>1, <1>2, <2>1, <2>2, <2>3, SMT
<1>8. left * P \in Nat /\ C * P \in Nat /\ a * P \in Nat
  BY <1>5, SMT
<1>9. Least(C * P, left * P) = left * P
  BY <1>6, <1>8 DEF Least
<1> QED BY <1>1, <1>5, <1>6, <1>7, <1>8, <1>9 DEF Least

-----------------------------------------------------------------------------
\* Type correctness.

\* The row never leaves the bucket's bounds: take_one's least() keeps
\* `available` under the capacity, its WHERE keeps it from going below zero,
\* and `last_update` never passes the clock.
THEOREM TypeCorrect == Spec => []TypeOK
<1>1. Init => TypeOK
  BY CapacityAssumption, MaxTimeAssumption DEF Init, TypeOK
<1>2. TypeOK /\ [Next]_vars => TypeOK'
  <2> SUFFICES ASSUME TypeOK, [Next]_vars
               PROVE  TypeOK'
    OBVIOUS
  <2> USE DEF TypeOK
  <2>1. CASE TakeOne
    <3>1. TICKS = now - last_update /\ TICKS \in Nat
      BY DEF TICKS, Greatest
    <3>2. available' \in 0..Capacity
      <4>1. NEWLY_AVAILABLE = ((now - last_update) * Capacity) \div Period
        BY <3>1 DEF NEWLY_AVAILABLE
      <4>2. /\ available > 0 \/ NEWLY_AVAILABLE > 0
            /\ available' = Least(Capacity, available + NEWLY_AVAILABLE) - 1
        BY <2>1 DEF TakeOne, Allowed
      <4>3. now - last_update \in Nat
        BY Elapsed
      <4>4. Capacity \in Nat /\ Period \in Nat /\ Period > 0
        BY CapacityAssumption, PeriodAssumption
      <4> QED BY <4>1, <4>2, <4>3, <4>4, TakeArithmetic
    <3> QED BY <2>1, <3>1, <3>2 DEF TakeOne
  <2>2. CASE Refuse
    BY <2>2 DEF Refuse, vars
  <2>3. CASE Tick
    BY <2>3, MaxTimeAssumption DEF Tick
  <2>4. CASE Observe
    BY <2>4 DEF Observe
  <2>5. CASE UNCHANGED vars
    BY <2>5 DEF vars
  <2> QED BY <2>1, <2>2, <2>3, <2>4, <2>5 DEF Next
<1> QED BY <1>1, <1>2, PTL DEF Spec

-----------------------------------------------------------------------------
\* The row implements the bucket.

\* The level is the level of a bucket.
LEMMA LevelType ==
    ASSUME TypeOK
    PROVE  Level \in 0..(Capacity * Period) /\ Level \in Nat
<1>1. Capacity \in Nat /\ Period \in Nat
  BY CapacityAssumption, PeriodAssumption
<1>2. available \in Nat /\ now - last_update \in Nat
  BY DEF TypeOK
<1>3. /\ Capacity * Period \in Nat
      /\ available * Period \in Nat
      /\ (now - last_update) * Capacity \in Nat
  BY <1>1, <1>2, SMT
<1> QED BY <1>3 DEF Level, Least

\* take_one lets an event through only when the bucket holds one, and takes
\* at least that one out of it.
LEMMA TakeImplementsTake ==
    ASSUME TypeOK, TakeOne
    PROVE  Level >= Period /\ Level' \in 0..(Level - Period)
<1> USE DEF TypeOK
<1>1. TICKS = now - last_update /\ TICKS \in Nat
  BY DEF TICKS, Greatest
<1>2. last_update' = now /\ now' = now
  BY <1>1 DEF TakeOne
<1>3. (now' - last_update') * Capacity = 0
  BY <1>2, CapacityAssumption, SMT
<1>4. /\ available' = Least(Capacity, available + NEWLY_AVAILABLE) - 1
      /\ available > 0 \/ NEWLY_AVAILABLE > 0
      /\ NEWLY_AVAILABLE = ((now - last_update) * Capacity) \div Period
  BY <1>1 DEF TakeOne, Allowed, NEWLY_AVAILABLE
<1>5. Capacity \in Nat /\ Period \in Nat /\ Period > 0
  BY CapacityAssumption, PeriodAssumption
<1>6. /\ available' \in 0..Capacity
      /\ Level >= Period
      /\ Least(Capacity * Period, available' * Period) \in 0..(Level - Period)
  BY <1>1, <1>4, <1>5, TakeArithmetic DEF Level
<1>7. available' * Period + 0 = available' * Period
  BY <1>5, <1>6, SMT
<1> QED BY <1>3, <1>6, <1>7 DEF Level

\* Time alone fills the bucket, to the brim and no further.
LEMMA TickImplementsFill ==
    ASSUME TypeOK, Tick
    PROVE  Level' = Least(Capacity * Period, Level + (now' - now) * Capacity)
<1> USE DEF TypeOK
<1>1. /\ now' \in Nat /\ now' > now
      /\ available' = available /\ last_update' = last_update
  BY MaxTimeAssumption DEF Tick
<1>2. Capacity \in Nat /\ Period \in Nat
  BY CapacityAssumption, PeriodAssumption
<1> DEFINE gained == (now' - now) * Capacity
           full == Capacity * Period
           held == available * Period
           accrued == (now - last_update) * Capacity
<1>3. (now' - last_update) * Capacity = accrued + gained
  BY <1>1, <1>2, SMT
<1>4. gained \in Nat /\ full \in Nat /\ held \in Nat /\ accrued \in Nat
  <2>1. now' - now \in Nat /\ now - last_update \in Nat /\ available \in Nat
    <3>1. now <= now' /\ last_update <= now
      BY <1>1
    <3>2. now' - now \in Nat
      BY <1>1, <3>1, Elapsed
    <3>3. now - last_update \in Nat
      BY <3>1, Elapsed
    <3>4. available \in Nat
      BY <1>2
    <3> QED BY <3>2, <3>3, <3>4
  <2> QED BY <2>1, <1>2, SMT
<1>5. Level' = Least(full, held + (accrued + gained))
  BY <1>1, <1>3 DEF Level
<1>6. Level = Least(full, held + accrued)
  BY DEF Level
<1> HIDE DEF gained, full, held, accrued
<1>7. Level' = Least(full, Level + gained)
  BY <1>4, <1>5, <1>6 DEF Least
<1> QED BY <1>7 DEF full, gained

\* Every behaviour of the row is a behaviour of the bucket: events are let
\* through only when the bucket holds one, and it fills by time alone, so the
\* statement's truncations and its least() never favour the caller.
THEOREM RowImplementsBucket == Spec => ImplementsBucket
<1>1. Init => Bucket!BucketInit
  <2> SUFFICES ASSUME Init
               PROVE  Bucket!BucketInit
    OBVIOUS
  <2>1. TypeOK
    BY CapacityAssumption, MaxTimeAssumption DEF Init, TypeOK
  <2>2. Level \in 0..(Capacity * Period)
    BY <2>1, LevelType
  <2> QED BY <2>1, <2>2 DEF Init, TypeOK, Bucket!BucketInit, Bucket!Full
<1>2. TypeOK /\ [Next]_vars
        => [Bucket!Take \/ Bucket!Fill \/ Bucket!Open]_(Bucket!bucket)
  <2> SUFFICES ASSUME TypeOK, [Next]_vars
               PROVE  [Bucket!Take \/ Bucket!Fill \/ Bucket!Open]_(Bucket!bucket)
    OBVIOUS
  <2>1. CASE TakeOne
    <3>1. Bucket!Take
      BY <2>1, TakeImplementsTake DEF TakeOne, Bucket!Take
    <3> QED BY <3>1
  <2>2. CASE Refuse
    BY <2>2 DEF Refuse, vars, Bucket!bucket, Level
  <2>3. CASE Tick
    <3>1. Bucket!Fill
      BY <2>3, TickImplementsFill, MaxTimeAssumption
      DEF Tick, TypeOK, Bucket!Fill, Bucket!Full, Bucket!Lower, Least
    <3> QED BY <3>1
  <2>4. CASE Observe
    <3>1. Bucket!Open
      BY <2>4 DEF Observe, Bucket!Open, Level
    <3> QED BY <3>1
  <2>5. CASE UNCHANGED vars
    BY <2>5 DEF vars, Bucket!bucket, Level
  <2> QED BY <2>1, <2>2, <2>3, <2>4, <2>5 DEF Next
<1> QED BY <1>1, <1>2, TypeCorrect, PTL DEF Spec, ImplementsBucket, Bucket!BucketSpec

-----------------------------------------------------------------------------
\* The bounds of the class comment.

\* A take moves one event from the bucket to the events let through.
LEMMA LedgerStep ==
    ASSUME NEW paid \in Int, NEW due \in Int, NEW l \in Int, NEW m \in Int,
           NEW p \in Int, paid + l <= due, m <= l - p
    PROVE  (paid + p) + m <= due
OBVIOUS

\* What was let through in a span and what the bucket still holds never exceed
\* what it held and accrued: the inductive invariant behind both bounds.
THEOREM LedgerHolds == Spec => []Ledger
<1>c. Capacity \in Nat /\ Period \in Nat /\ Period > 0
  BY CapacityAssumption, PeriodAssumption
<1>1. Init => Ledger
  <2> SUFFICES ASSUME Init
               PROVE  Ledger
    OBVIOUS
  <2>1. TypeOK
    BY CapacityAssumption, MaxTimeAssumption DEF Init, TypeOK
  <2>2. Level <= Capacity * Period /\ Level \in Int
    BY <2>1, <1>c, LevelType
  <2>3. Period + now - opened = Period /\ events * Period = 0
    BY <1>c, <2>1 DEF Init, TypeOK
  <2> QED BY <2>2, <2>3 DEF Ledger
<1>2. TypeOK /\ TypeOK' /\ Ledger /\ [Next]_vars => Ledger'
  <2> SUFFICES ASSUME TypeOK, TypeOK', Ledger, [Next]_vars
               PROVE  Ledger'
    OBVIOUS
  <2>l. Level \in Nat /\ Level <= Capacity * Period
    BY <1>c, LevelType
  <2>p. /\ events * Period \in Int
        /\ Capacity * Period \in Int
        /\ Capacity * (Period + now - opened) \in Int
    BY <1>c, SMT DEF TypeOK
  <2>1. CASE TakeOne
    <3>1. Level' \in Int /\ Level' <= Level - Period
      BY <2>1, <1>c, <2>l, TakeImplementsTake
    <3>2. (events + 1) * Period = events * Period + Period
      BY <1>c, SMT DEF TypeOK
    <3>3. events' = events + 1 /\ now' = now /\ opened' = opened
      BY <2>1 DEF TakeOne
    <3>4. events' * Period = events * Period + Period
      BY <3>2, <3>3
    <3> QED BY <1>c, <2>l, <2>p, <3>1, <3>3, <3>4, LedgerStep DEF Ledger
  <2>2. CASE Refuse
    BY <2>2 DEF Refuse, vars, Ledger, Level
  <2>3. CASE Tick
    <3>1. now' \in Nat /\ events' = events /\ opened' = opened /\ now' >= now
      BY <2>3, MaxTimeAssumption DEF Tick, TypeOK
    <3>2. (now' - now) * Capacity \in Nat
      <4>1. now' - now \in Nat
        BY <3>1, Elapsed DEF TypeOK
      <4> QED BY <4>1, <1>c, SMT
    <3>3. Level' <= Level + (now' - now) * Capacity /\ Level' \in Int
      <4>1. Level' = Least(Capacity * Period, Level + (now' - now) * Capacity)
        BY <2>3, TickImplementsFill
      <4> QED BY <4>1, <2>l, <2>p, <3>2 DEF Least
    <3>4. Capacity * (Period + now' - opened)
            = Capacity * (Period + now - opened) + (now' - now) * Capacity
      BY <1>c, <3>1, SMT DEF TypeOK
    <3> QED BY <2>l, <2>p, <3>1, <3>2, <3>3, <3>4 DEF Ledger
  <2>4. CASE Observe
    <3>1. Level' = Level
      BY <2>4 DEF Observe, Level
    <3>2. Period + now' - opened' = Period /\ events' * Period = 0
      BY <1>c, <2>4 DEF Observe, TypeOK
    <3> QED BY <2>l, <2>p, <3>1, <3>2 DEF Ledger
  <2>5. CASE UNCHANGED vars
    BY <2>5 DEF vars, Ledger, Level
  <2> QED BY <2>1, <2>2, <2>3, <2>4, <2>5 DEF Next
<1> QED BY <1>1, <1>2, TypeCorrect, PTL DEF Spec

\* Over a span of any length the events let through exceed capacity/period by
\* at most one full bucket.
THEOREM AverageRateHolds == Spec => []AverageRate
<1>1. TypeOK /\ Ledger => AverageRate
  <2> SUFFICES ASSUME TypeOK, Ledger
               PROVE  AverageRate
    OBVIOUS
  <2>1. Level \in Nat
    BY LevelType
  <2>2. /\ events * Period \in Int
        /\ Capacity * (Period + now - opened) \in Int
    BY CapacityAssumption, PeriodAssumption, SMT DEF TypeOK
  <2> QED BY <2>1, <2>2 DEF Ledger, AverageRate
<1> QED BY <1>1, TypeCorrect, LedgerHolds, PTL

\* No span of `period` contains more than 2 * capacity events.
THEOREM PeriodBoundHolds == Spec => []PeriodBound
<1>1. TypeOK /\ AverageRate => PeriodBound
  <2> SUFFICES ASSUME TypeOK, AverageRate, now - opened <= Period,
                      ~ (events <= 2 * Capacity)
               PROVE  FALSE
    BY DEF PeriodBound
  <2>c. Capacity \in Nat /\ Period \in Nat /\ Period > 0
    BY CapacityAssumption, PeriodAssumption
  <2>1. (Period + now - opened) * Capacity <= (2 * Period) * Capacity
    BY <2>c, ProductMonotone DEF TypeOK
  <2>2. (2 * Capacity + 1) * Period <= events * Period
    BY <2>c, ProductMonotone DEF TypeOK
  <2>3. (2 * Capacity + 1) * Period = (2 * Period) * Capacity + Period
    BY <2>c, SMT
  <2>4. Capacity * (Period + now - opened) = (Period + now - opened) * Capacity
    BY <2>c, SMT DEF TypeOK
  <2>5. /\ events * Period \in Int
        /\ (2 * Period) * Capacity \in Int
        /\ (Period + now - opened) * Capacity \in Int
    BY <2>c, SMT DEF TypeOK
  <2> QED BY <2>c, <2>1, <2>2, <2>3, <2>4, <2>5 DEF AverageRate
<1> QED BY <1>1, TypeCorrect, AverageRateHolds, PTL
=============================================================================
