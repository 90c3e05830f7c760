----------------------------- MODULE TokenBucket -----------------------------
(***************************************************************************)
(* What the class comment of weasyl/rate_limits.py promises, without the   *)
(* row it keeps: a bucket that holds at most Capacity events and fills at  *)
(* Capacity/Period, whose level is counted in units of 1/Period of an      *)
(* event.  A take removes an event or more (the promise bounds the rate    *)
(* from above only), and a take may always be refused.                     *)
(***************************************************************************)
EXTENDS Integers

CONSTANTS Capacity, Period

VARIABLES now, level, opened, events

bucket == <<now, level, opened, events>>

Full == Capacity * Period

Lower(a, b) == IF a <= b THEN a ELSE b

BucketInit ==
    /\ now \in Nat
    /\ level \in 0..Full
    /\ opened = now
    /\ events = 0

Take ==
    /\ level >= Period
    /\ level' \in 0..(level - Period)
    /\ events' = events + 1
    /\ UNCHANGED <<now, opened>>

Fill ==
    /\ now' \in Nat
    /\ now' > now
    /\ level' = Lower(Full, level + (now' - now) * Capacity)
    /\ UNCHANGED <<opened, events>>

Open ==
    /\ opened' = now
    /\ events' = 0
    /\ UNCHANGED <<now, level>>

BucketSpec == BucketInit /\ [][Take \/ Fill \/ Open]_bucket
=============================================================================
