----------------------------- MODULE MCTimerQueue -----------------------------
(* A one-shot timer, a, and one that repeats, b.                       *)
EXTENDS TimerQueue

CONSTANTS a, b

MCInterval == [t \in Timers |-> IF t = b THEN 2 ELSE 0]
=============================================================================
