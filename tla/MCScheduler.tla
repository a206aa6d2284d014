---------------------------- MODULE MCScheduler -----------------------------
(* An instance of Scheduler for TLC: reads poll less often than writes.    *)
EXTENDS Scheduler

CONSTANTS read, write

Intervals == [a \in AIs |-> IF a = read THEN 2 ELSE 1]
=============================================================================
