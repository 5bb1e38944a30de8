--------------------------- MODULE MCRateLimiter ---------------------------
(***************************************************************************)
(* RateLimiter on small instances.  One client is configured for budget    *)
(* and interval; a second one with another concurrency shares the group.   *)
(***************************************************************************)
EXTENDS RateLimiter, TLC

CONSTANTS t1, t2, t3

ThreeTasks == {t1, t2, t3}
TwoTasks   == {t1, t2}

Paced  == [interval |-> 2, budget |-> 2, limit |-> 2]
Serial == [interval |-> 1, budget |-> None, limit |-> 1]

OnePolicy   == {Paced}
TwoPolicies == {Paced, Serial}

ShortAndLong == {1, 2}
OneDelay     == {2}

TasksAlike == Permutations(ThreeTasks)
=============================================================================
