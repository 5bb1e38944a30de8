---------------------------- MODULE QuotaContract ----------------------------
(***************************************************************************)
(* What a ServiceRateLimiter promises for one service group, without its   *)
(* locks, queues and sleeps: a call is let in only when the concurrency,   *)
(* the cooldown, the minimum interval and the budget of the day allow it   *)
(* at that very moment.  The first policy used is the policy for good.     *)
(***************************************************************************)
EXTENDS Integers

CONSTANTS Policies, Delays, None, MaxDay

VARIABLES
  now, today,    \* the two clocks
  policy,        \* the policy of the group, None before the first call
  lastStarted,   \* when the last call was let in
  served,        \* calls let in on each date
  deadline,      \* no call before this time
  inside         \* number of calls let in that have not ended

vars == <<now, today, policy, lastStarted, served, deadline, inside>>

Init ==
  /\ now = 0 /\ today = 0
  /\ policy = None /\ lastStarted = None
  /\ served = [d \in 0..MaxDay |-> 0]
  /\ deadline = 0 /\ inside = 0

PassTime ==
  /\ now' = now + 1
  /\ UNCHANGED <<today, policy, lastStarted, served, deadline, inside>>

NextDate ==
  /\ today < MaxDay /\ today' = today + 1
  /\ UNCHANGED <<now, policy, lastStarted, served, deadline, inside>>

Adopt(p) ==
  /\ policy = None /\ policy' = p
  /\ UNCHANGED <<now, today, lastStarted, served, deadline, inside>>

(* A cooldown never brings the deadline forward. *)
Postponed(d) == deadline' = IF deadline >= now + d THEN deadline ELSE now + d

Postpone(d) ==
  /\ Postponed(d)
  /\ UNCHANGED <<now, today, policy, lastStarted, served, inside>>

Admit ==
  /\ policy # None
  /\ inside < policy.limit
  /\ deadline <= now
  /\ lastStarted # None => now - lastStarted >= policy.interval
  /\ policy.budget # None => served[today] < policy.budget
  /\ inside' = inside + 1
  /\ lastStarted' = now
  /\ served' = [served EXCEPT ![today] = @ + 1]
  /\ UNCHANGED <<now, today, policy, deadline>>

(* A call ends, and its outcome may ask for a cooldown in the same step, so *)
(* that the place it frees is not taken before the cooldown is in force.    *)
Release ==
  /\ inside > 0 /\ inside' = inside - 1
  /\ deadline' = deadline \/ \E d \in Delays : Postponed(d)
  /\ UNCHANGED <<now, today, policy, lastStarted, served>>

Next ==
  \/ PassTime \/ NextDate
  \/ \E p \in Policies : Adopt(p)
  \/ \E d \in Delays : Postpone(d)
  \/ Admit \/ Release

Spec == Init /\ [][Next]_vars
=============================================================================
