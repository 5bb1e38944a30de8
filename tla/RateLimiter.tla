----------------------------- MODULE RateLimiter -----------------------------
(***************************************************************************)
(* One service group of one ServiceRateLimiter (rate_limit.py): the state  *)
(* record _ServiceState, the admission gate slot(), and the two ways of    *)
(* postponing the gate, cooldown() and mark_cooldown().                    *)
(*                                                                         *)
(* Tasks are asyncio tasks of one event loop.  An action is what a task    *)
(* does from one suspension point to the next; every await is treated as a *)
(* suspension point, also where its fast path would not suspend.           *)
(*                                                                         *)
(* Time is the integer now (time.monotonic()); today is the calendar date  *)
(* of the quota time zone (datetime.now(tz).date()).  The two clocks are   *)
(* independent and neither steps back.                                     *)
(***************************************************************************)
EXTENDS Integers, Sequences, SequencesExt, FiniteSets

CONSTANTS
  Tasks,      \* asyncio tasks that use the limiter
  Policies,   \* the RateLimitPolicy values callers pass
  Delays,     \* the positive delays passed to cooldown() and mark_cooldown()
  None,       \* Python's None
  Horizon,    \* bound: after this time no new call or free-standing mark
  MaxDay,     \* bound: the last calendar date
  EntryCap    \* bound: calls admitted in one day before no new call comes

Days == 0..MaxDay

(***************************************************************************)
(* RateLimitPolicy: minimum_interval_seconds, daily_budget and             *)
(* max_concurrency.  The configuration admits no budget or concurrency     *)
(* below 1.                                                                *)
(***************************************************************************)
Policy == [interval : Nat, budget : (Nat \ {0}) \cup {None}, limit : Nat \ {0}]

ASSUME RateLimiterAssumption ==
  /\ IsFiniteSet(Tasks)
  /\ Policies \subseteq Policy
  /\ Delays \subseteq Nat \ {0}
  /\ None \notin Nat /\ None \notin Policy /\ None \notin Tasks
  /\ Horizon \in Nat /\ MaxDay \in Nat /\ EntryCap \in Nat

VARIABLES
  now,            \* time.monotonic()
  today,          \* date in the quota time zone
  created,        \* the limiter has a _ServiceState for the group
  policy,         \* state.policy
  lastStarted,    \* state.last_started
  callsToday,     \* state.calls_today
  callDate,       \* state.call_date
  cooldownUntil,  \* state.cooldown_until
  holder,         \* task that keeps state.lock while it sleeps, or None
  lockq,          \* FIFO of tasks waiting for state.lock
  semq,           \* FIFO of tasks waiting for state.semaphore
  permits,        \* value of state.semaphore
  pc,             \* where each task is in slot() or cooldown()
  want,           \* the policy argument of the task's slot()
  served,         \* history: calls admitted on each date
  deadline        \* history: latest cooldown deadline ever recorded

clockVars == <<now, today>>
countVars == <<lastStarted, callsToday, callDate>>
stateVars == <<created, policy, countVars, cooldownUntil>>
taskVars  == <<pc, want>>
ghostVars == <<served, deadline>>
vars == <<clockVars, stateVars, holder, lockq, semq, permits, taskVars, ghostVars>>

(***************************************************************************)
(* Program points of a task.                                               *)
(*   idle     outside the limiter                                          *)
(*   policy   in slot(), waiting for the lock to settle the policy         *)
(*   sem      waiting for a permit                                         *)
(*   gate     has a permit, waiting for the lock to run the admission loop *)
(*   cooling  asleep in the admission loop until the cooldown passes       *)
(*   pacing   asleep in the admission loop until the interval passes       *)
(*   open     admitted, running the body of the slot                       *)
(*   defer    in cooldown(), waiting for the lock                          *)
(***************************************************************************)
Points == {"idle", "policy", "sem", "gate", "cooling", "pacing", "open", "defer"}

At(points) == {t \in Tasks : pc[t] \in points}

LockWaiters   == At({"policy", "gate", "defer"})
Sleepers      == At({"cooling", "pacing"})
Inside        == At({"open"})
PermitHolders == At({"gate", "cooling", "pacing", "open"})

Init ==
  /\ now = 0 /\ today = 0
  /\ created = FALSE /\ policy = None
  /\ lastStarted = None /\ callsToday = 0 /\ callDate = None
  /\ cooldownUntil = None
  /\ holder = None /\ lockq = <<>> /\ semq = <<>> /\ permits = 0
  /\ pc = [t \in Tasks |-> "idle"]
  /\ want = [t \in Tasks |-> None]
  /\ served = [d \in Days |-> 0]
  /\ deadline = 0

-----------------------------------------------------------------------------
(* The asyncio.Lock is FIFO: when it is free, the first in its queue goes. *)
FirstForLock(t) == holder = None /\ lockq # <<>> /\ Head(lockq) = t

GoTo(t, point) == pc' = [pc EXCEPT ![t] = point]

GoIdle(t) == GoTo(t, "idle") /\ want' = [want EXCEPT ![t] = None]

Larger(a, b) == IF a >= b THEN a ELSE b

(* Fault: the new deadline replaces the one in force. *)
SetCooldownOverwriting(d) ==
  /\ cooldownUntil' = now + d
  /\ deadline' = Larger(deadline, now + d)

(* _set_cooldown: the later of the deadline in force and the new one. *)
SetCooldown(d) ==
  /\ cooldownUntil' = Larger(IF cooldownUntil = None THEN 0 ELSE cooldownUntil, now + d)
  /\ deadline' = Larger(deadline, now + d)

(* slot() and cooldown() begin alike: they take the state record, creating *)
(* it if need be, and queue for its lock.                                  *)
Queue(t, point, a) ==
  /\ pc[t] = "idle"
  /\ created' = TRUE
  /\ lockq' = Append(lockq, t)
  /\ GoTo(t, point) /\ want' = [want EXCEPT ![t] = a]
  /\ UNCHANGED <<clockVars, policy, countVars, cooldownUntil, holder, semq,
                 permits, ghostVars>>

Enter(t, p) == Queue(t, "policy", p)

(* Fault: a later caller's policy silently replaces the group's. *)
SettleAnyPolicy(t) ==
  /\ pc[t] = "policy" /\ FirstForLock(t)
  /\ policy' = want[t]
  /\ permits' = IF policy = None THEN want[t].limit ELSE permits
  /\ lockq' = Tail(lockq)
  /\ semq' = Append(semq, t)
  /\ GoTo(t, "sem")
  /\ UNCHANGED <<clockVars, created, countVars, cooldownUntil, holder, want, ghostVars>>

(* slot(), first locked section: the first caller's policy becomes the     *)
(* group's and sizes the semaphore; an equal one goes on to the semaphore. *)
SettlePolicy(t) ==
  /\ pc[t] = "policy" /\ FirstForLock(t)
  /\ \/ policy = None /\ policy' = want[t] /\ permits' = want[t].limit
     \/ policy = want[t] /\ UNCHANGED <<policy, permits>>
  /\ lockq' = Tail(lockq)
  /\ semq' = Append(semq, t)
  /\ GoTo(t, "sem")
  /\ UNCHANGED <<clockVars, created, countVars, cooldownUntil, holder, want, ghostVars>>

(* slot(), first locked section: another policy is refused (ValueError). *)
RefusePolicy(t) ==
  /\ pc[t] = "policy" /\ FirstForLock(t)
  /\ policy \notin {None, want[t]}
  /\ lockq' = Tail(lockq)
  /\ GoIdle(t)
  /\ UNCHANGED <<clockVars, stateVars, holder, semq, permits, ghostVars>>

(* Fault: the permits are not looked at. *)
TakePermitAlways(t) ==
  /\ pc[t] = "sem" /\ semq # <<>> /\ Head(semq) = t
  /\ permits' = permits - 1
  /\ semq' = Tail(semq)
  /\ lockq' = Append(lockq, t)
  /\ GoTo(t, "gate")
  /\ UNCHANGED <<clockVars, stateVars, holder, want, ghostVars>>

(* slot(): `async with semaphore`, then the queue for the lock again. *)
TakePermit(t) ==
  /\ pc[t] = "sem" /\ semq # <<>> /\ Head(semq) = t
  /\ permits > 0 /\ permits' = permits - 1
  /\ semq' = Tail(semq)
  /\ lockq' = Append(lockq, t)
  /\ GoTo(t, "gate")
  /\ UNCHANGED <<clockVars, stateVars, holder, want, ghostVars>>

-----------------------------------------------------------------------------
(* The admission loop of slot().  It runs under the lock, from the moment  *)
(* the lock is obtained and again whenever a sleep returns; a sleep may    *)
(* return early, and the loop then finds the same condition and sleeps on. *)
AtGate(t) ==
  \/ pc[t] = "gate" /\ FirstForLock(t) /\ lockq' = Tail(lockq)
  \/ t \in Sleepers /\ holder = t /\ lockq' = lockq

InCooldown == cooldownUntil # None /\ cooldownUntil > now

(* Fault: the count is never rolled over; the budget is one call too large; *)
(* the interval is one unit too short.                                      *)
CallsWithoutRollover == callsToday

(* _rollover: the count starts again on a date other than the recorded one. *)
CallsAfterRollover == IF callDate = today THEN callsToday ELSE 0

ExhaustedLate(t) == want[t].budget # None /\ CallsAfterRollover > want[t].budget

Exhausted(t) == want[t].budget # None /\ CallsAfterRollover >= want[t].budget

TooSoonEarly(t) == lastStarted # None /\ now - lastStarted + 1 < want[t].interval

TooSoon(t) == lastStarted # None /\ now - lastStarted < want[t].interval

(* The cooldown is in force: sleep through it with the lock held. *)
Cool(t) ==
  /\ AtGate(t) /\ InCooldown
  /\ holder' = t /\ GoTo(t, "cooling")
  /\ UNCHANGED <<clockVars, stateVars, semq, permits, want, ghostVars>>

(* The cooldown is over: it is cleared and the date rolled over. *)
PassCooldown(t) ==
  /\ AtGate(t) /\ ~InCooldown
  /\ cooldownUntil' = None
  /\ callDate' = today

(* The budget of the day is used up: SeoulQuotaError leaves the limiter. *)
Reject(t) ==
  /\ PassCooldown(t) /\ Exhausted(t)
  /\ callsToday' = CallsAfterRollover
  /\ holder' = None /\ permits' = permits + 1
  /\ GoIdle(t)
  /\ UNCHANGED <<clockVars, created, policy, lastStarted, semq, ghostVars>>

(* The last call started too recently: sleep with the lock held. *)
Pace(t) ==
  /\ PassCooldown(t) /\ ~Exhausted(t) /\ TooSoon(t)
  /\ callsToday' = CallsAfterRollover
  /\ holder' = t /\ GoTo(t, "pacing")
  /\ UNCHANGED <<clockVars, created, policy, lastStarted, semq, permits, want, ghostVars>>

(* Admission: the call is timed and counted, the lock released. *)
Start(t) ==
  /\ PassCooldown(t) /\ ~Exhausted(t) /\ ~TooSoon(t)
  /\ callsToday' = CallsAfterRollover + 1
  /\ lastStarted' = now
  /\ holder' = None /\ GoTo(t, "open")
  /\ served' = [served EXCEPT ![today] = @ + 1]
  /\ UNCHANGED <<clockVars, created, policy, semq, permits, want, deadline>>

-----------------------------------------------------------------------------
(* The body ends and gives its permit back.  Before it awaits again the    *)
(* caller may post a cooldown with mark_cooldown(): d is its delay, or     *)
(* None when the response asks for none.                                   *)
Leave(t, d) ==
  /\ pc[t] = "open"
  /\ permits' = permits + 1
  /\ GoIdle(t)
  /\ IF d = None THEN UNCHANGED <<cooldownUntil, deadline>> ELSE SetCooldown(d)
  /\ UNCHANGED <<clockVars, created, policy, countVars, holder, lockq, semq, served>>

(* mark_cooldown() on its own: synchronous, without the lock, and without  *)
(* effect while the group has no state.                                    *)
MarkCooldown(d) ==
  /\ created
  /\ SetCooldown(d)
  /\ UNCHANGED <<clockVars, created, policy, countVars, holder, lockq, semq,
                 permits, taskVars, served>>

(* cooldown(): the same under the lock, which it first has to wait for. *)
(* Its delay matters only once it has the lock.                            *)
Defer(t) == Queue(t, "defer", None)

ApplyCooldown(t, d) ==
  /\ pc[t] = "defer" /\ FirstForLock(t)
  /\ SetCooldown(d)
  /\ lockq' = Tail(lockq)
  /\ GoIdle(t)
  /\ UNCHANGED <<clockVars, created, policy, countVars, holder, semq, permits, served>>

-----------------------------------------------------------------------------
(* CancelledError at the await a task is suspended in: the context         *)
(* managers it has entered unwind, whatever it was counted for stays.      *)
(* Cancellation of the body of a slot is Leave(t, None).                   *)
Without(q, t) == {RemoveAt(q, i) : i \in {j \in 1..Len(q) : q[j] = t}}

(* Fault: a cancelled task stays in the queue of the lock. *)
CancelStayingInLockQueue(t) ==
  /\ t \in LockWaiters
  /\ permits' = IF pc[t] = "gate" THEN permits + 1 ELSE permits
  /\ UNCHANGED <<lockq, holder, semq>>

CancelInLockQueue(t) ==
  /\ t \in LockWaiters
  /\ lockq' \in Without(lockq, t)
  /\ permits' = IF pc[t] = "gate" THEN permits + 1 ELSE permits
  /\ UNCHANGED <<holder, semq>>

CancelInSemaphoreQueue(t) ==
  /\ pc[t] = "sem"
  /\ semq' \in Without(semq, t)
  /\ UNCHANGED <<holder, lockq, permits>>

(* Fault: a cancelled sleeper keeps the lock, or its permit. *)
CancelAsleepKeepingLock(t) ==
  /\ t \in Sleepers
  /\ permits' = permits + 1
  /\ UNCHANGED <<holder, lockq, semq>>

CancelAsleepKeepingPermit(t) ==
  /\ t \in Sleepers
  /\ holder' = None
  /\ UNCHANGED <<permits, lockq, semq>>

CancelAsleep(t) ==
  /\ t \in Sleepers
  /\ holder' = None
  /\ permits' = permits + 1
  /\ UNCHANGED <<lockq, semq>>

Cancel(t) ==
  /\ CancelInLockQueue(t) \/ CancelInSemaphoreQueue(t) \/ CancelAsleep(t)
  /\ GoIdle(t)
  /\ UNCHANGED <<clockVars, stateVars, ghostVars>>

-----------------------------------------------------------------------------
(* The clocks. *)
Tick ==
  /\ now' = now + 1
  /\ UNCHANGED <<today, stateVars, holder, lockq, semq, permits, taskVars, ghostVars>>

NewDay ==
  /\ today < MaxDay
  /\ today' = today + 1
  /\ UNCHANGED <<now, stateVars, holder, lockq, semq, permits, taskVars, ghostVars>>

(* Nothing is going on: the loop may rest here. *)
Rest == (\A t \in Tasks : pc[t] = "idle") /\ UNCHANGED vars

(* What a task does by itself once it is in the limiter. *)
Proceed(t) ==
  \/ SettlePolicy(t) \/ RefusePolicy(t) \/ TakePermit(t)
  \/ Cool(t) \/ Reject(t) \/ Pace(t) \/ Start(t)
  \/ \E d \in Delays : ApplyCooldown(t, d)

Call(t) ==
  \/ \E p \in Policies : Enter(t, p)
  \/ Defer(t)

(* What goes on without anybody asking the limiter for something new. *)
Ongoing ==
  \/ \E t \in Tasks :
       \/ Proceed(t) \/ Cancel(t)
       \/ \E d \in Delays \cup {None} : Leave(t, d)
  \/ NewDay \/ Rest

Ask == (\E t \in Tasks : Call(t)) \/ (\E d \in Delays : MarkCooldown(d))

Step == Ongoing \/ Ask \/ Tick

Behaviour == Init /\ [][Step]_vars

(***************************************************************************)
(* The bounds.  Nothing new is asked after the horizon or once EntryCap    *)
(* calls of the day are admitted; past the horizon time only runs to let a *)
(* pending sleep return, so that whatever was begun is followed to its end.*)
(***************************************************************************)
MayAsk == now < Horizon /\ served[today] < EntryCap

TimerPending == \E t \in Sleepers : InCooldown \/ TooSoon(t)

Next ==
  \/ Ongoing
  \/ MayAsk /\ Ask
  \/ (now < Horizon \/ TimerPending) /\ Tick

(* The event loop runs every ready task, sleeps return, and a body ends    *)
(* because it runs under asyncio.timeout.  Nobody has to call or cancel.   *)
Fairness ==
  /\ WF_vars((now < Horizon \/ TimerPending) /\ Tick)
  /\ \A t \in Tasks : WF_vars(Proceed(t)) /\ WF_vars(Leave(t, None))

Spec == Init /\ [][Next]_vars /\ Fairness

-----------------------------------------------------------------------------
(***************************************************************************)
(* Properties                                                              *)
(***************************************************************************)

(* Every variable holds a value of the kind the program stores in it. *)
TypeOK ==
  /\ now \in Nat /\ today \in Days
  /\ created \in BOOLEAN
  /\ policy \in Policies \cup {None}
  /\ lastStarted \in Nat \cup {None}
  /\ callsToday \in Nat /\ callDate \in Days \cup {None}
  /\ cooldownUntil \in Nat \cup {None}
  /\ holder \in Tasks \cup {None}
  /\ lockq \in Seq(Tasks) /\ semq \in Seq(Tasks) /\ permits \in Nat
  /\ pc \in [Tasks -> Points]
  /\ want \in [Tasks -> Policies \cup {None}]
  /\ \A t \in Tasks : want[t] = None <=> pc[t] \in {"idle", "defer"}
  /\ served \in [Days -> Nat] /\ deadline \in Nat

(* No permit of the semaphore is lost or made up, whichever way a task     *)
(* leaves slot(): the free permits and the tasks past the semaphore always *)
(* add up to max_concurrency.                                              *)
PermitsConserved ==
  permits + Cardinality(PermitHolders) = IF policy = None THEN 0 ELSE policy.limit

(* The lock has one owner at a time: exactly the sleeping task holds it,   *)
(* and every task that waits, waits once and in one queue.  A task left in *)
(* a queue, or a lock kept by a task that is gone, would block the group.  *)
QueueDiscipline ==
  /\ Sleepers = {holder} \ {None}
  /\ IsInjective(lockq) /\ IsInjective(semq)
  /\ ToSet(lockq) = LockWaiters
  /\ ToSet(semq) = At({"sem"})

(* Never more calls on a date than daily_budget, although a task may be    *)
(* counted after sleeps that last beyond midnight and while others wait.   *)
DailyBudgetHeld ==
  policy # None /\ policy.budget # None => \A d \in Days : served[d] <= policy.budget

(* What the fields of _ServiceState stand for, the inductive invariant      *)
(* behind the budget and the cooldown.                                     *)
(*   CountsAgree  nothing is counted before a policy is settled, and       *)
(*                calls_today is the number of calls admitted on call_date *)
(*   DeadlineKept a recorded cooldown is the latest of all recorded, and a *)
(*                cleared one is over                                      *)
(*   PolicyKept   whoever is past the first locked section runs under the  *)
(*                policy of the group                                      *)
CountsAgree ==
  /\ policy = None => callDate = None
  /\ callDate = None => \A d \in Days : served[d] = 0
  /\ callDate # None => /\ callDate <= today
                        /\ served[callDate] = callsToday
                        /\ \A d \in Days : d > callDate => served[d] = 0

DeadlineKept ==
  IF cooldownUntil = None THEN deadline <= now ELSE cooldownUntil = deadline

PolicyKept ==
  \A t \in At({"sem"}) \cup PermitHolders : want[t] = policy

LimiterInvariant ==
  /\ TypeOK
  /\ PermitsConserved
  /\ CountsAgree
  /\ DeadlineKept
  /\ PolicyKept
  /\ DailyBudgetHeld

(* No call starts before the latest deadline that was ever recorded for    *)
(* the group, also one recorded while the task was already asleep in the   *)
(* admission loop: no deadline is overwritten or cleared too early.        *)
NoStartInCooldown == [][served' # served => deadline <= now]_vars

(* SeoulQuotaError is raised only on a date whose budget was really spent  *)
(* on that date.                                                           *)
NoFalseRefusal ==
  [][\A t \in Tasks : Reject(t) => served[today] >= policy.budget]_vars

(* Every task that enters slot() or cooldown() gets through it or out of   *)
(* it: no deadlock between the lock and the semaphore, no lost wake-up and *)
(* no endless sleep.                                                       *)
EveryCallerSettles ==
  \A t \in Tasks : pc[t] \notin {"idle", "open"} ~> pc[t] \in {"idle", "open"}

(* What the limiter promises its callers, QuotaContract, with the tasks in *)
(* the body of a slot as the calls inside.                                 *)
Contract == INSTANCE QuotaContract WITH inside <- Cardinality(Inside)

ImplementsContract == Contract!Spec
=============================================================================
