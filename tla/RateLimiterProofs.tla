-------------------------- MODULE RateLimiterProofs --------------------------
(***************************************************************************)
(* Proofs about RateLimiter for any tasks, policies and delays, any budget *)
(* and interval, and without the bounds.  LimiterInvariant is inductive;   *)
(* its conjuncts are shown to be preserved one after the other, each       *)
(* action of Step being one step.                                          *)
(***************************************************************************)
EXTENDS RateLimiter, FiniteSetTheorems, SequenceTheorems, TLAPS

(* A task that is cancelled leaves a queue that is still one of tasks. *)
LEMMA WithoutType ==
  ASSUME NEW q \in Seq(Tasks), NEW t \in Tasks, NEW r \in Without(q, t)
  PROVE  r \in Seq(Tasks)
<1>1. PICK i \in 1..Len(q) : r = RemoveAt(q, i)
  BY DEF Without
<1>2. i \in Int /\ Len(q) \in Nat
  BY LenProperties
<1>3. \A j \in 1..Len(q) : q[j] \in Tasks
  BY ElementOfSeq
<1>4. SubSeq(q, 1, i-1) \in Seq(Tasks)
  <2>1. \A j \in 1..(i-1) : q[j] \in Tasks
    BY <1>2, <1>3
  <2> QED BY <1>2, <2>1, SubSeqProperties
<1>5. SubSeq(q, i+1, Len(q)) \in Seq(Tasks)
  <2>1. \A j \in (i+1)..Len(q) : q[j] \in Tasks
    BY <1>2, <1>3
  <2> QED BY <1>2, <2>1, SubSeqProperties
<1> QED BY <1>1, <1>4, <1>5, ConcatProperties DEF RemoveAt

-----------------------------------------------------------------------------
(* Typing *)

(* The limiter starts with well typed variables. *)
LEMMA TypeInit == Init => TypeOK
BY RateLimiterAssumption, EmptySeq DEF Init, TypeOK, Days, Points

(* Appending to a queue and taking its head, as every handler does. *)
LEMMA QueueTyping ==
  ASSUME NEW q \in Seq(Tasks)
  PROVE  /\ \A t \in Tasks : Append(q, t) \in Seq(Tasks)
         /\ q # <<>> => Tail(q) \in Seq(Tasks)
BY HeadTailProperties, AppendProperties

(* _set_cooldown stores a time. *)
LEMMA SetCooldownType ==
  ASSUME TypeOK, NEW d \in Delays, SetCooldown(d)
  PROVE  cooldownUntil' \in Nat /\ deadline' \in Nat
BY RateLimiterAssumption DEF TypeOK, SetCooldown, Larger

(* Every step stores well typed values. *)
LEMMA TypeStep == TypeOK /\ [Step]_vars => TypeOK'
<1> SUFFICES ASSUME TypeOK, [Step]_vars PROVE TypeOK'
  OBVIOUS
<1> USE RateLimiterAssumption DEF TypeOK, GoTo, GoIdle, clockVars, countVars,
        stateVars, taskVars, ghostVars, Points
<1>1. ASSUME NEW t \in Tasks, NEW p \in Policies, Enter(t, p) PROVE TypeOK'
  BY <1>1, QueueTyping DEF Enter, Queue
<1>2. ASSUME NEW t \in Tasks, Defer(t) PROVE TypeOK'
  BY <1>2, QueueTyping DEF Defer, Queue
<1>3. ASSUME NEW t \in Tasks, SettlePolicy(t) PROVE TypeOK'
  BY <1>3, QueueTyping DEF SettlePolicy, FirstForLock, Policy
<1>4. ASSUME NEW t \in Tasks, RefusePolicy(t) PROVE TypeOK'
  BY <1>4, QueueTyping DEF RefusePolicy, FirstForLock
<1>5. ASSUME NEW t \in Tasks, TakePermit(t) PROVE TypeOK'
  BY <1>5, QueueTyping DEF TakePermit
<1>6. ASSUME NEW t \in Tasks, AtGate(t) PROVE lockq' \in Seq(Tasks)
  BY <1>6, QueueTyping DEF AtGate, FirstForLock
<1>7. ASSUME NEW t \in Tasks, AtGate(t) PROVE pc[t] \in {"gate", "cooling", "pacing"}
  BY <1>7 DEF AtGate, Sleepers, At
<1>8. CallsAfterRollover \in Nat
  BY DEF CallsAfterRollover
<1>9. ASSUME NEW t \in Tasks, Cool(t) PROVE TypeOK'
  BY <1>6, <1>7, <1>9 DEF Cool
<1>10. ASSUME NEW t \in Tasks, Reject(t) PROVE TypeOK'
  BY <1>6, <1>7, <1>8, <1>10 DEF Reject, PassCooldown
<1>11. ASSUME NEW t \in Tasks, Pace(t) PROVE TypeOK'
  BY <1>6, <1>7, <1>8, <1>11 DEF Pace, PassCooldown
<1>12. ASSUME NEW t \in Tasks, Start(t) PROVE TypeOK'
  <2>1. AtGate(t) /\ t \in Tasks /\ today \in Days
    BY <1>12 DEF Start, PassCooldown
  <2>2. /\ pc' \in [Tasks -> Points] /\ want' \in [Tasks -> Policies \cup {None}]
        /\ \A u \in Tasks : want'[u] = None <=> pc'[u] \in {"idle", "defer"}
    BY <1>7, <1>12, <2>1 DEF Start
  <2>3. served' \in [Days -> Nat]
    BY <1>12, <2>1 DEF Start
  <2>4. /\ callsToday' \in Nat /\ callDate' \in Days \cup {None}
        /\ lastStarted' \in Nat \cup {None} /\ cooldownUntil' \in Nat \cup {None}
        /\ holder' \in Tasks \cup {None}
    BY <1>8, <1>12, <2>1 DEF Start, PassCooldown
  <2>5. UNCHANGED <<now, today, created, policy, semq, permits, deadline>>
    BY <1>12 DEF Start
  <2> QED BY <1>6, <2>1, <2>2, <2>3, <2>4, <2>5
<1>13. ASSUME NEW t \in Tasks, NEW d \in Delays, ApplyCooldown(t, d) PROVE TypeOK'
  BY <1>13, QueueTyping, SetCooldownType DEF ApplyCooldown, FirstForLock
<1>14. ASSUME NEW t \in Tasks, NEW d \in Delays \cup {None}, Leave(t, d) PROVE TypeOK'
  BY <1>14, SetCooldownType DEF Leave
<1>15. ASSUME NEW d \in Delays, MarkCooldown(d) PROVE TypeOK'
  BY <1>15, SetCooldownType DEF MarkCooldown
<1>16. ASSUME NEW t \in Tasks, Cancel(t) PROVE TypeOK'
  BY <1>16, WithoutType
  DEF Cancel, CancelInLockQueue, CancelInSemaphoreQueue, CancelAsleep
<1>17. CASE Tick
  BY <1>17 DEF Tick
<1>18. CASE NewDay
  BY <1>18 DEF NewDay, Days
<1>19. CASE UNCHANGED vars
  BY <1>19 DEF vars
<1> QED
  BY <1>1, <1>2, <1>3, <1>4, <1>5, <1>9, <1>10, <1>11, <1>12, <1>13, <1>14,
     <1>15, <1>16, <1>17, <1>18, <1>19
  DEF Step, Ongoing, Ask, Call, Proceed, Rest

(* The variables of the limiter always hold what the program stores there. *)
THEOREM TypeCorrect == Behaviour => []TypeOK
BY TypeInit, TypeStep, PTL DEF Behaviour

-----------------------------------------------------------------------------
(* Permits *)

(* The tasks that hold a permit can be counted. *)
LEMMA HoldersFinite ==
  /\ IsFiniteSet(PermitHolders)
  /\ Cardinality(PermitHolders) \in Nat
<1>1. PermitHolders \subseteq Tasks
  BY DEF PermitHolders, At
<1> QED BY <1>1, FS_Subset, FS_CardinalityType, RateLimiterAssumption

(* A task that passes the semaphore joins the holders, one that goes idle  *)
(* leaves them, any other move keeps them as they are.                     *)
LEMMA HoldersMove ==
  ASSUME TypeOK, NEW t \in Tasks, NEW point \in Points, GoTo(t, point)
  PROVE  PermitHolders' = IF point \in {"gate", "cooling", "pacing", "open"}
                            THEN PermitHolders \cup {t}
                            ELSE PermitHolders \ {t}
BY DEF TypeOK, GoTo, PermitHolders, At

(* At the start all permits are free. *)
LEMMA PermitsInit == Init => PermitsConserved
<1> SUFFICES ASSUME Init PROVE PermitsConserved
  OBVIOUS
<1>1. PermitHolders = {}
  BY DEF Init, PermitHolders, At
<1> QED BY <1>1, FS_EmptySet DEF Init, PermitsConserved

(* Every step that moves a task in or out of the holders moves a permit. *)
LEMMA PermitsStep ==
  TypeOK /\ PermitsConserved /\ [Step]_vars => PermitsConserved'
<1> SUFFICES ASSUME TypeOK, PermitsConserved, [Step]_vars
             PROVE  PermitsConserved'
  OBVIOUS
<1> DEFINE Held == Cardinality(PermitHolders)
<1>1. Held \in Nat /\ permits \in Nat /\ (policy # None => policy.limit \in Nat)
  BY HoldersFinite, RateLimiterAssumption DEF TypeOK, Policy
<1>2. permits + Held = IF policy = None THEN 0 ELSE policy.limit
  BY DEF PermitsConserved
<1>3. /\ "idle" \in Points /\ "policy" \in Points /\ "sem" \in Points
      /\ "gate" \in Points /\ "cooling" \in Points /\ "pacing" \in Points
      /\ "open" \in Points /\ "defer" \in Points
  BY DEF Points
(* The three ways the holders can change, and what is then asked of permits. *)
<1>4. ASSUME PermitHolders' = PermitHolders, permits' = permits, policy' = policy
      PROVE  PermitsConserved'
  BY <1>2, <1>4 DEF PermitsConserved
<1>5. ASSUME NEW t \in PermitHolders, PermitHolders' = PermitHolders \ {t},
             permits' = permits + 1, policy' = policy
      PROVE  PermitsConserved'
  <2>1. Cardinality(PermitHolders') = Held - 1
    BY <1>5, HoldersFinite, FS_RemoveElement
  <2> QED BY <1>1, <1>2, <1>5, <2>1 DEF PermitsConserved
<1>6. ASSUME NEW t, t \notin PermitHolders, PermitHolders' = PermitHolders \cup {t},
             permits > 0, permits' = permits - 1, policy' = policy
      PROVE  PermitsConserved'
  <2>1. Cardinality(PermitHolders') = Held + 1
    BY <1>6, HoldersFinite, FS_AddElement
  <2> QED BY <1>1, <1>2, <1>6, <2>1 DEF PermitsConserved
<1>7. ASSUME NEW t \in Tasks, NEW point \in {"policy", "defer"}, NEW p, Queue(t, point, p)
      PROVE  PermitsConserved'
  <2>1. PermitHolders' = PermitHolders
    BY <1>3, <1>7, HoldersMove DEF Queue, PermitHolders, At
  <2> QED BY <1>4, <1>7, <2>1 DEF Queue, stateVars
<1>8. ASSUME NEW t \in Tasks, SettlePolicy(t) PROVE PermitsConserved'
  <2>1. PermitHolders' = PermitHolders
    BY <1>3, <1>8, HoldersMove DEF SettlePolicy, PermitHolders, At
  <2>2. CASE policy = None
    <3>1. want[t] \in Policies /\ want[t] # None
      BY <1>8, RateLimiterAssumption DEF SettlePolicy, TypeOK
    <3>2. Held = 0 /\ permits = 0
      BY <1>1, <1>2, <2>2
    <3>3. policy' = want[t] /\ permits' = want[t].limit /\ permits' \in Nat
      BY <1>8, <2>2, <3>1, RateLimiterAssumption DEF SettlePolicy, Policy
    <3> QED BY <2>1, <3>1, <3>2, <3>3 DEF PermitsConserved
  <2>3. CASE policy # None
    BY <1>4, <1>8, <2>1, <2>3 DEF SettlePolicy
  <2> QED BY <2>2, <2>3
<1>9. ASSUME NEW t \in Tasks, RefusePolicy(t) PROVE PermitsConserved'
  <2>1. PermitHolders' = PermitHolders
    BY <1>3, <1>9, HoldersMove DEF RefusePolicy, GoIdle, PermitHolders, At
  <2> QED BY <1>4, <1>9, <2>1 DEF RefusePolicy, stateVars
<1>10. ASSUME NEW t \in Tasks, TakePermit(t) PROVE PermitsConserved'
  <2>1. t \notin PermitHolders
    BY <1>10 DEF TakePermit, PermitHolders, At
  <2>2. PermitHolders' = PermitHolders \cup {t}
    BY <1>3, <1>10, HoldersMove DEF TakePermit
  <2> QED BY <1>6, <1>10, <2>1, <2>2 DEF TakePermit, stateVars
<1>11. ASSUME NEW t \in Tasks, AtGate(t) PROVE t \in PermitHolders
  BY <1>11 DEF AtGate, Sleepers, PermitHolders, At
<1>12. ASSUME NEW t \in Tasks, Cool(t) \/ Pace(t) \/ Start(t) PROVE PermitsConserved'
  <2>1. t \in PermitHolders
    BY <1>11, <1>12 DEF Cool, Pace, Start, PassCooldown
  <2>2. PermitHolders' = PermitHolders
    BY <1>3, <1>12, <2>1, HoldersMove DEF Cool, Pace, Start
  <2> QED BY <1>4, <1>12, <2>2 DEF Cool, Pace, Start, stateVars
<1>13. ASSUME NEW t \in Tasks, Reject(t) PROVE PermitsConserved'
  <2>1. t \in PermitHolders
    BY <1>11, <1>13 DEF Reject, PassCooldown
  <2>2. PermitHolders' = PermitHolders \ {t}
    BY <1>3, <1>13, HoldersMove DEF Reject, GoIdle
  <2> QED BY <1>5, <1>13, <2>1, <2>2 DEF Reject
<1>14. ASSUME NEW t \in Tasks, NEW d, Leave(t, d) PROVE PermitsConserved'
  <2>1. t \in PermitHolders
    BY <1>14 DEF Leave, PermitHolders, At
  <2>2. PermitHolders' = PermitHolders \ {t}
    BY <1>3, <1>14, HoldersMove DEF Leave, GoIdle
  <2> QED BY <1>5, <1>14, <2>1, <2>2 DEF Leave
<1>15. ASSUME NEW t \in Tasks, NEW d, ApplyCooldown(t, d) PROVE PermitsConserved'
  <2>1. PermitHolders' = PermitHolders
    BY <1>3, <1>15, HoldersMove DEF ApplyCooldown, GoIdle, PermitHolders, At
  <2> QED BY <1>4, <1>15, <2>1 DEF ApplyCooldown
<1>16. ASSUME NEW t \in Tasks, Cancel(t) PROVE PermitsConserved'
  <2>1. PermitHolders' = PermitHolders \ {t} /\ policy' = policy
    BY <1>3, <1>16, HoldersMove DEF Cancel, GoIdle, stateVars
  <2>2. CASE t \in PermitHolders
    <3>1. permits' = permits + 1
      BY <1>16, <2>2 DEF Cancel, CancelInLockQueue, CancelInSemaphoreQueue,
                        CancelAsleep, LockWaiters, Sleepers, PermitHolders, At
    <3> QED BY <1>5, <2>1, <2>2, <3>1
  <2>3. CASE t \notin PermitHolders
    <3>1. permits' = permits
      BY <1>16, <2>3 DEF Cancel, CancelInLockQueue, CancelInSemaphoreQueue,
                        CancelAsleep, LockWaiters, Sleepers, PermitHolders, At
    <3>2. PermitHolders' = PermitHolders
      BY <2>1, <2>3
    <3> QED BY <1>4, <2>1, <3>1, <3>2
  <2> QED BY <2>2, <2>3
<1>17. ASSUME UNCHANGED <<pc, permits, policy>> PROVE PermitsConserved'
  BY <1>4, <1>17 DEF PermitHolders, At
<1> QED
  BY <1>7, <1>8, <1>9, <1>10, <1>12, <1>13, <1>14, <1>15, <1>16, <1>17
  DEF Step, Ongoing, Ask, Call, Proceed, Enter, Defer, MarkCooldown, Tick, NewDay, Rest, vars,
      stateVars, taskVars

-----------------------------------------------------------------------------
(* Policy, counts, deadline and budget *)

(* Who is past the lock runs under the policy of the group. *)
LEMMA PolicyStep == TypeOK /\ PolicyKept /\ [Step]_vars => PolicyKept'
<1> SUFFICES ASSUME TypeOK, PolicyKept, [Step]_vars PROVE PolicyKept'
  OBVIOUS
<1> USE DEF PolicyKept, PermitHolders, Sleepers, At, GoTo, GoIdle, stateVars, taskVars
<1>1. \A t \in Tasks : pc[t] \notin {"idle", "defer"} => want[t] \in Policies /\ want[t] # None
  BY RateLimiterAssumption DEF TypeOK
<1>2. pc = [t \in Tasks |-> pc[t]] /\ want = [t \in Tasks |-> want[t]]
  BY DEF TypeOK
<1>3. ASSUME NEW t \in Tasks, NEW point \in {"policy", "defer"}, NEW p, Queue(t, point, p)
      PROVE  PolicyKept'
  BY <1>2, <1>3 DEF Queue
<1>4. ASSUME NEW t \in Tasks, SettlePolicy(t) PROVE PolicyKept'
  BY <1>1, <1>2, <1>4 DEF SettlePolicy
<1>5. ASSUME NEW t \in Tasks, RefusePolicy(t) PROVE PolicyKept'
  BY <1>2, <1>5 DEF RefusePolicy
<1>6. ASSUME NEW t \in Tasks, TakePermit(t) PROVE PolicyKept'
  BY <1>2, <1>6 DEF TakePermit
<1>7. ASSUME NEW t \in Tasks, Cool(t) \/ Pace(t) \/ Start(t) PROVE PolicyKept'
  BY <1>2, <1>7 DEF Cool, Pace, Start, PassCooldown, AtGate
<1>8. ASSUME NEW t \in Tasks, NEW d, Reject(t) \/ Leave(t, d) \/ ApplyCooldown(t, d) \/ Cancel(t)
      PROVE  PolicyKept'
  BY <1>2, <1>8 DEF Reject, Leave, ApplyCooldown, Cancel
<1>9. ASSUME UNCHANGED <<pc, want, policy>> PROVE PolicyKept'
  BY <1>9
<1> QED
  BY <1>3, <1>4, <1>5, <1>6, <1>7, <1>8, <1>9
  DEF Step, Ongoing, Ask, Call, Proceed, Enter, Defer, MarkCooldown, Tick, NewDay, Rest, vars

(* After _rollover the counter is the number of calls admitted today. *)
LEMMA RolloverCounts == TypeOK /\ CountsAgree => CallsAfterRollover = served[today]
BY RateLimiterAssumption DEF TypeOK, CountsAgree, CallsAfterRollover, Days

(* Only the gate touches the counts, and only the two clocks the time.     *)
LEMMA CountsUnchanged ==
  ASSUME [Step]_vars, \A t \in Tasks : ~Reject(t) /\ ~Pace(t) /\ ~Start(t)
  PROVE  UNCHANGED <<lastStarted, callsToday, callDate, served>>
BY DEF Step, Ongoing, Ask, Call, Proceed, Enter, Defer, Queue, SettlePolicy, RefusePolicy, TakePermit,
       Cool, ApplyCooldown, Leave, MarkCooldown, Cancel, Tick, NewDay, Rest, vars,
       stateVars, countVars, ghostVars

(* Only the two clock steps move the clocks. *)
LEMMA ClocksUnchanged == [Step]_vars => UNCHANGED clockVars \/ Tick \/ NewDay
BY DEF Step, Ongoing, Ask, Call, Proceed, Enter, Defer, Queue, SettlePolicy, RefusePolicy,
       TakePermit, Cool, Reject, Pace, Start, ApplyCooldown, Leave, MarkCooldown,
       Cancel, Rest, vars

(* Neither clock runs backwards. *)
LEMMA ClocksMove == TypeOK /\ [Step]_vars => now <= now' /\ today <= today'
BY ClocksUnchanged DEF TypeOK, Days, Tick, NewDay, clockVars

(* The policy is settled once, under the lock. *)
LEMMA PolicySettled ==
  ASSUME [Step]_vars
  PROVE  policy' = policy \/ \E t \in Tasks : policy = None /\ SettlePolicy(t)
BY DEF Step, Ongoing, Ask, Call, Proceed, Enter, Defer, Queue, SettlePolicy, RefusePolicy,
       TakePermit, Cool, Reject, Pace, Start, ApplyCooldown, Leave, MarkCooldown,
       Cancel, Tick, NewDay, Rest, vars, stateVars

(* Who is at the gate runs under the settled policy. *)
LEMMA GatePolicy ==
  ASSUME TypeOK, PolicyKept, NEW t \in Tasks, AtGate(t)
  PROVE  want[t] = policy /\ policy \in Policies /\ policy # None
BY RateLimiterAssumption
DEF TypeOK, PolicyKept, PermitHolders, Sleepers, At, AtGate

(* The counter and the date keep describing the calls admitted. *)
LEMMA CountsStep == TypeOK /\ PolicyKept /\ CountsAgree /\ [Step]_vars => CountsAgree'
<1> SUFFICES ASSUME TypeOK, PolicyKept, CountsAgree, [Step]_vars PROVE CountsAgree'
  OBVIOUS
<1> USE RateLimiterAssumption DEF TypeOK, Days
<1>1. CallsAfterRollover = served[today]
  BY RolloverCounts
<1>2. \A d \in Days : d > today => served[d] = 0
  BY DEF CountsAgree
<1>3. CASE \E t \in Tasks : Reject(t) \/ Pace(t)
  <2>1. PICK t \in Tasks : Reject(t) \/ Pace(t)
    BY <1>3
  <2>2. policy' # None
    BY <2>1, GatePolicy DEF Reject, Pace, PassCooldown
  <2>3. callDate' = today /\ today' = today /\ callsToday' = served[today]
    BY <1>1, <2>1 DEF Reject, Pace, PassCooldown, clockVars
  <2>4. served' = served
    BY <2>1 DEF Reject, Pace, ghostVars
  <2> QED BY <1>2, <2>2, <2>3, <2>4 DEF CountsAgree
<1>4. CASE \E t \in Tasks : Start(t)
  <2>1. PICK t \in Tasks : Start(t)
    BY <1>4
  <2>2. policy' # None
    BY <2>1, GatePolicy DEF Start, PassCooldown
  <2>3. callDate' = today /\ today' = today /\ callsToday' = served[today] + 1
    BY <1>1, <2>1 DEF Start, PassCooldown, clockVars
  <2>4. served' = [served EXCEPT ![today] = @ + 1]
    BY <2>1 DEF Start
  <2> QED BY <1>2, <2>2, <2>3, <2>4 DEF CountsAgree
<1>5. CASE \A t \in Tasks : ~Reject(t) /\ ~Pace(t) /\ ~Start(t)
  <2>1. UNCHANGED <<callsToday, callDate, served>> /\ today <= today'
    BY <1>5, CountsUnchanged, ClocksMove
  <2>2. today' \in Days /\ (policy' = None => policy = None)
    BY TypeStep, PolicySettled
  <2> QED BY <2>1, <2>2 DEF CountsAgree
<1> QED BY <1>3, <1>4, <1>5

(* What a step may do to the cooldown: clear it, extend it, or nothing.    *)
LEMMA CooldownMoves ==
  ASSUME [Step]_vars
  PROVE  \/ \E t \in Tasks : PassCooldown(t) /\ UNCHANGED <<now, deadline>>
         \/ \E d \in Delays : SetCooldown(d)
         \/ UNCHANGED <<cooldownUntil, deadline>>
<1>1. ASSUME NEW t \in Tasks, Reject(t) \/ Pace(t) \/ Start(t)
      PROVE  PassCooldown(t) /\ UNCHANGED <<now, deadline>>
  BY <1>1 DEF Reject, Pace, Start, clockVars, ghostVars
<1>2. ASSUME NEW t \in Tasks, NEW d \in Delays \cup {None}, Leave(t, d)
      PROVE  (d \in Delays /\ SetCooldown(d)) \/ UNCHANGED <<cooldownUntil, deadline>>
  BY <1>2 DEF Leave
<1>3. ASSUME NEW t, NEW d, ApplyCooldown(t, d) \/ MarkCooldown(d) PROVE SetCooldown(d)
  BY <1>3 DEF ApplyCooldown, MarkCooldown
<1>4. ASSUME NEW t, \/ Call(t) \/ SettlePolicy(t) \/ RefusePolicy(t) \/ TakePermit(t)
                    \/ Cool(t) \/ Cancel(t) \/ Tick \/ NewDay \/ UNCHANGED vars
      PROVE  UNCHANGED <<cooldownUntil, deadline>>
  BY <1>4 DEF Call, Enter, Defer, Queue, SettlePolicy, RefusePolicy, TakePermit, Cool,
              Cancel, Tick, NewDay, vars, stateVars, ghostVars
<1> QED BY <1>1, <1>2, <1>3, <1>4 DEF Step, Ongoing, Ask, Proceed, Rest

(* The cooldown stays the latest deadline, or is cleared after it. *)
LEMMA DeadlineStep == TypeOK /\ DeadlineKept /\ [Step]_vars => DeadlineKept'
<1> SUFFICES ASSUME TypeOK, DeadlineKept, [Step]_vars PROVE DeadlineKept'
  OBVIOUS
<1> USE RateLimiterAssumption DEF TypeOK, DeadlineKept
<1>1. CASE \E t \in Tasks : PassCooldown(t) /\ UNCHANGED <<now, deadline>>
  BY <1>1 DEF PassCooldown, InCooldown
<1>2. CASE \E d \in Delays : SetCooldown(d)
  BY <1>2 DEF SetCooldown, Larger
<1>3. CASE UNCHANGED <<cooldownUntil, deadline>>
  <2>1. now \in Nat /\ now' \in Nat /\ deadline \in Nat /\ now <= now'
    BY ClocksMove, TypeStep
  <2>2. deadline <= now => deadline <= now'
    BY <2>1
  <2> QED BY <1>3, <2>2
<1> QED BY <1>1, <1>2, <1>3, CooldownMoves

(* An admission needs budget left, so the budget holds after it. *)
LEMMA BudgetStep ==
  TypeOK /\ PolicyKept /\ CountsAgree /\ DailyBudgetHeld /\ [Step]_vars => DailyBudgetHeld'
<1> SUFFICES ASSUME TypeOK, PolicyKept, CountsAgree, DailyBudgetHeld, [Step]_vars,
                    policy' # None, policy'.budget # None, NEW d \in Days
             PROVE  served'[d] <= policy'.budget
  BY DEF DailyBudgetHeld
<1> USE RateLimiterAssumption DEF TypeOK
<1>0. policy' \in Policies /\ policy'.budget \in Nat
  BY TypeStep DEF Policy
<1>1. CASE \E t \in Tasks : Start(t)
  <2>1. PICK t \in Tasks : Start(t)
    BY <1>1
  <2>2. want[t] = policy /\ policy' = policy
    BY <2>1, GatePolicy DEF Start, PassCooldown
  <2>3. served[today] < policy.budget
    BY <1>0, <2>1, <2>2, RolloverCounts DEF Start, Exhausted, Days
  <2>4. served' = [served EXCEPT ![today] = @ + 1]
    BY <2>1 DEF Start
  <2> QED BY <1>0, <2>2, <2>3, <2>4 DEF DailyBudgetHeld
<1>2. CASE \A t \in Tasks : ~Start(t)
  <2>1. served' = served
    BY <1>2, CountsUnchanged DEF Reject, Pace, ghostVars
  <2>2. CASE policy' = policy
    BY <2>1, <2>2 DEF DailyBudgetHeld
  <2>3. CASE policy = None
    BY <1>0, <2>1, <2>3 DEF CountsAgree
  <2> QED BY <2>2, <2>3, PolicySettled
<1> QED BY <1>1, <1>2

-----------------------------------------------------------------------------
(* The theorems *)

(* The bounds and the fairness only leave behaviours out. *)
THEOREM SpecBehaves == Spec => Behaviour
<1>1. [Next]_vars => [Step]_vars
  BY DEF Next, Step
<1> QED BY <1>1, PTL DEF Spec, Behaviour

(* The invariant holds at the start. *)
LEMMA InvariantInit == Init => LimiterInvariant
<1> SUFFICES ASSUME Init PROVE LimiterInvariant
  OBVIOUS
<1>1. TypeOK /\ PermitsConserved
  BY TypeInit, PermitsInit
<1>2. CountsAgree /\ DeadlineKept /\ PolicyKept /\ DailyBudgetHeld
  BY DEF Init, CountsAgree, DeadlineKept, PolicyKept, PermitHolders, At, DailyBudgetHeld
<1> QED BY <1>1, <1>2 DEF LimiterInvariant

(* Every step keeps it. *)
LEMMA InvariantStep == LimiterInvariant /\ [Step]_vars => LimiterInvariant'
BY TypeStep, PermitsStep, CountsStep, DeadlineStep, PolicyStep, BudgetStep
DEF LimiterInvariant

(* What the fields of _ServiceState stand for holds in every state. *)
THEOREM InvariantHolds == Behaviour => []LimiterInvariant
BY InvariantInit, InvariantStep, PTL DEF Behaviour

(* No permit of the semaphore is lost or made up. *)
THEOREM PermitsAlwaysConserved == Behaviour => []PermitsConserved
<1>1. LimiterInvariant => PermitsConserved
  BY DEF LimiterInvariant
<1> QED BY <1>1, InvariantHolds, PTL

(* The daily budget is never exceeded, for any budget and any number of    *)
(* tasks, whenever midnight falls.                                         *)
THEOREM BudgetAlwaysHeld == Behaviour => []DailyBudgetHeld
<1>1. LimiterInvariant => DailyBudgetHeld
  BY DEF LimiterInvariant
<1> QED BY <1>1, InvariantHolds, PTL

(* A call starts only once the latest deadline is past. *)
LEMMA StartAfterDeadline ==
  LimiterInvariant /\ [Step]_vars => (served' # served => deadline <= now)
<1> SUFFICES ASSUME LimiterInvariant, [Step]_vars, served' # served PROVE deadline <= now
  OBVIOUS
<1>1. PICK t \in Tasks : Start(t)
  BY CountsUnchanged DEF Reject, Pace, ghostVars
<1> QED BY <1>1 DEF Start, PassCooldown, InCooldown, LimiterInvariant, DeadlineKept, TypeOK

(* No call starts before the latest deadline ever recorded. *)
THEOREM CooldownRespected == Behaviour => NoStartInCooldown
<1>1. LimiterInvariant /\ [Step]_vars => [served' # served => deadline <= now]_vars
  BY StartAfterDeadline
<1> QED BY <1>1, InvariantHolds, PTL DEF Behaviour, NoStartInCooldown

(* A call is refused only when the budget of the date is spent. *)
LEMMA RefusedWhenSpent ==
  LimiterInvariant /\ [Step]_vars
    => \A t \in Tasks : Reject(t) => served[today] >= policy.budget
<1> SUFFICES ASSUME LimiterInvariant, NEW t \in Tasks, Reject(t)
             PROVE  served[today] >= policy.budget
  OBVIOUS
<1> QED BY GatePolicy, RolloverCounts DEF LimiterInvariant, Reject, PassCooldown, Exhausted

(* SeoulQuotaError is raised only when the budget of the date is spent. *)
THEOREM RefusalsJustified == Behaviour => NoFalseRefusal
<1>1. LimiterInvariant /\ [Step]_vars
        => [\A t \in Tasks : Reject(t) => served[today] >= policy.budget]_vars
  BY RefusedWhenSpent
<1> QED BY <1>1, InvariantHolds, PTL DEF Behaviour, NoFalseRefusal

-----------------------------------------------------------------------------
(* The limiter implements the contract *)

(* The limiter starts where the contract starts. *)
LEMMA ContractInit == Init => Contract!Init
<1> SUFFICES ASSUME Init PROVE Contract!Init
  OBVIOUS
<1>1. Inside = {}
  BY DEF Init, Inside, At
<1> QED BY <1>1, FS_EmptySet DEF Init, Contract!Init, Days

(* At the gate the permit already held leaves room for one more inside. *)
LEMMA RoomInside ==
  ASSUME LimiterInvariant, NEW t \in Tasks, AtGate(t)
  PROVE  Cardinality(Inside) < policy.limit
<1> USE DEF LimiterInvariant
<1>1. policy # None /\ policy.limit \in Nat /\ permits \in Nat
  BY GatePolicy, RateLimiterAssumption DEF Policy, TypeOK
<1>2. t \in PermitHolders /\ Inside \subseteq PermitHolders \ {t}
  BY DEF AtGate, Sleepers, Inside, PermitHolders, At
<1>3. /\ IsFiniteSet(PermitHolders \ {t})
      /\ Cardinality(PermitHolders \ {t}) = Cardinality(PermitHolders) - 1
  BY <1>2, HoldersFinite, FS_RemoveElement
<1>4. Cardinality(Inside) \in Nat /\ Cardinality(Inside) <= Cardinality(PermitHolders \ {t})
  BY <1>2, <1>3, FS_Subset, FS_CardinalityType
<1> QED BY <1>1, <1>3, <1>4, HoldersFinite DEF PermitsConserved

(* Only a move to or from open changes who is inside. *)
LEMMA InsideMove ==
  ASSUME TypeOK, NEW t \in Tasks, NEW point \in Points, GoTo(t, point)
  PROVE  Inside' = IF point = "open" THEN Inside \cup {t} ELSE Inside \ {t}
BY DEF TypeOK, GoTo, Inside, At

(* The tasks in their bodies can be counted. *)
LEMMA InsideFinite == IsFiniteSet(Inside) /\ Cardinality(Inside) \in Nat
<1>1. Inside \subseteq Tasks
  BY DEF Inside, At
<1> QED BY <1>1, FS_Subset, FS_CardinalityType, RateLimiterAssumption

(* Every step is a step of the contract or invisible to it. *)
LEMMA ContractStep == LimiterInvariant /\ [Step]_vars => [Contract!Next]_(Contract!vars)
<1> SUFFICES ASSUME LimiterInvariant, [Step]_vars PROVE [Contract!Next]_(Contract!vars)
  OBVIOUS
<1>0. TypeOK
  BY DEF LimiterInvariant
<1> USE DEF Contract!vars, clockVars, stateVars, countVars, taskVars, ghostVars
<1>1. ASSUME NEW t \in Tasks, pc[t] # "open", NEW point \in Points \ {"open"}, GoTo(t, point)
      PROVE  Inside' = Inside
  BY <1>0, <1>1, InsideMove DEF Inside, At
<1>2. ASSUME NEW t \in Tasks, NEW point \in {"policy", "defer"}, NEW p, Queue(t, point, p)
      PROVE  UNCHANGED Contract!vars
  BY <1>1, <1>2 DEF Queue, Points
<1>3. ASSUME NEW t \in Tasks, SettlePolicy(t) PROVE [Contract!Next]_(Contract!vars)
  <2>1. Inside' = Inside /\ want[t] \in Policies
    BY <1>0, <1>1, <1>3 DEF SettlePolicy, TypeOK, Points
  <2> QED BY <1>3, <2>1 DEF SettlePolicy, Contract!Next, Contract!Adopt
<1>4. ASSUME NEW t \in Tasks, RefusePolicy(t) \/ TakePermit(t) \/ Cool(t) \/ Reject(t) \/ Pace(t)
      PROVE  UNCHANGED Contract!vars
  <2>1. pc[t] # "open"
    BY <1>4 DEF RefusePolicy, TakePermit, Cool, Reject, Pace, PassCooldown, AtGate, Sleepers, At
  <2>2. \E point \in Points \ {"open"} : GoTo(t, point)
    BY <1>4 DEF RefusePolicy, TakePermit, Cool, Reject, Pace, GoIdle, Points
  <2>3. UNCHANGED <<now, today, policy, lastStarted, served, deadline>>
    BY <1>4 DEF RefusePolicy, TakePermit, Cool, Reject, Pace
  <2> QED BY <1>1, <2>1, <2>2, <2>3
<1>5. ASSUME NEW t \in Tasks, Start(t) PROVE Contract!Admit
  <2>1. AtGate(t) /\ pc[t] # "open" /\ t \notin Inside
    BY <1>5 DEF Start, PassCooldown, AtGate, Sleepers, Inside, At
  <2>2. Cardinality(Inside) < policy.limit
    BY <2>1, RoomInside
  <2>3. policy # None /\ want[t] = policy
    BY <2>1, GatePolicy DEF LimiterInvariant
  <2>4. deadline <= now
    BY <1>5, StartAfterDeadline DEF Start, PassCooldown, InCooldown, LimiterInvariant,
       DeadlineKept, TypeOK
  <2>5. lastStarted # None => now - lastStarted >= policy.interval
    BY <1>0, <1>5, <2>3, RateLimiterAssumption DEF Start, TooSoon, TypeOK, Policy
  <2>6. policy.budget # None => served[today] < policy.budget
    BY <1>0, <1>5, <2>3, RolloverCounts, RateLimiterAssumption
    DEF Start, Exhausted, TypeOK, Policy, Days, LimiterInvariant
  <2>7. Cardinality(Inside') = Cardinality(Inside) + 1
    <3>1. Inside' = Inside \cup {t}
      BY <1>0, <1>5, InsideMove DEF Start, Points
    <3> QED BY <2>1, <3>1, InsideFinite, FS_AddElement
  <2>8. /\ lastStarted' = now /\ served' = [served EXCEPT ![today] = @ + 1]
        /\ UNCHANGED <<now, today, policy, deadline>>
    BY <1>5 DEF Start
  <2> QED BY <2>1, <2>2, <2>3, <2>4, <2>5, <2>6, <2>7, <2>8 DEF Contract!Admit
<1>6. ASSUME NEW d \in Delays, SetCooldown(d), UNCHANGED now PROVE Contract!Postponed(d)
  BY <1>6 DEF SetCooldown, Larger, Contract!Postponed
<1>7. ASSUME NEW t \in Tasks, NEW d \in Delays, ApplyCooldown(t, d) PROVE Contract!Postpone(d)
  BY <1>1, <1>6, <1>7 DEF ApplyCooldown, GoIdle, Points, Contract!Postpone
<1>8. ASSUME NEW d \in Delays, MarkCooldown(d) PROVE Contract!Postpone(d)
  <2>1. Inside' = Inside
    BY <1>8 DEF MarkCooldown, Inside, At
  <2> QED BY <1>6, <1>8, <2>1 DEF MarkCooldown, Contract!Postpone
<1>9. ASSUME NEW t \in Tasks, NEW d \in Delays \cup {None}, Leave(t, d) PROVE Contract!Release
  <2>1. t \in Inside /\ Inside' = Inside \ {t}
    BY <1>0, <1>9, InsideMove DEF Leave, GoIdle, Inside, At, Points
  <2>2. Cardinality(Inside) > 0 /\ Cardinality(Inside') = Cardinality(Inside) - 1
    BY <2>1, InsideFinite, FS_RemoveElement, FS_EmptySet
  <2> QED BY <1>6, <1>9, <2>2 DEF Leave, Contract!Release
<1>10. ASSUME NEW t \in Tasks, Cancel(t) PROVE UNCHANGED Contract!vars
  <2>1. pc[t] # "open"
    BY <1>10 DEF Cancel, CancelInLockQueue, CancelInSemaphoreQueue, CancelAsleep,
                 LockWaiters, Sleepers, At
  <2> QED BY <1>1, <1>10, <2>1 DEF Cancel, GoIdle, Points
<1>11. CASE Tick
  BY <1>11 DEF Tick, Inside, At, Contract!Next, Contract!PassTime
<1>12. CASE NewDay
  BY <1>12 DEF NewDay, Inside, At, Contract!Next, Contract!NextDate
<1>13. CASE UNCHANGED vars
  BY <1>13 DEF vars, Inside, At
<1> QED
  BY <1>2, <1>3, <1>4, <1>5, <1>7, <1>8, <1>9, <1>10, <1>11, <1>12, <1>13
  DEF Step, Ongoing, Ask, Call, Enter, Defer, Proceed, Rest, Contract!Next

(* Whatever the tasks do, to its callers the limiter is the QuotaContract. *)
THEOREM LimiterImplementsContract == Behaviour => ImplementsContract
BY ContractInit, ContractStep, InvariantHolds, PTL
DEF Behaviour, ImplementsContract, Contract!Spec

-----------------------------------------------------------------------------
(* What a queue without repetitions is after a task has joined it, *)
LEMMA JoinQueue ==
  ASSUME NEW q \in Seq(Tasks), IsInjective(q), NEW t \in Tasks, t \notin ToSet(q)
  PROVE  IsInjective(Append(q, t)) /\ ToSet(Append(q, t)) = ToSet(q) \cup {t}
<1>1. /\ DOMAIN q = 1..Len(q) /\ Len(q) \in Nat
      /\ DOMAIN Append(q, t) = 1..(Len(q) + 1)
      /\ \A i \in 1..Len(q) : Append(q, t)[i] = q[i]
      /\ Append(q, t)[Len(q) + 1] = t
  BY LenProperties, AppendProperties
<1>2. \A i \in 1..Len(q) : q[i] # t
  BY <1>1 DEF ToSet
<1>3. IsInjective(Append(q, t))
  BY <1>1, <1>2 DEF IsInjective
<1>4. ToSet(Append(q, t)) = ToSet(q) \cup {t}
  BY <1>1 DEF ToSet
<1> QED BY <1>3, <1>4

(* after its head has left it, *)
LEMMA LeaveHead ==
  ASSUME NEW q \in Seq(Tasks), IsInjective(q), q # <<>>
  PROVE  IsInjective(Tail(q)) /\ ToSet(Tail(q)) = ToSet(q) \ {Head(q)}
<1>1. /\ DOMAIN q = 1..Len(q) /\ Len(q) \in Nat \ {0}
      /\ DOMAIN Tail(q) = 1..(Len(q) - 1)
      /\ \A i \in 1..(Len(q) - 1) : Tail(q)[i] = q[i+1]
      /\ Head(q) = q[1]
  BY LenProperties, HeadTailProperties, EmptySeq
<1>2. \A i, j \in 1..Len(q) : q[i] = q[j] => i = j
  BY <1>1 DEF IsInjective
<1>3. IsInjective(Tail(q))
  BY <1>1, <1>2 DEF IsInjective
<1>4. \A i \in 1..(Len(q) - 1) : Tail(q)[i] # Head(q)
  BY <1>1, <1>2
<1>5. ASSUME NEW i \in 1..Len(q), q[i] # Head(q)
      PROVE  i - 1 \in 1..(Len(q) - 1) /\ Tail(q)[i-1] = q[i]
  BY <1>1, <1>5
<1>6. ToSet(Tail(q)) = ToSet(q) \ {Head(q)}
  <2>1. ToSet(Tail(q)) \subseteq ToSet(q) \ {Head(q)}
    <3> SUFFICES ASSUME NEW i \in 1..(Len(q) - 1) PROVE Tail(q)[i] \in ToSet(q) \ {Head(q)}
      BY <1>1 DEF ToSet
    <3>1. i + 1 \in 1..Len(q) /\ Tail(q)[i] = q[i+1]
      BY <1>1
    <3> QED BY <1>1, <1>4, <3>1 DEF ToSet
  <2>2. ToSet(q) \ {Head(q)} \subseteq ToSet(Tail(q))
    <3> SUFFICES ASSUME NEW i \in 1..Len(q), q[i] # Head(q) PROVE q[i] \in ToSet(Tail(q))
      BY <1>1 DEF ToSet
    <3> QED BY <1>1, <1>5 DEF ToSet
  <2> QED BY <2>1, <2>2
<1> QED BY <1>3, <1>6

(* and after any task has left it. *)
LEMMA LeaveQueue ==
  ASSUME NEW q \in Seq(Tasks), IsInjective(q), NEW t \in Tasks, NEW r \in Without(q, t)
  PROVE  IsInjective(r) /\ ToSet(r) = ToSet(q) \ {t}
<1>1. PICK k \in 1..Len(q) : q[k] = t /\ r = SubSeq(q, 1, k-1) \o SubSeq(q, k+1, Len(q))
  BY DEF Without, RemoveAt
<1>2. DOMAIN q = 1..Len(q) /\ Len(q) \in Nat /\ k \in Int
  BY LenProperties
<1>3. \A j \in 1..Len(q) : q[j] \in Tasks
  BY ElementOfSeq
<1>4. /\ SubSeq(q, 1, k-1) \in Seq(Tasks) /\ Len(SubSeq(q, 1, k-1)) = k - 1
      /\ \A i \in 1..(k-1) : SubSeq(q, 1, k-1)[i] = q[i]
  <2>1. \A j \in 1..(k-1) : q[j] \in Tasks
    BY <1>2, <1>3
  <2> QED BY <1>2, <2>1, SubSeqProperties
<1>5. /\ SubSeq(q, k+1, Len(q)) \in Seq(Tasks) /\ Len(SubSeq(q, k+1, Len(q))) = Len(q) - k
      /\ \A i \in 1..(Len(q) - k) : SubSeq(q, k+1, Len(q))[i] = q[k+i]
  <2>1. \A j \in (k+1)..Len(q) : q[j] \in Tasks
    BY <1>2, <1>3
  <2>2. k + 1 \in Int /\ Len(q) \in Int /\ Len(q) - (k+1) + 1 = Len(q) - k
    BY <1>2
  <2>3. /\ SubSeq(q, k+1, Len(q)) \in Seq(Tasks)
        /\ Len(SubSeq(q, k+1, Len(q))) = IF k+1 <= Len(q) THEN Len(q) - (k+1) + 1 ELSE 0
        /\ \A i \in 1..(Len(q) - (k+1) + 1) : SubSeq(q, k+1, Len(q))[i] = q[(k+1)+i-1]
    BY <2>1, <2>2, SubSeqProperties
  <2>4. \A i \in 1..(Len(q) - k) : (k+1)+i-1 = k+i
    BY <1>2
  <2>5. ASSUME NEW i \in 1..(Len(q) - k) PROVE SubSeq(q, k+1, Len(q))[i] = q[k+i]
    BY <2>2, <2>3, <2>4
  <2>6. Len(SubSeq(q, k+1, Len(q))) = Len(q) - k
    <3>1. CASE k + 1 <= Len(q)
      BY <2>2, <2>3, <3>1
    <3>2. CASE ~(k + 1 <= Len(q))
      <4> DEFINE n == Len(q)
      <4> HIDE DEF n
      <4>0. n \in Int /\ k \in Int /\ k <= n /\ n < k + 1
        BY <1>2, <3>2 DEF n
      <4>3. k = n
        BY <4>0
      <4>1. k = Len(q)
        BY <4>3 DEF n
      <4>2. k - k = 0
        BY <1>2
      <4> QED BY <2>3, <3>2, <4>1, <4>2
    <3> QED BY <3>1, <3>2
  <2> QED BY <2>3, <2>5, <2>6
<1>6. /\ DOMAIN r = 1..(Len(q) - 1)
      /\ \A i \in 1..(Len(q) - 1) : r[i] = IF i < k THEN q[i] ELSE q[i+1]
  <2> DEFINE front == SubSeq(q, 1, k-1)
             back  == SubSeq(q, k+1, Len(q))
  <2> HIDE DEF front, back
  <2>1. /\ front \in Seq(Tasks) /\ Len(front) = k - 1 /\ \A i \in 1..(k-1) : front[i] = q[i]
        /\ back \in Seq(Tasks) /\ Len(back) = Len(q) - k
        /\ \A i \in 1..(Len(q) - k) : back[i] = q[k+i]
    BY <1>4, <1>5 DEF front, back
  <2>2. r = front \o back
    BY <1>1 DEF front, back
  <2>3. /\ r \in Seq(Tasks) /\ Len(r) = (k - 1) + (Len(q) - k)
        /\ \A i \in 1..((k - 1) + (Len(q) - k)) :
             r[i] = IF i <= k - 1 THEN front[i] ELSE back[i - (k - 1)]
    <3>1. /\ front \o back \in Seq(Tasks) /\ Len(front \o back) = Len(front) + Len(back)
          /\ \A i \in 1..(Len(front) + Len(back)) :
               (front \o back)[i] = IF i <= Len(front) THEN front[i] ELSE back[i - Len(front)]
      BY <2>1, ConcatProperties
    <3> QED BY <2>1, <2>2, <3>1
  <2>4. DOMAIN r = 1..(Len(q) - 1)
    BY <1>2, <2>3, LenProperties
  <2>5. ASSUME NEW i \in 1..(Len(q) - 1) PROVE r[i] = IF i < k THEN q[i] ELSE q[i+1]
    <3>1. i \in 1..((k - 1) + (Len(q) - k))
      BY <1>2
    <3>2. r[i] = IF i <= k - 1 THEN front[i] ELSE back[i - (k - 1)]
      BY <2>3, <3>1
    <3>3. CASE i < k
      <4>1. i \in 1..(k - 1) /\ i <= k - 1
        BY <1>2, <3>3
      <4> QED BY <2>1, <3>2, <3>3, <4>1
    <3>4. CASE i >= k
      <4>1. /\ ~(i < k) /\ ~(i <= k - 1)
            /\ i - (k - 1) \in 1..(Len(q) - k) /\ k + (i - (k - 1)) = i + 1
        BY <1>2, <3>4
      <4>2. back[i - (k - 1)] = q[k + (i - (k - 1))]
        BY <2>1, <4>1
      <4> QED BY <3>2, <4>1, <4>2
    <3> QED BY <1>2, <3>3, <3>4
  <2> QED BY <2>4, <2>5
<1>7. \A i, j \in 1..Len(q) : q[i] = q[j] => i = j
  BY <1>2 DEF IsInjective
<1>8. IsInjective(r)
  <2> SUFFICES ASSUME NEW i \in 1..(Len(q) - 1), NEW j \in 1..(Len(q) - 1), r[i] = r[j]
               PROVE  i = j
    BY <1>6 DEF IsInjective
  <2> QED BY <1>2, <1>6, <1>7
<1>9. ASSUME NEW i \in 1..(Len(q) - 1) PROVE r[i] # t /\ r[i] \in ToSet(q)
  <2>1. PICK j \in 1..Len(q) : j # k /\ r[i] = q[j]
    BY <1>2, <1>6
  <2> QED BY <1>1, <1>2, <1>7, <2>1 DEF ToSet
<1>10. ASSUME NEW i \in 1..Len(q), q[i] # t PROVE q[i] \in ToSet(r)
  <2>1. CASE i < k
    <3>1. i \in 1..(Len(q) - 1) /\ r[i] = q[i]
      BY <1>2, <1>6, <2>1
    <3> QED BY <1>6, <3>1 DEF ToSet
  <2>2. CASE i > k
    <3>1. i - 1 \in 1..(Len(q) - 1) /\ r[i-1] = q[i]
      BY <1>2, <1>6, <2>2
    <3> QED BY <1>6, <3>1 DEF ToSet
  <2> QED BY <1>1, <1>2, <1>10, <2>1, <2>2
<1>11. ToSet(r) = ToSet(q) \ {t}
  <2>1. ToSet(r) \subseteq ToSet(q) \ {t}
    BY <1>6, <1>9 DEF ToSet
  <2>2. ToSet(q) \ {t} \subseteq ToSet(r)
    BY <1>2, <1>10 DEF ToSet
  <2> QED BY <2>1, <2>2
<1> QED BY <1>8, <1>11

(* Where a task goes decides what it waits for. *)
LEMMA PlacesMove ==
  ASSUME TypeOK, NEW t \in Tasks, NEW point \in Points, GoTo(t, point)
  PROVE  /\ LockWaiters' = IF point \in {"policy", "gate", "defer"}
                            THEN LockWaiters \cup {t} ELSE LockWaiters \ {t}
         /\ Sleepers' = IF point \in {"cooling", "pacing"}
                         THEN Sleepers \cup {t} ELSE Sleepers \ {t}
         /\ At({"sem"})' = IF point = "sem" THEN At({"sem"}) \cup {t} ELSE At({"sem"}) \ {t}
<1>1. /\ DOMAIN pc = Tasks /\ pc'[t] = point
      /\ \A u \in Tasks : u # t => pc'[u] = pc[u]
  BY DEF TypeOK, GoTo
<1>2. LockWaiters' = IF point \in {"policy", "gate", "defer"}
                       THEN LockWaiters \cup {t} ELSE LockWaiters \ {t}
  BY <1>1 DEF LockWaiters, At
<1>3. Sleepers' = IF point \in {"cooling", "pacing"}
                    THEN Sleepers \cup {t} ELSE Sleepers \ {t}
  BY <1>1 DEF Sleepers, At
<1>4. At({"sem"})' = IF point = "sem" THEN At({"sem"}) \cup {t} ELSE At({"sem"}) \ {t}
  BY <1>1 DEF At
<1> QED BY <1>2, <1>3, <1>4

(* At the start nobody waits. *)
LEMMA QueueInit == Init => QueueDiscipline
BY EmptySeq DEF Init, QueueDiscipline, Sleepers, LockWaiters, At, IsInjective, ToSet

(* Every step that moves a task between the queues, the lock and the body  *)
(* takes it out of the one and puts it into the other.                     *)
LEMMA QueueStep == TypeOK /\ QueueDiscipline /\ [Step]_vars => QueueDiscipline'
<1> SUFFICES ASSUME TypeOK, QueueDiscipline, [Step]_vars PROVE QueueDiscipline'
  OBVIOUS
<1>1. /\ lockq \in Seq(Tasks) /\ semq \in Seq(Tasks)
      /\ IsInjective(lockq) /\ IsInjective(semq)
      /\ ToSet(lockq) = LockWaiters /\ ToSet(semq) = At({"sem"})
      /\ Sleepers = {holder} \ {None} /\ holder \in Tasks \cup {None} /\ None \notin Tasks
  BY RateLimiterAssumption DEF TypeOK, QueueDiscipline
<1>2. /\ LockWaiters \cap Sleepers = {} /\ LockWaiters \cap At({"sem"}) = {}
      /\ Sleepers \cap At({"sem"}) = {}
  BY DEF LockWaiters, Sleepers, At
<1>3. ASSUME NEW t \in Tasks, FirstForLock(t)
      PROVE  /\ holder = None /\ t \in LockWaiters
             /\ IsInjective(Tail(lockq)) /\ ToSet(Tail(lockq)) = LockWaiters \ {t}
  <2>1. lockq # <<>> /\ Head(lockq) = t /\ holder = None
    BY <1>3 DEF FirstForLock
  <2>2. Head(lockq) \in ToSet(lockq)
    BY <1>1, <2>1, HeadTailProperties, LenProperties, EmptySeq DEF ToSet
  <2> QED BY <1>1, <2>1, <2>2, LeaveHead
<1>4. ASSUME NEW t \in Tasks, AtGate(t)
      PROVE  /\ t \in LockWaiters \cup Sleepers /\ t \notin At({"sem"})
             /\ holder \in {None, t} /\ Sleepers \subseteq {t}
             /\ IsInjective(lockq') /\ ToSet(lockq') = LockWaiters \ {t}
  <2>1. CASE pc[t] = "gate" /\ FirstForLock(t) /\ lockq' = Tail(lockq)
    BY <1>1, <1>2, <1>3, <2>1
  <2>2. CASE t \in Sleepers /\ holder = t /\ lockq' = lockq
    BY <1>1, <1>2, <2>2
  <2> QED BY <1>4, <2>1, <2>2 DEF AtGate
<1>5. ASSUME NEW t \in Tasks, NEW point \in {"policy", "defer"}, NEW a, Queue(t, point, a)
      PROVE  QueueDiscipline'
  <2>1. t \notin LockWaiters \cup Sleepers \cup At({"sem"})
    BY <1>5 DEF Queue, LockWaiters, Sleepers, At
  <2>2. /\ lockq' = Append(lockq, t) /\ semq' = semq /\ holder' = holder /\ GoTo(t, point)
        /\ point \in Points
    BY <1>5 DEF Queue, Points
  <2>3. /\ LockWaiters' = LockWaiters \cup {t} /\ Sleepers' = Sleepers
        /\ At({"sem"})' = At({"sem"})
    <3>1. /\ LockWaiters' = LockWaiters \cup {t} /\ Sleepers' = Sleepers \ {t}
          /\ At({"sem"})' = At({"sem"}) \ {t}
      BY <2>2, PlacesMove
    <3> QED BY <2>1, <3>1
  <2>4. IsInjective(lockq') /\ ToSet(lockq') = LockWaiters \cup {t}
    BY <1>1, <2>1, <2>2, JoinQueue
  <2> QED BY <1>1, <2>2, <2>3, <2>4 DEF QueueDiscipline
<1>6. ASSUME NEW t \in Tasks, SettlePolicy(t) PROVE QueueDiscipline'
  <2>1. /\ FirstForLock(t) /\ lockq' = Tail(lockq) /\ semq' = Append(semq, t)
        /\ holder' = holder /\ GoTo(t, "sem") /\ "sem" \in Points
    BY <1>6 DEF SettlePolicy, Points
  <2>2. t \notin At({"sem"}) \cup Sleepers
    BY <1>2, <1>3, <2>1
  <2>3. /\ LockWaiters' = LockWaiters \ {t} /\ Sleepers' = Sleepers
        /\ At({"sem"})' = At({"sem"}) \cup {t}
    <3>1. /\ LockWaiters' = LockWaiters \ {t} /\ Sleepers' = Sleepers \ {t}
          /\ At({"sem"})' = At({"sem"}) \cup {t}
      BY <2>1, PlacesMove
    <3> QED BY <2>2, <3>1
  <2>4. IsInjective(semq') /\ ToSet(semq') = At({"sem"}) \cup {t}
    BY <1>1, <2>1, <2>2, JoinQueue
  <2> QED BY <1>1, <1>3, <2>1, <2>3, <2>4 DEF QueueDiscipline
<1>7. ASSUME NEW t \in Tasks, FirstForLock(t), lockq' = Tail(lockq), GoIdle(t),
             UNCHANGED <<holder, semq>>
      PROVE  QueueDiscipline'
  <2>1. GoTo(t, "idle") /\ "idle" \in Points
    BY <1>7 DEF GoIdle, Points
  <2>2. t \notin At({"sem"}) \cup Sleepers
    BY <1>2, <1>3, <1>7
  <2>3. /\ LockWaiters' = LockWaiters \ {t} /\ Sleepers' = Sleepers
        /\ At({"sem"})' = At({"sem"})
    BY <2>1, <2>2, PlacesMove DEF At
  <2> QED BY <1>1, <1>3, <1>7, <2>3 DEF QueueDiscipline
<1>8. ASSUME NEW t \in Tasks, TakePermit(t) PROVE QueueDiscipline'
  <2>1. /\ semq # <<>> /\ Head(semq) = t /\ t \in At({"sem"})
        /\ semq' = Tail(semq) /\ lockq' = Append(lockq, t)
        /\ holder' = holder /\ GoTo(t, "gate") /\ "gate" \in Points
    BY <1>8 DEF TakePermit, Points, At
  <2>2. t \notin LockWaiters \cup Sleepers
    BY <1>2, <2>1
  <2>3. /\ LockWaiters' = LockWaiters \cup {t} /\ Sleepers' = Sleepers
        /\ At({"sem"})' = At({"sem"}) \ {t}
    <3>1. /\ LockWaiters' = LockWaiters \cup {t} /\ Sleepers' = Sleepers \ {t}
          /\ At({"sem"})' = At({"sem"}) \ {t}
      BY <2>1, PlacesMove
    <3> QED BY <2>2, <3>1
  <2>4. IsInjective(lockq') /\ ToSet(lockq') = LockWaiters \cup {t}
    BY <1>1, <2>1, <2>2, JoinQueue
  <2>5. IsInjective(semq') /\ ToSet(semq') = At({"sem"}) \ {t}
    BY <1>1, <2>1, LeaveHead
  <2> QED BY <1>1, <2>1, <2>3, <2>4, <2>5 DEF QueueDiscipline
<1>9. ASSUME NEW t \in Tasks, AtGate(t), semq' = semq,
             \/ holder' = t /\ (GoTo(t, "cooling") \/ GoTo(t, "pacing"))
             \/ holder' = None /\ (GoTo(t, "idle") \/ GoTo(t, "open"))
      PROVE  QueueDiscipline'
  <2>1. {"cooling", "pacing", "idle", "open"} \subseteq Points
    BY DEF Points
  <2>2. LockWaiters' = LockWaiters \ {t} /\ At({"sem"})' = At({"sem"})
    BY <1>4, <1>9, <2>1, PlacesMove DEF At
  <2>3. Sleepers' = {holder'} \ {None}
    <3>1. CASE holder' = t /\ (GoTo(t, "cooling") \/ GoTo(t, "pacing"))
      BY <1>1, <1>4, <1>9, <2>1, <3>1, PlacesMove DEF At
    <3>2. CASE holder' = None /\ (GoTo(t, "idle") \/ GoTo(t, "open"))
      BY <1>1, <1>4, <1>9, <2>1, <3>2, PlacesMove DEF At
    <3> QED BY <1>9, <3>1, <3>2
  <2> QED BY <1>1, <1>4, <1>9, <2>2, <2>3 DEF QueueDiscipline
<1>10. ASSUME NEW t \in Tasks, Cancel(t) PROVE QueueDiscipline'
  <2>1. GoTo(t, "idle") /\ "idle" \in Points
    BY <1>10 DEF Cancel, GoIdle, Points
  <2>2. /\ LockWaiters' = LockWaiters \ {t} /\ Sleepers' = Sleepers \ {t}
        /\ At({"sem"})' = At({"sem"}) \ {t}
    BY <2>1, PlacesMove DEF At
  <2>3. CASE CancelInLockQueue(t)
    <3>1. t \in LockWaiters /\ lockq' \in Without(lockq, t) /\ holder' = holder /\ semq' = semq
      BY <2>3 DEF CancelInLockQueue
    <3>2. IsInjective(lockq') /\ ToSet(lockq') = LockWaiters \ {t}
      BY <1>1, <3>1, LeaveQueue
    <3>3. Sleepers' = Sleepers /\ At({"sem"})' = At({"sem"})
      BY <1>2, <2>2, <3>1
    <3> QED BY <1>1, <2>2, <3>1, <3>2, <3>3 DEF QueueDiscipline
  <2>4. CASE CancelInSemaphoreQueue(t)
    <3>1. t \in At({"sem"}) /\ semq' \in Without(semq, t) /\ holder' = holder /\ lockq' = lockq
      BY <2>4 DEF CancelInSemaphoreQueue, At
    <3>2. IsInjective(semq') /\ ToSet(semq') = At({"sem"}) \ {t}
      BY <1>1, <3>1, LeaveQueue
    <3>3. Sleepers' = Sleepers /\ LockWaiters' = LockWaiters
      BY <1>2, <2>2, <3>1
    <3> QED BY <1>1, <2>2, <3>1, <3>2, <3>3 DEF QueueDiscipline
  <2>5. CASE CancelAsleep(t)
    <3>1. t \in Sleepers /\ holder' = None /\ lockq' = lockq /\ semq' = semq
      BY <2>5 DEF CancelAsleep
    <3>2. LockWaiters' = LockWaiters /\ At({"sem"})' = At({"sem"}) /\ Sleepers' = {}
      BY <1>1, <1>2, <2>2, <3>1
    <3> QED BY <1>1, <3>1, <3>2 DEF QueueDiscipline
  <2> QED BY <1>10, <2>3, <2>4, <2>5 DEF Cancel
<1>11. ASSUME NEW t \in Tasks, NEW d, Leave(t, d) PROVE QueueDiscipline'
  <2>1. /\ GoTo(t, "idle") /\ "idle" \in Points
        /\ lockq' = lockq /\ semq' = semq /\ holder' = holder
        /\ t \notin LockWaiters \cup Sleepers \cup At({"sem"})
    BY <1>11 DEF Leave, GoIdle, Points, LockWaiters, Sleepers, At
  <2>2. LockWaiters' = LockWaiters /\ Sleepers' = Sleepers /\ At({"sem"})' = At({"sem"})
    BY <2>1, PlacesMove DEF At
  <2> QED BY <1>1, <2>1, <2>2 DEF QueueDiscipline
<1>12. ASSUME UNCHANGED <<holder, lockq, semq, taskVars>> PROVE QueueDiscipline'
  BY <1>12 DEF QueueDiscipline, taskVars, LockWaiters, Sleepers, At
<1>13. ASSUME NEW t \in Tasks, Proceed(t) PROVE QueueDiscipline'
  <2>1. ASSUME RefusePolicy(t) PROVE QueueDiscipline'
    BY <1>7, <2>1 DEF RefusePolicy
  <2>2. ASSUME NEW d \in Delays, ApplyCooldown(t, d) PROVE QueueDiscipline'
    BY <1>7, <2>2 DEF ApplyCooldown
  <2>3. ASSUME Cool(t) PROVE QueueDiscipline'
    BY <1>9, <2>3 DEF Cool
  <2>4. ASSUME Reject(t) PROVE QueueDiscipline'
    BY <1>9, <2>4 DEF Reject, PassCooldown, GoIdle
  <2>5. ASSUME Pace(t) PROVE QueueDiscipline'
    BY <1>9, <2>5 DEF Pace, PassCooldown
  <2>6. ASSUME Start(t) PROVE QueueDiscipline'
    BY <1>9, <2>6 DEF Start, PassCooldown
  <2> QED BY <1>6, <1>8, <1>13, <2>1, <2>2, <2>3, <2>4, <2>5, <2>6 DEF Proceed
<1>14. ASSUME NEW t \in Tasks, Call(t) PROVE QueueDiscipline'
  BY <1>5, <1>14 DEF Call, Enter, Defer
<1>15. ASSUME NEW d \in Delays, MarkCooldown(d) PROVE QueueDiscipline'
  BY <1>12, <1>15 DEF MarkCooldown
<1>16. CASE Tick \/ NewDay \/ UNCHANGED vars
  BY <1>12, <1>16 DEF Tick, NewDay, vars
<1> QED BY <1>10, <1>11, <1>13, <1>14, <1>15, <1>16 DEF Step, Ongoing, Ask, Rest

(* The lock belongs to the task that sleeps with it and to no other, and   *)
(* every task that waits is in its queue exactly once, so that no task is  *)
(* forgotten and none waits for a task that is gone.                       *)
THEOREM QueuesDisciplined == Behaviour => []QueueDiscipline
BY TypeInit, TypeStep, QueueInit, QueueStep, PTL DEF Behaviour
=============================================================================
