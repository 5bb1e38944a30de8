-------------------------- MODULE LogicalCallProofs --------------------------
(***************************************************************************)
(* Proofs about LogicalCall for any number of tasks and retries and any    *)
(* delays: its steps are steps of the limiter, so that the invariant of    *)
(* RateLimiter carries over, and with it what a call and its neighbours    *)
(* may rely on.                                                            *)
(***************************************************************************)
EXTENDS LogicalCall, RateLimiterProofs

(***************************************************************************)
(* The inductive invariant.                                                *)
(*   CallFields   call holds call records                                  *)
(*   CallPlace    a task is in the limiter just when it is in a call that  *)
(*                is not backing off, only a call backs off, and no call   *)
(*                leaves anything behind                                   *)
(*   QuietKept    a pause the provider asked for is over or within the     *)
(*                deadline the limiter keeps                               *)
(***************************************************************************)
CallFields ==
  /\ call = [t \in Tasks |-> call[t]]
  /\ \A t \in Tasks :
       /\ call[t] = [policy |-> call[t].policy, remaining |-> call[t].remaining,
                     used |-> call[t].used, wake |-> call[t].wake,
                     sent |-> call[t].sent, asked |-> call[t].asked]
       /\ call[t].policy \in Policies \cup {None}
       /\ call[t].remaining \in Nat /\ call[t].used \in Nat /\ call[t].sent \in Nat
       /\ call[t].wake \in Nat \cup {None} /\ call[t].asked \in BOOLEAN

CallPlace ==
  \A t \in Tasks :
    /\ pc[t] # "idle" <=> InCall(t) /\ ~Backing(t)
    /\ Backing(t) => InCall(t)
    /\ ~InCall(t) => call[t].sent = 0 /\ call[t].used = 0 /\ call[t].remaining = 0

QuietKept == quiet \in Nat /\ (quiet <= deadline \/ quiet <= now)

CallInvariant ==
  /\ LimiterInvariant
  /\ CallFields
  /\ CallPlace
  /\ RetriesAccounted
  /\ QuietKept

-----------------------------------------------------------------------------
(* The calls use the limiter through its operations *)

(* mark_cooldown() posts a number of seconds, or nothing. *)
LEMMA MarkType ==
  ASSUME NEW s \in RetryAfters
  PROVE  /\ s <= MaxBackoff => MarkOf(s) \in Delays \cup {None}
         /\ s > MaxBackoff => MarkOf(MaxBackoff) \in Delays \cup {None}
BY LogicalCallAssumption DEF MarkOf

(* What an answer does to the limiter is leave a slot. *)
LEMMA AnswerLeaves ==
  ASSUME NEW t \in Tasks, Answer(t)
  PROVE  \E d \in Delays \cup {None} : Leave(t, d)
<1>1. QuotaCooldown \in Delays
  BY LogicalCallAssumption
<1> QED BY <1>1, MarkType
  DEF Answer, Finish, NetworkFailure, Throttled, ThrottledFor, ThrottledTooLong,
      UpstreamTransient, UpstreamQuota

(* Every step of a call is a step of the limiter or leaves it alone. *)
LEMMA CallStepIsStep ==
  ASSUME CallFields, CallPlace, [CallNext]_allVars
  PROVE  [Step]_vars
<1>1. ASSUME NEW t \in Tasks, NEW p \in Policies, Begin(t, p) PROVE Step
  BY <1>1 DEF Begin, Step, Ask, Call
<1>2. ASSUME NEW t \in Tasks, Resume(t) PROVE Step
  <2>1. call[t].policy \in Policies
    BY <1>2 DEF Resume, CallFields, CallPlace, InCall
  <2> QED BY <1>2, <2>1 DEF Resume, Step, Ask, Call
<1>3. ASSUME NEW t \in Tasks, Wait(t) \/ Send(t) \/ Refused(t) PROVE Step
  BY <1>3 DEF Wait, Send, Refused, Step, Ongoing, Proceed
<1>4. ASSUME NEW t \in Tasks, Answer(t) PROVE Step
  BY <1>4, AnswerLeaves DEF Step, Ongoing
<1>5. ASSUME NEW t \in Tasks, CancelCall(t) PROVE [Step]_vars
  BY <1>5 DEF CancelCall, Step, Ongoing
<1>6. ASSUME (\E t \in Tasks : Arrive(t)) \/ ArriveLate PROVE UNCHANGED vars
  BY <1>6 DEF Arrive, ArriveLate
<1> QED
  BY <1>1, <1>2, <1>3, <1>4, <1>5, <1>6
  DEF CallNext, CallTick, CallNewDay, allVars, Step, Ongoing

-----------------------------------------------------------------------------
(* What each kind of step does to the call of its task *)

(* A call begins with the whole budget and nothing sent. *)
LEMMA FreshFields ==
  ASSUME NEW p
  PROVE  /\ Fresh(p).policy = p /\ Fresh(p).remaining = MaxRetries /\ Fresh(p).used = 0
         /\ Fresh(p).wake = None /\ Fresh(p).sent = 0 /\ Fresh(p).asked = FALSE
         /\ NoCall.policy = None /\ NoCall.remaining = 0 /\ NoCall.used = 0
         /\ NoCall.wake = None /\ NoCall.sent = 0 /\ NoCall.asked = FALSE
BY DEF Fresh, NoCall

(* The tasks other than t stay where they are. *)
Others(t) ==
  \A u \in Tasks \ {t} : pc'[u] = pc[u] /\ call'[u] = call[u]

(* A step that moves one task and its call leaves all others alone. *)
LEMMA OneTask ==
  ASSUME TypeOK, CallFields, NEW t \in Tasks,
         \E point : GoTo(t, point), \E c : call' = [call EXCEPT ![t] = c]
  PROVE  Others(t) /\ call' = [u \in Tasks |-> call'[u]]
BY DEF TypeOK, CallFields, GoTo, Others

(* What the invariant says of one task, after the step.                     *)
Keeps(t) ==
  /\ call'[t] = [policy |-> call'[t].policy, remaining |-> call'[t].remaining,
                 used |-> call'[t].used, wake |-> call'[t].wake,
                 sent |-> call'[t].sent, asked |-> call'[t].asked]
  /\ call'[t].policy \in Policies \cup {None}
  /\ call'[t].remaining \in Nat /\ call'[t].used \in Nat /\ call'[t].sent \in Nat
  /\ call'[t].wake \in Nat \cup {None} /\ call'[t].asked \in BOOLEAN
  /\ pc'[t] # "idle" <=> call'[t].policy # None /\ call'[t].wake = None
  /\ call'[t].wake # None => call'[t].policy # None
  /\ call'[t].policy = None =>
       call'[t].sent = 0 /\ call'[t].used = 0 /\ call'[t].remaining = 0
  /\ call'[t].policy # None =>
       /\ call'[t].used + call'[t].remaining = MaxRetries
       /\ call'[t].sent = IF pc'[t] = "open" THEN call'[t].used + 1 ELSE call'[t].used

(* To keep the invariant it is enough that the task that moves keeps it. *)
LEMMA KeepsEnough ==
  ASSUME CallFields, CallPlace, RetriesAccounted, NEW t \in Tasks,
         Others(t), call' = [u \in Tasks |-> call'[u]], Keeps(t)
  PROVE  CallFields' /\ CallPlace' /\ RetriesAccounted'
<1>1. ASSUME NEW u \in Tasks, u # t PROVE pc'[u] = pc[u] /\ call'[u] = call[u]
  BY <1>1 DEF Others
<1>2. CallFields'
  BY <1>1 DEF CallFields, Keeps
<1>3. CallPlace'
  BY <1>1 DEF CallPlace, Keeps, InCall, Backing
<1>4. RetriesAccounted'
  BY <1>1 DEF RetriesAccounted, Keeps, InCall
<1> QED BY <1>2, <1>3, <1>4

(* A call that ends leaves no trace. *)
LEMMA EndKeeps ==
  ASSUME TypeOK, CallFields, CallPlace, RetriesAccounted, NEW t \in Tasks,
         GoTo(t, "idle"), End(t)
  PROVE  CallFields' /\ CallPlace' /\ RetriesAccounted'
<1>1. Others(t) /\ call' = [u \in Tasks |-> call'[u]]
  BY OneTask DEF End
<1>2. pc'[t] = "idle" /\ call'[t] = NoCall
  BY DEF TypeOK, CallFields, GoTo, End
<1>3. Keeps(t)
  BY <1>2, FreshFields DEF Keeps, NoCall
<1> QED BY <1>1, <1>3, KeepsEnough

(* A power of 2 is a natural number: it counts the subsets of a set. *)
LEMMA PowerType ==
  ASSUME NEW n \in Nat
  PROVE  2^n \in Nat
<1>1. IsFiniteSet(1..n) /\ Cardinality(1..n) = n
  BY FS_Interval
<1>2. IsFiniteSet(SUBSET (1..n)) /\ Cardinality(SUBSET (1..n)) = 2^n
  BY <1>1, FS_SUBSET
<1> QED BY <1>2, FS_CardinalityType

(* A backoff lasts a number of seconds. *)
LEMMA PauseType ==
  ASSUME CallFields, NEW t \in Tasks, NEW jitter \in Nat
  PROVE  Pauses(t, jitter) \subseteq Nat
<1>1. 2^call[t].used \in Nat
  BY PowerType DEF CallFields
<1>2. Base * 2^call[t].used \in Nat
  BY <1>1, LogicalCallAssumption
<1>3. ASSUME NEW j \in 0..jitter
      PROVE  Smaller(Base * 2^call[t].used + j, MaxBackoff) \in Nat
  <2> DEFINE backoff == Base * 2^call[t].used
  <2> HIDE DEF backoff
  <2>1. backoff + j \in Nat
    BY <1>2 DEF backoff
  <2> QED BY <2>1, LogicalCallAssumption DEF Smaller, backoff
<1> QED BY <1>3 DEF Pauses

(* A failed attempt takes one retry from the budget or ends the call. *)
LEMMA RetryKeeps ==
  ASSUME TypeOK, CallFields, CallPlace, RetriesAccounted, NEW t \in Tasks, NEW pause \in Nat,
         pc[t] = "open", GoTo(t, "idle"), Retry(t, pause)
  PROVE  CallFields' /\ CallPlace' /\ RetriesAccounted'
<1>1. CASE call[t].remaining = 0
  BY <1>1, EndKeeps DEF Retry
<1>2. CASE call[t].remaining # 0
  <2>1. call' = [call EXCEPT ![t] = [call[t] EXCEPT
                   !.remaining = @ - 1, !.used = @ + 1, !.wake = now + pause, !.asked = FALSE]]
    BY <1>2 DEF Retry, CallFields
  <2>2. Others(t) /\ call' = [u \in Tasks |-> call'[u]]
    BY <2>1, OneTask
  <2>3. call'[t] = [call[t] EXCEPT !.remaining = @ - 1, !.used = @ + 1,
                                   !.wake = now + pause, !.asked = FALSE]
    BY <2>1 DEF CallFields
  <2>4. pc'[t] = "idle" /\ call[t].policy # None /\ call[t].sent = call[t].used + 1
        /\ call[t].used + call[t].remaining = MaxRetries
    BY DEF TypeOK, GoTo, CallPlace, InCall, RetriesAccounted
  <2>5. /\ call[t].remaining \in Nat /\ call[t].used \in Nat /\ call[t].sent \in Nat
        /\ call[t].policy \in Policies \cup {None}
    BY DEF CallFields
  <2>6. call'[t] = [policy |-> call[t].policy, remaining |-> call[t].remaining - 1,
                    used |-> call[t].used + 1, wake |-> now + pause,
                    sent |-> call[t].sent, asked |-> FALSE]
    BY <2>3 DEF CallFields
  <2>7. /\ call'[t].policy = call[t].policy /\ call'[t].remaining = call[t].remaining - 1
        /\ call'[t].used = call[t].used + 1 /\ call'[t].sent = call[t].sent
        /\ call'[t].wake = now + pause /\ call'[t].asked = FALSE
    BY <2>6
  <2>8. call'[t] = [policy |-> call'[t].policy, remaining |-> call'[t].remaining,
                    used |-> call'[t].used, wake |-> call'[t].wake,
                    sent |-> call'[t].sent, asked |-> call'[t].asked]
    BY <2>6
  <2>9. call'[t].wake \in Nat /\ call'[t].wake # None
    <3>1. now + pause \in Nat
      BY DEF TypeOK
    <3> QED BY <2>7, <3>1, RateLimiterAssumption
  <2>10. /\ call'[t].policy \in Policies \cup {None} /\ call'[t].policy # None
         /\ call'[t].remaining \in Nat /\ call'[t].used \in Nat /\ call'[t].sent \in Nat
         /\ call'[t].used + call'[t].remaining = MaxRetries
         /\ call'[t].sent = call'[t].used
    BY <1>2, <2>4, <2>5, <2>7
  <2>11. call'[t].asked \in BOOLEAN
    BY <2>7
  <2>12. Keeps(t)
    BY <2>4, <2>8, <2>9, <2>10, <2>11 DEF Keeps
  <2> QED BY <2>2, <2>12, KeepsEnough
<1> QED BY <1>1, <1>2

(* The first attempt enters the limiter with a fresh budget. *)
LEMMA BeginKeeps ==
  ASSUME TypeOK, CallFields, CallPlace, RetriesAccounted,
         NEW t \in Tasks, NEW p \in Policies, Begin(t, p)
  PROVE  CallFields' /\ CallPlace' /\ RetriesAccounted'
<1>1. GoTo(t, "policy") /\ call' = [call EXCEPT ![t] = Fresh(p)]
  BY DEF Begin, Enter, Queue
<1>2. pc'[t] = "policy" /\ call'[t] = Fresh(p)
  BY <1>1 DEF TypeOK, CallFields, GoTo
<1>3. Keeps(t)
  BY <1>2, FreshFields, LogicalCallAssumption, RateLimiterAssumption DEF Keeps, Fresh
<1> QED BY <1>1, <1>3, OneTask, KeepsEnough

(* The next attempt enters the limiter with what is left of the budget. *)
LEMMA ResumeKeeps ==
  ASSUME TypeOK, CallFields, CallPlace, RetriesAccounted, NEW t \in Tasks, Resume(t)
  PROVE  CallFields' /\ CallPlace' /\ RetriesAccounted'
<1>1. /\ GoTo(t, "policy") /\ pc[t] = "idle" /\ InCall(t)
      /\ call' = [call EXCEPT ![t] = [call[t] EXCEPT !.wake = None]]
  BY DEF Resume, Enter, Queue, CallPlace, CallFields
<1>2. pc'[t] = "policy" /\ call'[t] = [call[t] EXCEPT !.wake = None]
  BY <1>1 DEF TypeOK, CallFields, GoTo
<1>3. Keeps(t)
  BY <1>1, <1>2 DEF Keeps, CallFields, InCall, RetriesAccounted
<1> QED BY <1>1, <1>3, OneTask, KeepsEnough

(* Moves inside the limiter other than the admission leave the call alone. *)
LEMMA WaitKeeps ==
  ASSUME TypeOK, CallFields, CallPlace, RetriesAccounted, NEW t \in Tasks, Wait(t)
  PROVE  CallFields' /\ CallPlace' /\ RetriesAccounted'
<1>1. PICK point \in {"sem", "gate", "cooling", "pacing"} : GoTo(t, point)
  BY DEF Wait, SettlePolicy, TakePermit, Cool, Pace
<1>2. pc[t] \notin {"idle", "open"} /\ call' = call
  BY DEF Wait, SettlePolicy, TakePermit, Cool, Pace, PassCooldown, AtGate, Sleepers, At
<1>3. Others(t) /\ call' = [u \in Tasks |-> call'[u]] /\ pc'[t] = point
  BY <1>1, <1>2 DEF TypeOK, GoTo, Others, CallFields
<1>4. Keeps(t)
  BY <1>1, <1>2, <1>3 DEF Keeps, CallFields, CallPlace, InCall, Backing, RetriesAccounted
<1> QED BY <1>3, <1>4, KeepsEnough

(* The admission sends one request. *)
LEMMA SendKeeps ==
  ASSUME TypeOK, CallFields, CallPlace, RetriesAccounted, NEW t \in Tasks, Send(t)
  PROVE  CallFields' /\ CallPlace' /\ RetriesAccounted'
<1>1. /\ GoTo(t, "open") /\ pc[t] \notin {"idle", "open"}
      /\ call' = [call EXCEPT ![t] = [call[t] EXCEPT !.sent = @ + 1]]
  BY DEF Send, Start, PassCooldown, AtGate, Sleepers, At, CallFields
<1>2. pc'[t] = "open" /\ call'[t] = [call[t] EXCEPT !.sent = @ + 1]
  BY <1>1 DEF TypeOK, CallFields, GoTo
<1>3. Keeps(t)
  BY <1>1, <1>2 DEF Keeps, CallFields, CallPlace, InCall, Backing, RetriesAccounted
<1> QED BY <1>1, <1>3, OneTask, KeepsEnough

(* What arrives at the provider is counted there only. *)
LEMMA ArriveKeeps ==
  ASSUME TypeOK, CallFields, CallPlace, RetriesAccounted, NEW t \in Tasks, Arrive(t)
  PROVE  CallFields' /\ CallPlace' /\ RetriesAccounted'
<1>1. /\ call' = [call EXCEPT ![t] = [call[t] EXCEPT !.asked = TRUE]]
      /\ pc' = pc /\ pc[t] = "open"
  BY DEF Arrive, vars, taskVars, CallFields
<1>2. pc'[t] = "open" /\ call'[t] = [call[t] EXCEPT !.asked = TRUE]
  BY <1>1 DEF CallFields
<1>3. Others(t) /\ call' = [u \in Tasks |-> call'[u]]
  BY <1>1 DEF Others, CallFields
<1>4. call'[t] = [policy |-> call[t].policy, remaining |-> call[t].remaining,
                  used |-> call[t].used, wake |-> call[t].wake,
                  sent |-> call[t].sent, asked |-> TRUE]
  BY <1>2 DEF CallFields
<1>5. /\ call'[t].policy = call[t].policy /\ call'[t].remaining = call[t].remaining
      /\ call'[t].used = call[t].used /\ call'[t].sent = call[t].sent
      /\ call'[t].wake = call[t].wake
      /\ call'[t] = [policy |-> call'[t].policy, remaining |-> call'[t].remaining,
                     used |-> call'[t].used, wake |-> call'[t].wake,
                     sent |-> call'[t].sent, asked |-> call'[t].asked]
  BY <1>4
<1>6. call'[t].asked = TRUE
  BY <1>4
<1>7. /\ call[t].policy \in Policies \cup {None} /\ call[t].policy # None
      /\ call[t].remaining \in Nat /\ call[t].used \in Nat /\ call[t].sent \in Nat
      /\ call[t].wake = None /\ None \in Nat \cup {None}
      /\ call[t].used + call[t].remaining = MaxRetries /\ call[t].sent = call[t].used + 1
  BY <1>1 DEF CallFields, CallPlace, InCall, Backing, RetriesAccounted
<1>8. Keeps(t)
  BY <1>2, <1>5, <1>6, <1>7 DEF Keeps
<1> QED BY <1>3, <1>8, KeepsEnough

(* Every answer ends the call or retries it. *)
LEMMA AnswerKeeps ==
  ASSUME TypeOK, CallFields, CallPlace, RetriesAccounted, NEW t \in Tasks, Answer(t)
  PROVE  CallFields' /\ CallPlace' /\ RetriesAccounted'
<1>1. pc[t] = "open" /\ GoTo(t, "idle")
  BY AnswerLeaves DEF Leave, GoIdle
<1>2. End(t) \/ \E pause \in Nat : Retry(t, pause)
  <2>1. RetryAfters \subseteq Nat
    BY LogicalCallAssumption
  <2> QED BY <2>1, PauseType, LogicalCallAssumption
          DEF Answer, Finish, NetworkFailure, Throttled, ThrottledFor, ThrottledTooLong,
              UpstreamTransient, UpstreamQuota
<1> QED BY <1>1, <1>2, EndKeeps, RetryKeeps

(* A cancelled call ends, wherever it was. *)
LEMMA CancelKeeps ==
  ASSUME TypeOK, CallFields, CallPlace, RetriesAccounted, NEW t \in Tasks, CancelCall(t)
  PROVE  CallFields' /\ CallPlace' /\ RetriesAccounted'
<1>1. End(t) /\ (GoTo(t, "idle") \/ (Backing(t) /\ UNCHANGED vars))
  BY DEF CancelCall, Cancel, Leave, GoIdle
<1>2. CASE Backing(t) /\ UNCHANGED vars
  <2>1. pc[t] = "idle"
    BY <1>2 DEF CallPlace
  <2>2. GoTo(t, "idle")
    BY <1>2, <2>1 DEF GoTo, vars, taskVars, TypeOK
  <2> QED BY <1>1, <2>2, EndKeeps
<1> QED BY <1>1, <1>2, EndKeeps

(* A call the limiter refuses ends. *)
LEMMA RefusedKeeps ==
  ASSUME TypeOK, CallFields, CallPlace, RetriesAccounted, NEW t \in Tasks, Refused(t)
  PROVE  CallFields' /\ CallPlace' /\ RetriesAccounted'
BY EndKeeps DEF Refused, Reject, RefusePolicy, GoIdle

(* All steps together keep the accounts of the calls. *)
LEMMA CallsKeep ==
  ASSUME TypeOK, CallFields, CallPlace, RetriesAccounted, [CallNext]_allVars
  PROVE  CallFields' /\ CallPlace' /\ RetriesAccounted'
<1>1. ASSUME UNCHANGED <<pc, call>> PROVE CallFields' /\ CallPlace' /\ RetriesAccounted'
  BY <1>1 DEF CallFields, CallPlace, RetriesAccounted, InCall, Backing
<1> QED
  BY <1>1, BeginKeeps, ResumeKeeps, WaitKeeps, SendKeeps, RefusedKeeps, ArriveKeeps,
     AnswerKeeps, CancelKeeps
  DEF CallNext, CallTick, CallNewDay, ArriveLate, Tick, NewDay, allVars, vars, taskVars

-----------------------------------------------------------------------------
(* The pause asked for stays behind the deadline *)

(* No step takes back the latest deadline recorded. *)
LEMMA DeadlineGrows ==
  ASSUME TypeOK, [Step]_vars
  PROVE  /\ deadline \in Nat /\ deadline' \in Nat /\ deadline <= deadline'
         /\ now \in Nat /\ now' \in Nat /\ now <= now'
<1>1. TypeOK'
  BY TypeStep
<1>2. deadline' = deadline \/ \E d \in Delays : deadline' = Larger(deadline, now + d)
  BY CooldownMoves DEF SetCooldown, Reject, Pace, Start, Cool, ghostVars
<1> QED BY <1>1, <1>2, ClocksMove, RateLimiterAssumption DEF TypeOK, Larger

(* An answer that asks for a pause posts the deadline that covers it. *)
LEMMA QuietAsked ==
  ASSUME TypeOK, QuietKept, NEW t \in Tasks, NEW d \in Nat,
         Leave(t, MarkOf(d)), AskForQuiet(d)
  PROVE  QuietKept'
<1>1. now \in Nat /\ now' = now /\ deadline \in Nat
  BY DEF TypeOK, Leave, clockVars
<1>2. quiet' = Larger(quiet, now + d) /\ quiet \in Nat
  BY DEF AskForQuiet, QuietKept
<1>3. CASE d = 0
  BY <1>1, <1>2, <1>3 DEF Leave, MarkOf, QuietKept, Larger
<1>4. CASE d # 0
  <2>1. deadline' = Larger(deadline, now + d)
    BY <1>4, RateLimiterAssumption DEF Leave, MarkOf, SetCooldown
  <2> QED BY <1>1, <1>2, <2>1 DEF QuietKept, Larger
<1> QED BY <1>3, <1>4

(* The pause asked for is covered by the deadline after every step. *)
LEMMA QuietStep ==
  ASSUME LimiterInvariant, CallFields, CallPlace, QuietKept, [CallNext]_allVars
  PROVE  QuietKept'
<1>1. TypeOK /\ [Step]_vars
  BY CallStepIsStep DEF LimiterInvariant
<1>2. ASSUME quiet' = quiet PROVE QuietKept'
  BY <1>1, <1>2, DeadlineGrows DEF QuietKept
<1>3. ASSUME NEW t \in Tasks, Answer(t) PROVE QuietKept'
  <2>1. ASSUME NEW s \in RetryAfters, ThrottledFor(t, s) PROVE QuietKept'
    BY <1>1, <2>1, QuietAsked, LogicalCallAssumption DEF ThrottledFor
  <2>2. ASSUME NEW s \in RetryAfters, ThrottledTooLong(t, s) PROVE QuietKept'
    BY <1>1, <2>2, QuietAsked, LogicalCallAssumption DEF ThrottledTooLong
  <2>3. ASSUME UpstreamQuota(t) PROVE QuietKept'
    <3>1. QuotaCooldown \in Nat \ {0}
      BY LogicalCallAssumption, RateLimiterAssumption
    <3>2. MarkOf(QuotaCooldown) = QuotaCooldown
      BY <3>1 DEF MarkOf
    <3> QED BY <1>1, <2>3, <3>1, <3>2, QuietAsked DEF UpstreamQuota
  <2> QED BY <1>2, <1>3, <2>1, <2>2, <2>3
    DEF Answer, Finish, NetworkFailure, Throttled, UpstreamTransient, outerVars, pauseVars
<1> QED BY <1>2, <1>3
  DEF CallNext, CallTick, CallNewDay, ArriveLate, Begin, Resume, Wait, Send, Refused,
      Arrive, CancelCall, allVars, outerVars, pauseVars

-----------------------------------------------------------------------------
(* The theorems *)

(* The invariant holds at the start. *)
LEMMA CallInvariantInit == CallInit => CallInvariant
<1> SUFFICES ASSUME CallInit PROVE CallInvariant
  OBVIOUS
<1>1. CallFields
  BY DEF CallInit, CallFields, NoCall
<1>2. CallPlace /\ RetriesAccounted
  BY DEF CallInit, Init, CallPlace, RetriesAccounted, InCall, Backing, NoCall
<1>3. QuietKept
  BY DEF CallInit, Init, QuietKept
<1> QED BY <1>1, <1>2, <1>3, InvariantInit DEF CallInit, CallInvariant

(* Every step keeps it. *)
LEMMA CallInvariantStep == CallInvariant /\ [CallNext]_allVars => CallInvariant'
<1> SUFFICES ASSUME CallInvariant, [CallNext]_allVars PROVE CallInvariant'
  OBVIOUS
<1>1. LimiterInvariant'
  BY CallStepIsStep, InvariantStep DEF CallInvariant
<1>2. CallFields' /\ CallPlace' /\ RetriesAccounted'
  BY CallsKeep DEF CallInvariant, LimiterInvariant
<1>3. QuietKept'
  BY QuietStep DEF CallInvariant
<1> QED BY <1>1, <1>2, <1>3 DEF CallInvariant

(* The fields of the calls agree with their place in the retry loop, with  *)
(* the limiter and with the pauses asked for, in every state.              *)
THEOREM CallInvariantHolds == CallSpec => []CallInvariant
BY CallInvariantInit, CallInvariantStep, PTL DEF CallSpec

(* A logical call touches the limiter through slot() and mark_cooldown()   *)
(* only: every theorem about Behaviour holds of the calls.                 *)
THEOREM CallsUseLimiter == CallSpec => UsesLimiter
<1>1. CallInit => Init
  BY DEF CallInit
<1>2. CallInvariant /\ [CallNext]_allVars => [Step]_vars
  BY CallStepIsStep DEF CallInvariant
<1> QED BY <1>1, <1>2, CallInvariantHolds, PTL DEF CallSpec, UsesLimiter, Behaviour

(* One budget of retries accounts for all requests of a call. *)
THEOREM RetriesAlwaysAccounted == CallSpec => []RetriesAccounted
<1>1. CallInvariant => RetriesAccounted
  BY DEF CallInvariant
<1> QED BY <1>1, CallInvariantHolds, PTL

(* No call sends more than max_retries + 1 requests, for any max_retries. *)
THEOREM SendsAlwaysBounded == CallSpec => []BoundedSends
<1>1. CallInvariant => BoundedSends
  <2> SUFFICES ASSUME CallInvariant, NEW t \in Tasks PROVE call[t].sent <= MaxRetries + 1
    BY DEF BoundedSends
  <2>1. /\ call[t].remaining \in Nat /\ call[t].used \in Nat /\ call[t].sent \in Nat
        /\ MaxRetries \in Nat
    BY LogicalCallAssumption DEF CallInvariant, CallFields
  <2>2. CASE InCall(t)
    BY <2>1, <2>2 DEF CallInvariant, RetriesAccounted
  <2>3. CASE ~InCall(t)
    BY <2>1, <2>3 DEF CallInvariant, CallPlace
  <2> QED BY <2>2, <2>3
<1> QED BY <1>1, CallInvariantHolds, PTL

(* No request starts within a pause an earlier answer asked for. *)
THEOREM QuietAlwaysHonoured == CallSpec => QuietHonoured
<1>1. CallInvariant /\ [CallNext]_allVars => [served' # served => quiet <= now]_allVars
  <2> SUFFICES ASSUME CallInvariant, [CallNext]_allVars, served' # served
               PROVE  quiet <= now
    OBVIOUS
  <2>1. LimiterInvariant /\ [Step]_vars
    BY CallStepIsStep DEF CallInvariant
  <2>2. deadline <= now
    BY <2>1, StartAfterDeadline
  <2> QED BY <2>2 DEF CallInvariant, LimiterInvariant, TypeOK, QuietKept
<1> QED BY <1>1, CallInvariantHolds, PTL DEF CallSpec, QuietHonoured

-----------------------------------------------------------------------------
(***************************************************************************)
(* The requests in a slot that have not arrived are within the concurrency *)
(* of the group.  Of a date, the requests counted, those in a slot and     *)
(* those adrift are at most as many as were admitted on it, were in a slot *)
(* when it began or were adrift then.                                      *)
(***************************************************************************)
Underway == {t \in Inside : ~call[t].asked}

Room == IF policy = None THEN 0 ELSE policy.limit

ArrivalsKept ==
  /\ arrived \in [Days -> Nat] /\ strays \in [Days -> Nat] /\ adrift \in Nat
  /\ \A d \in Days : d < today => arrived[d] <= served[d] + Room + strays[d]
  /\ \A d \in Days : d > today => arrived[d] = 0
  /\ arrived[today] + Cardinality(Underway) + adrift
       <= served[today] + Room + strays[today]

(* The requests under way can be counted, and there is room for them. *)
LEMMA UnderwayFits ==
  LimiterInvariant => /\ IsFiniteSet(Underway) /\ Cardinality(Underway) \in Nat
                      /\ Room \in Nat /\ Cardinality(Underway) <= Room
<1> SUFFICES ASSUME LimiterInvariant
             PROVE  /\ IsFiniteSet(Underway) /\ Cardinality(Underway) \in Nat
                    /\ Room \in Nat /\ Cardinality(Underway) <= Room
  OBVIOUS
<1>1. Underway \subseteq PermitHolders
  BY DEF Underway, Inside, PermitHolders, At
<1>2. /\ IsFiniteSet(Underway) /\ Cardinality(Underway) \in Nat
      /\ Cardinality(PermitHolders) \in Nat
      /\ Cardinality(Underway) <= Cardinality(PermitHolders)
  BY <1>1, HoldersFinite, FS_Subset, FS_CardinalityType
<1>3. Room \in Nat
  BY RateLimiterAssumption DEF Room, LimiterInvariant, TypeOK, Policy
<1>4. permits \in Nat /\ permits + Cardinality(PermitHolders) = Room
  BY DEF LimiterInvariant, TypeOK, PermitsConserved, Room
<1> QED BY <1>2, <1>3, <1>4

(* A settled policy stays, and none has room for less than no policy. *)
LEMMA RoomGrows ==
  ASSUME LimiterInvariant, LimiterInvariant', [Step]_vars
  PROVE  Room \in Nat /\ Room' \in Nat /\ Room <= Room'
<1>1. Room \in Nat /\ Room' \in Nat
  BY RateLimiterAssumption DEF Room, LimiterInvariant, TypeOK, Policy
<1>2. policy' = policy \/ policy = None
  BY PolicySettled
<1> QED BY <1>1, <1>2 DEF Room

(* Which requests are under way changes with the task that moves only. *)
LEMMA UnderwayMoves ==
  ASSUME NEW t \in Tasks, Others(t)
  PROVE  /\ Underway' \subseteq Underway \cup {t}
         /\ pc'[t] # "open" \/ call'[t].asked => Underway' \subseteq Underway \ {t}
BY DEF Others, Underway, Inside, At

(* Only the task that moves is concerned by a step, and a request is given *)
(* up only by leaving its slot.                                            *)
Moves(t) ==
  /\ Others(t) /\ pc'[t] # "open"
  /\ UNCHANGED <<today, served, arrived, strays>>
  /\ adrift' = adrift \/ (adrift' = adrift + 1 /\ t \in Underway)

LEMMA OneMover ==
  ASSUME TypeOK, CallFields, CallPlace, NEW t \in Tasks,
         \/ \E p \in Policies : Begin(t, p)
         \/ Resume(t) \/ Wait(t) \/ Refused(t) \/ Answer(t) \/ CancelCall(t)
  PROVE  Moves(t)
<1> USE DEF Moves
<1>1. ASSUME NEW p \in Policies, Begin(t, p) PROVE Moves(t)
  BY <1>1, OneTask
  DEF Begin, Enter, Queue, GoTo, TypeOK, clockVars, ghostVars, outerVars, netVars
<1>2. ASSUME Resume(t) PROVE Moves(t)
  <2>1. call' = [call EXCEPT ![t] = [call[t] EXCEPT !.wake = None]]
    BY <1>2 DEF Resume, CallFields
  <2> QED BY <1>2, <2>1, OneTask
          DEF Resume, Enter, Queue, GoTo, TypeOK, clockVars, ghostVars, outerVars, netVars
<1>3. ASSUME Wait(t) PROVE Moves(t)
  BY <1>3 DEF Wait, SettlePolicy, TakePermit, Cool, Pace, PassCooldown, GoTo, TypeOK,
              Others, clockVars, ghostVars, outerVars, netVars
<1>4. ASSUME Refused(t) PROVE Moves(t)
  BY <1>4, OneTask DEF Refused, Reject, RefusePolicy, End, GoIdle, GoTo, TypeOK,
                       clockVars, ghostVars, outerVars, netVars
<1>5. ASSUME Abandon(t) PROVE adrift' = adrift \/ (adrift' = adrift + 1 /\ t \in Underway)
  BY <1>5 DEF Abandon, Underway, Inside, At
<1>6. ASSUME Answer(t) PROVE Moves(t)
  <2>1. PICK d \in Delays \cup {None} : Leave(t, d)
    BY <1>6, AnswerLeaves
  <2>2. GoTo(t, "idle") /\ UNCHANGED <<today, served>>
    BY <2>1 DEF Leave, GoIdle, clockVars
  <2>3. UNCHANGED <<arrived, strays>> /\ (adrift' = adrift \/ Abandon(t))
    BY <1>6 DEF Answer, Finish, NetworkFailure, Throttled, ThrottledFor, ThrottledTooLong,
                UpstreamTransient, UpstreamQuota, outerVars, netVars
  <2>4. End(t) \/ \E pause : Retry(t, pause)
    BY <1>6 DEF Answer, Finish, NetworkFailure, Throttled, ThrottledFor, ThrottledTooLong,
                UpstreamTransient, UpstreamQuota
  <2>5. \A u \in Tasks \ {t} : call'[u] = call[u]
    BY <2>4 DEF End, Retry, CallFields
  <2> QED BY <1>5, <2>2, <2>3, <2>5 DEF Others, GoTo, TypeOK
<1>7. ASSUME CancelCall(t) PROVE Moves(t)
  <2>1. /\ End(t) /\ UNCHANGED <<today, served, arrived, strays>> /\ Abandon(t)
        /\ GoTo(t, "idle") \/ (Backing(t) /\ pc' = pc)
    BY <1>7 DEF CancelCall, Cancel, Leave, GoIdle, vars, taskVars, clockVars, ghostVars
  <2>2. pc'[t] = "idle" /\ \A u \in Tasks \ {t} : pc'[u] = pc[u]
    BY <2>1 DEF GoTo, CallPlace, TypeOK
  <2> QED BY <1>5, <2>1, <2>2 DEF Others, End, CallFields
<1> QED BY <1>1, <1>2, <1>3, <1>4, <1>6, <1>7

(* The sets of requests under way before and after a step. *)
LEMMA UnderwayCounted ==
  ASSUME LimiterInvariant, LimiterInvariant'
  PROVE  /\ IsFiniteSet(Underway) /\ Cardinality(Underway) \in Nat
         /\ IsFiniteSet(Underway') /\ Cardinality(Underway') \in Nat
         /\ Cardinality(Underway') <= Room'
<1>1. (LimiterInvariant => /\ IsFiniteSet(Underway) /\ Cardinality(Underway) \in Nat
                           /\ Room \in Nat /\ Cardinality(Underway) <= Room)'
  BY UnderwayFits, PTL
<1> QED BY <1>1, UnderwayFits

(* A request that arrives is not under way any more. *)
LEMMA ArriveCounts ==
  ASSUME LimiterInvariant, LimiterInvariant', CallFields, NEW t \in Tasks, Arrive(t)
  PROVE  Cardinality(Underway') <= Cardinality(Underway) - 1
<1>1. pc' = pc /\ t \in Underway
  BY DEF Arrive, vars, taskVars, Underway, Inside, At
<1>2. Others(t) /\ call'[t].asked
  <2>1. call' = [call EXCEPT ![t] = [call[t] EXCEPT !.asked = TRUE]]
    BY DEF Arrive, CallFields
  <2>2. call'[t] = [call[t] EXCEPT !.asked = TRUE]
    BY <2>1 DEF CallFields
  <2>3. call'[t].asked
    BY <2>2 DEF CallFields
  <2> QED BY <1>1, <2>1, <2>3 DEF Others, CallFields
<1>3. IsFiniteSet(Underway \ {t}) /\ Cardinality(Underway \ {t}) = Cardinality(Underway) - 1
  BY <1>1, UnderwayCounted, FS_RemoveElement
<1> QED BY <1>2, <1>3, UnderwayMoves, FS_Subset

(* Whoever leaves a slot is not under way any more, and an abandoned       *)
(* request was.                                                            *)
LEMMA MoverCounts ==
  ASSUME LimiterInvariant, LimiterInvariant', NEW t \in Tasks, Moves(t), adrift \in Nat
  PROVE  /\ Underway' \subseteq Underway /\ adrift' \in Nat
         /\ Cardinality(Underway') + adrift' <= Cardinality(Underway) + adrift
<1>1. Underway' \subseteq Underway \ {t}
  BY UnderwayMoves DEF Moves
<1>2. CASE adrift' = adrift
  <2>1. Underway' \subseteq Underway
    BY <1>1
  <2>2. Cardinality(Underway') <= Cardinality(Underway)
    BY <2>1, UnderwayCounted, FS_Subset
  <2> QED BY <1>2, <2>1, <2>2, UnderwayCounted
<1>3. CASE adrift' = adrift + 1 /\ t \in Underway
  <2>1. IsFiniteSet(Underway \ {t})
        /\ Cardinality(Underway \ {t}) = Cardinality(Underway) - 1
    BY <1>3, UnderwayCounted, FS_RemoveElement
  <2>2. Cardinality(Underway') <= Cardinality(Underway) - 1
    BY <1>1, <2>1, FS_Subset
  <2> QED BY <1>1, <1>3, <2>2, UnderwayCounted
<1> QED BY <1>2, <1>3 DEF Moves

(* At the start nothing is under way. *)
LEMMA ArrivalsInit == CallInit => ArrivalsKept
<1> SUFFICES ASSUME CallInit PROVE ArrivalsKept
  OBVIOUS
<1>1. LimiterInvariant /\ Room \in Nat
  BY InvariantInit, UnderwayFits DEF CallInit
<1>2. Underway = {}
  BY DEF CallInit, Init, Underway, Inside, At
<1> QED BY <1>1, <1>2, FS_EmptySet, RateLimiterAssumption
        DEF CallInit, Init, ArrivalsKept, LimiterInvariant, TypeOK, Days

(* An admission makes room for the arrival it is followed by, a request    *)
(* given up is adrift, and a new date finds at most as many requests under *)
(* way as there is room for.                                               *)
LEMMA ArrivalsStep ==
  ASSUME CallInvariant, CallInvariant', ArrivalsKept, [CallNext]_allVars
  PROVE  ArrivalsKept'
<1>1. /\ LimiterInvariant /\ LimiterInvariant' /\ TypeOK /\ TypeOK'
      /\ CallFields /\ CallPlace /\ [Step]_vars
  BY CallStepIsStep DEF CallInvariant, LimiterInvariant
<1>2. Room \in Nat /\ Room' \in Nat /\ Room <= Room'
  BY <1>1, RoomGrows
<1>3. /\ today \in Int /\ today \in Days /\ served \in [Days -> Nat]
      /\ today' \in Int /\ today' \in Days /\ served' \in [Days -> Nat]
      /\ arrived \in [Days -> Nat] /\ strays \in [Days -> Nat] /\ adrift \in Nat
  BY <1>1 DEF TypeOK, Days, ArrivalsKept
<1>4. /\ IsFiniteSet(Underway) /\ Cardinality(Underway) \in Nat
      /\ IsFiniteSet(Underway') /\ Cardinality(Underway') \in Nat
      /\ Cardinality(Underway') <= Room'
  BY <1>1, UnderwayCounted
<1>5. /\ arrived[today] \in Nat /\ served[today] \in Nat /\ strays[today] \in Nat
      /\ arrived[today] + Cardinality(Underway) + adrift
           <= served[today] + Room + strays[today]
  BY <1>3 DEF ArrivalsKept
<1>6. ASSUME UNCHANGED <<today, served, strays>>, arrived' \in [Days -> Nat], adrift' \in Nat,
             \A d \in Days : d # today => arrived'[d] = arrived[d],
             arrived'[today] + Cardinality(Underway') + adrift'
               <= arrived[today] + Cardinality(Underway) + adrift
      PROVE  ArrivalsKept'
  <2>1. ASSUME NEW d \in Days, d < today
        PROVE  arrived'[d] <= served[d] + Room' + strays[d]
    <3>1. /\ arrived[d] <= served[d] + Room + strays[d]
          /\ arrived[d] \in Nat /\ served[d] \in Nat /\ strays[d] \in Nat
      BY <1>3, <2>1 DEF ArrivalsKept
    <3>2. arrived'[d] = arrived[d]
      BY <1>3, <1>6, <2>1
    <3> QED BY <1>2, <3>1, <3>2
  <2>2. \A d \in Days : d > today => arrived'[d] = 0
    BY <1>3, <1>6 DEF ArrivalsKept
  <2>3. arrived'[today] + Cardinality(Underway') + adrift'
          <= served[today] + Room' + strays[today]
    <3>1. arrived'[today] \in Nat
      BY <1>3, <1>6
    <3> QED BY <1>2, <1>3, <1>4, <1>5, <1>6, <3>1
  <2> QED BY <1>3, <1>6, <2>1, <2>2, <2>3 DEF ArrivalsKept
<1>7. ASSUME NEW t \in Tasks, Send(t) PROVE ArrivalsKept'
  <2>1. /\ served' = [served EXCEPT ![today] = @ + 1] /\ today' = today
        /\ arrived' = arrived /\ strays' = strays /\ adrift' = adrift
    BY <1>7 DEF Send, Start, PassCooldown, clockVars, outerVars, netVars
  <2>2. Others(t)
    <3>1. call' = [call EXCEPT ![t] = [call[t] EXCEPT !.sent = @ + 1]]
      BY <1>1, <1>7 DEF Send, CallFields
    <3> QED BY <1>1, <1>7, <3>1, OneTask DEF Send, Start
  <2>3. Cardinality(Underway') <= Cardinality(Underway) + 1
    <3>1. /\ IsFiniteSet(Underway \cup {t})
          /\ Cardinality(Underway \cup {t}) \in {Cardinality(Underway), Cardinality(Underway) + 1}
      BY <1>4, FS_AddElement
    <3>2. Cardinality(Underway') <= Cardinality(Underway \cup {t})
      BY <2>2, <3>1, UnderwayMoves, FS_Subset
    <3> QED BY <1>4, <3>1, <3>2
  <2>4. served'[today] = served[today] + 1 /\ \A d \in Days : d # today => served'[d] = served[d]
    BY <1>3, <2>1
  <2>5. arrived'[today'] + Cardinality(Underway') + adrift'
          <= served'[today'] + Room' + strays'[today']
    BY <1>2, <1>3, <1>4, <1>5, <2>1, <2>3, <2>4
  <2>6. ASSUME NEW d \in Days, d < today
        PROVE  arrived[d] <= served'[d] + Room' + strays[d]
    <3>1. /\ arrived[d] <= served[d] + Room + strays[d]
          /\ arrived[d] \in Nat /\ served[d] \in Nat /\ strays[d] \in Nat
      BY <1>3, <2>6 DEF ArrivalsKept
    <3>2. served'[d] = served[d]
      BY <1>3, <2>4, <2>6
    <3> QED BY <1>2, <3>1, <3>2
  <2> QED BY <1>3, <2>1, <2>5, <2>6 DEF ArrivalsKept
<1>8. ASSUME NEW t \in Tasks, Arrive(t) PROVE ArrivalsKept'
  <2>1. /\ arrived' = [arrived EXCEPT ![today] = @ + 1] /\ adrift' = adrift
        /\ UNCHANGED <<today, served, strays>>
    BY <1>8 DEF Arrive, vars, clockVars, ghostVars
  <2>2. /\ arrived'[today] = arrived[today] + 1 /\ arrived' \in [Days -> Nat]
        /\ \A d \in Days : d # today => arrived'[d] = arrived[d]
    BY <1>3, <2>1
  <2>3. Cardinality(Underway') <= Cardinality(Underway) - 1
    BY <1>1, <1>8, ArriveCounts
  <2>4. arrived'[today] + Cardinality(Underway') + adrift'
          <= arrived[today] + Cardinality(Underway) + adrift
    BY <1>3, <1>4, <1>5, <2>1, <2>2, <2>3
  <2> QED BY <1>3, <1>6, <2>1, <2>2, <2>4
<1>9. ASSUME ArriveLate PROVE ArrivalsKept'
  <2>1. /\ arrived' = [arrived EXCEPT ![today] = @ + 1]
        /\ adrift > 0 /\ adrift' = adrift - 1
        /\ UNCHANGED <<today, served, strays, pc, call>>
    BY <1>9 DEF ArriveLate, vars, clockVars, ghostVars, taskVars
  <2>2. /\ arrived'[today] = arrived[today] + 1 /\ arrived' \in [Days -> Nat]
        /\ \A d \in Days : d # today => arrived'[d] = arrived[d]
    BY <1>3, <2>1
  <2>3. Underway' = Underway
    BY <2>1 DEF Underway, Inside, At
  <2>4. arrived'[today] + Cardinality(Underway') + adrift'
          <= arrived[today] + Cardinality(Underway) + adrift
    BY <1>3, <1>4, <1>5, <2>1, <2>2, <2>3
  <2>5. adrift' \in Nat
    BY <1>3, <2>1
  <2> QED BY <1>6, <2>1, <2>2, <2>4, <2>5
<1>10. ASSUME CallNewDay PROVE ArrivalsKept'
  <2>1. /\ today' = today + 1 /\ strays' = [strays EXCEPT ![today + 1] = adrift]
        /\ UNCHANGED <<served, arrived, adrift>>
    BY <1>10 DEF CallNewDay, NewDay, ghostVars
  <2>2. ASSUME NEW d \in Days, d < today'
        PROVE  arrived'[d] <= served'[d] + Room' + strays'[d]
    <3>1. d < today \/ d = today
      BY <1>3, <2>1, <2>2 DEF Days
    <3>2. arrived[d] \in Nat /\ served[d] \in Nat /\ strays[d] \in Nat
      BY <1>3
    <3>3. arrived[d] <= served[d] + Room + strays[d]
      BY <1>2, <1>3, <1>4, <1>5, <3>1, <3>2 DEF ArrivalsKept
    <3>4. strays'[d] = strays[d]
      BY <1>3, <2>1, <2>2, <3>1 DEF Days
    <3> QED BY <1>2, <2>1, <3>2, <3>3, <3>4
  <2>3. \A d \in Days : d >= today' => arrived'[d] = 0
    BY <1>3, <2>1 DEF ArrivalsKept, Days
  <2>4. strays' \in [Days -> Nat] /\ strays'[today'] = adrift
    BY <1>3, <2>1
  <2>5. arrived'[today'] = 0 /\ served'[today'] \in Nat
    BY <1>3, <2>3
  <2>6. arrived'[today'] + Cardinality(Underway') + adrift'
          <= served'[today'] + Room' + strays'[today']
    BY <1>2, <1>3, <1>4, <2>1, <2>4, <2>5
  <2> QED BY <1>3, <2>1, <2>2, <2>3, <2>4, <2>6 DEF ArrivalsKept, Days
<1>11. ASSUME NEW t \in Tasks,
              \/ \E p \in Policies : Begin(t, p)
              \/ Resume(t) \/ Wait(t) \/ Refused(t) \/ Answer(t) \/ CancelCall(t)
      PROVE  ArrivalsKept'
  <2>1. Moves(t)
    BY <1>1, <1>11, OneMover
  <2>2. adrift' \in Nat /\ Cardinality(Underway') + adrift' <= Cardinality(Underway) + adrift
    BY <1>1, <1>3, <2>1, MoverCounts
  <2>3. UNCHANGED <<today, served, arrived, strays>>
    BY <2>1 DEF Moves
  <2>4. arrived'[today] + Cardinality(Underway') + adrift'
          <= arrived[today] + Cardinality(Underway) + adrift
    BY <1>3, <1>4, <1>5, <2>2, <2>3
  <2> QED BY <1>3, <1>6, <2>2, <2>3, <2>4
<1>12. ASSUME CallTick \/ UNCHANGED allVars PROVE ArrivalsKept'
  <2>1. UNCHANGED <<pc, call, today, served, arrived, strays, adrift>>
    BY <1>12
    DEF CallTick, Tick, allVars, vars, clockVars, taskVars, ghostVars, outerVars, netVars
  <2>2. Underway' = Underway
    BY <2>1 DEF Underway, Inside, At
  <2>3. arrived'[today] + Cardinality(Underway') + adrift'
          <= arrived[today] + Cardinality(Underway) + adrift
    BY <1>3, <1>4, <1>5, <2>1, <2>2
  <2> QED BY <1>3, <1>6, <2>1, <2>3
<1> QED BY <1>7, <1>8, <1>9, <1>10, <1>11, <1>12 DEF CallNext

(* There is always room for the requests under way. *)
THEOREM ArrivalsAlwaysKept == CallSpec => []ArrivalsKept
BY ArrivalsInit, ArrivalsStep, CallInvariantHolds, PTL DEF CallSpec

(* The provider never counts more than the budget and the concurrency      *)
(* together on one date, and what was adrift when it began, wherever       *)
(* midnight falls between the admission of a request and its arrival.      *)
THEOREM ArrivalsAlwaysBounded == CallSpec => []ArrivalsBounded
<1>1. CallInvariant /\ ArrivalsKept => ArrivalsBounded
  <2> SUFFICES ASSUME CallInvariant, ArrivalsKept, policy # None, policy.budget # None,
                      NEW d \in Days
               PROVE  arrived[d] <= policy.budget + policy.limit + strays[d]
    BY DEF ArrivalsBounded
  <2>1. /\ served[d] \in Nat /\ served[d] <= policy.budget
        /\ policy.budget \in Nat /\ policy.limit \in Nat
        /\ today \in Int /\ d \in Int
    BY RateLimiterAssumption
    DEF CallInvariant, LimiterInvariant, TypeOK, DailyBudgetHeld, Policy, Days
  <2>2. Room = policy.limit
    BY DEF Room
  <2>3. Cardinality(Underway) \in Nat
    BY UnderwayFits DEF CallInvariant
  <2>4. arrived[d] \in Nat /\ strays[d] \in Nat /\ adrift \in Nat
    BY DEF ArrivalsKept
  <2> QED BY <2>1, <2>2, <2>3, <2>4 DEF ArrivalsKept
<1> QED BY <1>1, CallInvariantHolds, ArrivalsAlwaysKept, PTL

-----------------------------------------------------------------------------
(* In a pause the requests that have arrived and those that still may,     *)
(* from a slot, are together fewer than the concurrency of the group.      *)
PauseKept ==
  /\ late \in Nat
  /\ now < quiet => late + Cardinality(Underway) < Room

(* An answer asks for a pause in the name of a request that has arrived.   *)
LEMMA AnswerPauses ==
  ASSUME NEW t \in Tasks, Answer(t)
  PROVE  UNCHANGED pauseVars \/ (call[t].asked /\ \E d \in Nat : AskForQuiet(d))
<1>1. QuotaCooldown \in Nat /\ MaxBackoff \in Nat /\ RetryAfters \subseteq Nat
  BY LogicalCallAssumption, RateLimiterAssumption
<1> QED BY <1>1
  DEF Answer, Finish, NetworkFailure, Throttled, ThrottledFor, ThrottledTooLong,
      UpstreamTransient, UpstreamQuota, outerVars

(* A pause keeps its count: nothing is admitted in it, what arrives was    *)
(* under way, and the answer that begins it has given up one place of all. *)
LEMMA PauseStep ==
  ASSUME CallInvariant, CallInvariant', ArrivalsKept, PauseKept, [CallNext]_allVars
  PROVE  PauseKept'
<1>1. /\ LimiterInvariant /\ LimiterInvariant' /\ TypeOK /\ TypeOK'
      /\ CallFields /\ CallPlace /\ QuietKept /\ [Step]_vars
  BY CallStepIsStep DEF CallInvariant, LimiterInvariant
<1>2. Room \in Nat /\ Room' \in Nat /\ Room <= Room'
  BY <1>1, RoomGrows
<1>3. Cardinality(Underway) \in Nat /\ Cardinality(Underway') \in Nat
  BY <1>1, UnderwayCounted
<1>4. /\ now \in Nat /\ now' \in Nat /\ now <= now' /\ deadline \in Nat
      /\ quiet \in Nat /\ quiet' \in Nat /\ late \in Nat /\ adrift \in Nat
  BY <1>1, DeadlineGrows DEF QuietKept, CallInvariant, PauseKept, ArrivalsKept
<1>5. ASSUME UNCHANGED pauseVars, Cardinality(Underway') <= Cardinality(Underway)
      PROVE  PauseKept'
  BY <1>2, <1>3, <1>4, <1>5 DEF PauseKept, pauseVars
<1>6. ASSUME NEW t \in Tasks, Send(t) PROVE PauseKept'
  <2>1. deadline <= now
    <3>1. served' # served
      <4>1. served' = [served EXCEPT ![today] = @ + 1]
        BY <1>6 DEF Send, Start
      <4> QED BY <1>1, <4>1 DEF TypeOK
    <3> QED BY <1>1, <3>1, StartAfterDeadline
  <2>2. now' = now /\ UNCHANGED pauseVars
    BY <1>6 DEF Send, Start, clockVars, outerVars
  <2> QED BY <1>1, <1>4, <2>1, <2>2 DEF QuietKept, PauseKept, pauseVars
<1>7. ASSUME NEW t \in Tasks, Arrive(t) PROVE PauseKept'
  <2>1. now' = now /\ quiet' = quiet /\ late' = IF now < quiet THEN late + 1 ELSE late
    BY <1>7 DEF Arrive, vars, clockVars
  <2>2. Cardinality(Underway') <= Cardinality(Underway) - 1
    BY <1>1, <1>7, ArriveCounts
  <2> QED BY <1>2, <1>3, <1>4, <2>1, <2>2 DEF PauseKept
<1>8. ASSUME NEW t \in Tasks, Answer(t), call[t].asked, NEW d \in Nat, AskForQuiet(d)
      PROVE  PauseKept'
  <2>1. Underway' \subseteq Underway \ {t} /\ pc[t] = "open" /\ now' = now
    <3>1. Moves(t)
      BY <1>1, <1>8, OneMover
    <3>2. PICK e \in Delays \cup {None} : Leave(t, e)
      BY <1>8, AnswerLeaves
    <3> QED BY <3>1, <3>2, UnderwayMoves DEF Moves, Leave, clockVars
  <2>2. /\ quiet' = Larger(quiet, now + d)
        /\ late' = IF now < quiet THEN late ELSE 0
    BY <1>8 DEF AskForQuiet
  <2>3. CASE now < quiet
    <3>1. Cardinality(Underway') <= Cardinality(Underway)
      <4>1. Underway' \subseteq Underway
        BY <2>1
      <4> QED BY <1>1, <4>1, UnderwayCounted, FS_Subset
    <3>2. late + Cardinality(Underway) < Room /\ late' = late
      BY <2>2, <2>3 DEF PauseKept
    <3>3. late' + Cardinality(Underway') < Room'
      BY <1>2, <1>3, <1>4, <3>1, <3>2
    <3> QED BY <1>4, <3>2, <3>3 DEF PauseKept
  <2>4. CASE ~(now < quiet)
    <3>1. t \in PermitHolders /\ Underway' \subseteq PermitHolders \ {t}
      BY <2>1 DEF PermitHolders, Underway, Inside, At
    <3>2. /\ IsFiniteSet(PermitHolders) /\ Cardinality(PermitHolders) \in Nat
          /\ Cardinality(PermitHolders) <= Room
      <4>1. permits \in Nat /\ permits + Cardinality(PermitHolders) = Room
        BY <1>1 DEF LimiterInvariant, TypeOK, PermitsConserved, Room
      <4>2. IsFiniteSet(PermitHolders) /\ Cardinality(PermitHolders) \in Nat
        BY HoldersFinite, FS_CardinalityType
      <4> QED BY <1>2, <4>1, <4>2
    <3>3. /\ IsFiniteSet(PermitHolders \ {t})
          /\ Cardinality(PermitHolders \ {t}) = Cardinality(PermitHolders) - 1
      BY <3>1, <3>2, FS_RemoveElement
    <3>4. Cardinality(Underway') <= Cardinality(PermitHolders \ {t})
      BY <3>1, <3>3, FS_Subset
    <3>5. late' = 0
      BY <2>2, <2>4
    <3>6. late' + Cardinality(Underway') < Room'
      BY <1>2, <1>3, <3>2, <3>3, <3>4, <3>5
    <3> QED BY <3>5, <3>6 DEF PauseKept
  <2> QED BY <2>3, <2>4
<1>9. ASSUME NEW t \in Tasks, UNCHANGED pauseVars,
             \/ \E p \in Policies : Begin(t, p)
             \/ Resume(t) \/ Wait(t) \/ Refused(t) \/ Answer(t) \/ CancelCall(t)
      PROVE  PauseKept'
  <2>1. Moves(t)
    BY <1>1, <1>9, OneMover
  <2>2. Underway' \subseteq Underway
    BY <1>1, <1>4, <2>1, MoverCounts
  <2>3. Cardinality(Underway') <= Cardinality(Underway)
    BY <1>1, <2>2, UnderwayCounted, FS_Subset
  <2> QED BY <1>5, <1>9, <2>3
<1>10. ASSUME NEW t \in Tasks, Answer(t) PROVE PauseKept'
  BY <1>8, <1>9, <1>10, AnswerPauses
<1>11. ASSUME NEW t \in Tasks,
              \/ \E p \in Policies : Begin(t, p)
              \/ Resume(t) \/ Wait(t) \/ Refused(t) \/ CancelCall(t)
       PROVE  PauseKept'
  <2>1. UNCHANGED pauseVars
    BY <1>11 DEF Begin, Resume, Wait, Refused, CancelCall, outerVars
  <2> QED BY <1>9, <1>11, <2>1
<1>12. ASSUME CallTick \/ CallNewDay \/ ArriveLate \/ UNCHANGED allVars PROVE PauseKept'
  <2>1. UNCHANGED <<pc, call, pauseVars>>
    BY <1>12
    DEF CallTick, CallNewDay, ArriveLate, Tick, NewDay, allVars, vars, taskVars, outerVars
  <2>2. Underway' = Underway
    BY <2>1 DEF Underway, Inside, At
  <2> QED BY <1>3, <1>5, <2>1, <2>2
<1> QED BY <1>6, <1>7, <1>10, <1>11, <1>12 DEF CallNext

(* The account of the pause holds in every state. *)
THEOREM PauseAlwaysKept == CallSpec => []PauseKept
<1>1. CallInit => PauseKept
  BY DEF CallInit, Init, PauseKept
<1> QED BY <1>1, PauseStep, CallInvariantHolds, ArrivalsAlwaysKept, PTL DEF CallSpec

(* A pause meets fewer requests than the group may have in flight: of      *)
(* those admitted before it, the one whose answer asked for it is back.    *)
THEOREM FewAlwaysInPause == CallSpec => []FewInPause
<1>1. CallInvariant /\ PauseKept => FewInPause
  <2> SUFFICES ASSUME CallInvariant, PauseKept, now < quiet
               PROVE  policy # None /\ late < policy.limit
    BY DEF FewInPause
  <2>1. /\ Cardinality(Underway) \in Nat /\ late \in Nat /\ Room \in Nat
        /\ late + Cardinality(Underway) < Room
    BY UnderwayFits DEF CallInvariant, PauseKept
  <2>2. late < Room /\ Room # 0
    BY <2>1
  <2> QED BY <2>2 DEF Room
<1> QED BY <1>1, CallInvariantHolds, PauseAlwaysKept, PTL

(* Every variable of the calls holds a value of its kind, and a task is in *)
(* the limiter just when its call is not backing off.                      *)
THEOREM CallTypeCorrect == CallSpec => []CallTypeOK
<1>1. CallInvariant /\ ArrivalsKept /\ PauseKept => CallTypeOK
  <2> SUFFICES ASSUME CallInvariant, ArrivalsKept, PauseKept PROVE CallTypeOK
    OBVIOUS
  <2> DEFINE C == [policy : Policies \cup {None}, remaining : 0..MaxRetries,
                   used : 0..MaxRetries, wake : Nat \cup {None},
                   sent : Nat, asked : BOOLEAN]
  <2>1. ASSUME NEW t \in Tasks PROVE call[t] \in C
    <3>1. call[t].remaining \in 0..MaxRetries /\ call[t].used \in 0..MaxRetries
      BY LogicalCallAssumption
      DEF CallInvariant, CallFields, CallPlace, RetriesAccounted, InCall
    <3> QED BY <3>1 DEF CallInvariant, CallFields
  <2>2. call \in [Tasks -> C]
    BY <2>1 DEF CallInvariant, CallFields
  <2> QED BY <2>2
          DEF CallInvariant, LimiterInvariant, CallPlace, QuietKept, ArrivalsKept, PauseKept,
              CallTypeOK
<1> QED BY <1>1, CallInvariantHolds, ArrivalsAlwaysKept, PauseAlwaysKept, PTL
=============================================================================
