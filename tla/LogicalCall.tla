----------------------------- MODULE LogicalCall -----------------------------
(***************************************************************************)
(* Logical calls of SeoulOpenDataClient through one service group of the   *)
(* limiter: _query (client.py) around AsyncSeoulTransport.request and      *)
(* _request_with_retry (transport.py) around ServiceRateLimiter.slot().    *)
(*                                                                         *)
(* A task runs one logical call at a time.  The tasks may belong to        *)
(* several clients: what they share is the limiter of the scope.  Requests *)
(* refused before they reach the limiter (missing key, insecure endpoint,  *)
(* wrong page range) change nothing and are left out; the settings are     *)
(* those of one unchanging configuration.                                  *)
(***************************************************************************)
EXTENDS RateLimiter

CONSTANTS
  MaxRetries,     \* max_retries
  Base,           \* retry_backoff_seconds
  MaxBackoff,     \* retry_backoff_max_seconds
  Jitter,         \* the largest random addition to a backoff of the transport
  QuotaCooldown,  \* upstream_quota_cooldown_seconds
  RetryAfters     \* the Retry-After values the provider sends, in seconds

ASSUME LogicalCallAssumption ==
  /\ MaxRetries \in Nat /\ Base \in Nat /\ MaxBackoff \in Nat /\ Jitter \in Nat
  /\ QuotaCooldown \in Delays
  /\ RetryAfters \subseteq Nat
  /\ (RetryAfters \cap (1..MaxBackoff)) \cup ({MaxBackoff} \ {0}) \subseteq Delays

VARIABLES
  call,     \* the logical call each task is in, or NoCall
  adrift,   \* requests given up before they arrived, which still may arrive
  arrived,  \* history: requests the provider has received on each date
  strays,   \* history: requests adrift when each date began
  quiet,    \* history: the provider has asked for no request before this time
  late      \* history: requests in a slot that arrived in the latest such pause

netVars   == <<adrift, arrived, strays>>
pauseVars == <<quiet, late>>
outerVars == <<netVars, pauseVars>>
allVars   == <<vars, call, outerVars>>

(***************************************************************************)
(* A call in progress: the policy it runs under, RetryBudget.remaining and *)
(* used, the time a backoff ends (None outside a backoff), the requests    *)
(* admitted for it so far, and whether the request in its slot has reached *)
(* the provider.                                                           *)
(***************************************************************************)
Fresh(p) == [policy |-> p, remaining |-> MaxRetries, used |-> 0, wake |-> None,
             sent |-> 0, asked |-> FALSE]

NoCall == [policy |-> None, remaining |-> 0, used |-> 0, wake |-> None,
           sent |-> 0, asked |-> FALSE]

InCall(t)  == call[t].policy # None
Backing(t) == call[t].wake # None

CallInit ==
  /\ Init
  /\ call = [t \in Tasks |-> NoCall]
  /\ adrift = 0
  /\ arrived = [d \in Days |-> 0] /\ strays = [d \in Days |-> 0]
  /\ quiet = 0 /\ late = 0

-----------------------------------------------------------------------------
Smaller(a, b) == IF a <= b THEN a ELSE b

End(t) == call' = [call EXCEPT ![t] = NoCall]

(* Fault: a retry is not taken off the budget, or the last failure is not  *)
(* raised.                                                                 *)
RetryForFree(t, pause) ==
  IF call[t].remaining = 0
  THEN End(t)
  ELSE call' = [call EXCEPT ![t].wake = now + pause, ![t].asked = FALSE]

RetryForgetful(t, pause) ==
  IF call[t].remaining = 0
  THEN UNCHANGED call
  ELSE call' = [call EXCEPT ![t].remaining = @ - 1, ![t].used = @ + 1,
                            ![t].wake = now + pause, ![t].asked = FALSE]

(* RetryBudget.consume(): one budget for both layers of a logical call.    *)
(* Used up, the last failure is raised; otherwise the task backs off, with *)
(* no slot, and then starts over.                                          *)
Retry(t, pause) ==
  IF call[t].remaining = 0
  THEN End(t)
  ELSE call' = [call EXCEPT ![t].remaining = @ - 1, ![t].used = @ + 1,
                            ![t].wake = now + pause, ![t].asked = FALSE]

(* Exponential in the retries used so far; the transport adds a jitter. *)
Pauses(t, jitter) ==
  {Smaller(Base * 2^call[t].used + j, MaxBackoff) : j \in 0..jitter}

(* mark_cooldown() ignores a missing delay and a zero one. *)
MarkOf(delay) == IF delay = 0 THEN None ELSE delay

(* _query: a fresh retry budget, and the first request. *)
Begin(t, p) ==
  /\ ~InCall(t)
  /\ Enter(t, p)
  /\ call' = [call EXCEPT ![t] = Fresh(p)]
  /\ UNCHANGED outerVars

(* Fault: every retry starts with a budget of its own, or the backoff is   *)
(* not taken off.                                                          *)
ResumeWithNewBudget(t) ==
  /\ Backing(t) /\ call[t].wake <= now
  /\ Enter(t, call[t].policy)
  /\ call' = [call EXCEPT ![t] = [Fresh(@.policy) EXCEPT !.sent = call[t].sent]]
  /\ UNCHANGED outerVars

ResumeBackingOff(t) ==
  /\ Backing(t) /\ call[t].wake <= now
  /\ Enter(t, call[t].policy)
  /\ UNCHANGED <<call, outerVars>>

(* The backoff is over: the next request queues at the limiter anew. *)
Resume(t) ==
  /\ Backing(t) /\ call[t].wake <= now
  /\ Enter(t, call[t].policy)
  /\ call' = [call EXCEPT ![t].wake = None]
  /\ UNCHANGED outerVars

(* Waiting in slot(). *)
Wait(t) ==
  /\ SettlePolicy(t) \/ TakePermit(t) \/ Cool(t) \/ Pace(t)
  /\ UNCHANGED <<call, outerVars>>

(* slot() lets the request through. *)
Send(t) ==
  /\ Start(t)
  /\ call' = [call EXCEPT ![t].sent = @ + 1]
  /\ UNCHANGED outerVars

(* slot() raises: SeoulQuotaError or the conflict of policies.  Neither is *)
(* retried.                                                                *)
Refused(t) ==
  /\ Reject(t) \/ RefusePolicy(t)
  /\ End(t)
  /\ UNCHANGED outerVars

-----------------------------------------------------------------------------
(* The exchange inside the slot.  The request reaches the provider after   *)
(* the admission, possibly on another date, or never.                      *)
Arrive(t) ==
  /\ pc[t] = "open" /\ ~call[t].asked
  /\ call' = [call EXCEPT ![t].asked = TRUE]
  /\ arrived' = [arrived EXCEPT ![today] = @ + 1]
  /\ late' = IF now < quiet THEN late + 1 ELSE late
  /\ UNCHANGED <<vars, adrift, strays, quiet>>

(* The slot is left, and the request may still be on its way. *)
Abandon(t) ==
  adrift' = IF pc[t] = "open" /\ ~call[t].asked THEN adrift + 1 ELSE adrift

(* Such a request arrives although nobody waits for its answer any more.   *)
(* It need not: it may be lost as well.                                    *)
ArriveLate ==
  /\ adrift > 0 /\ adrift' = adrift - 1
  /\ arrived' = [arrived EXCEPT ![today] = @ + 1]
  /\ UNCHANGED <<vars, call, strays, pauseVars>>

(* The provider asks for a pause, of which the client grants MaxBackoff at *)
(* most when it is a Retry-After.                                          *)
AskForQuiet(delay) ==
  /\ quiet' = Larger(quiet, now + delay)
  /\ late' = IF now < quiet THEN late ELSE 0

(* Everything that ends the call without a retry or a cooldown: a parsed   *)
(* result, an unparsable or oversized body, an upstream error that is not  *)
(* transient, another HTTP status, an invalid URL (which is never sent) or *)
(* body encoding.                                                          *)
Finish(t) ==
  /\ Leave(t, None)
  /\ End(t)
  /\ UNCHANGED outerVars

(* Timeout or transport failure, before or after the request arrived. *)
NetworkFailure(t) ==
  /\ Leave(t, None)
  /\ \E pause \in Pauses(t, Jitter) : Retry(t, pause)
  /\ Abandon(t)
  /\ UNCHANGED <<arrived, strays, pauseVars>>

(* HTTP 429 or 500/502/503/504 without a usable Retry-After: the code does *)
(* the same for all of them.                                               *)
Throttled(t) ==
  /\ pc[t] = "open" /\ call[t].asked
  /\ Leave(t, None)
  /\ \E pause \in Pauses(t, Jitter) : Retry(t, pause)
  /\ UNCHANGED outerVars

(* The same with a Retry-After the client is ready to wait for. *)
ThrottledFor(t, retryAfter) ==
  /\ retryAfter <= MaxBackoff
  /\ pc[t] = "open" /\ call[t].asked
  /\ Leave(t, MarkOf(retryAfter))
  /\ Retry(t, retryAfter)
  /\ AskForQuiet(retryAfter)
  /\ UNCHANGED netVars

(* A longer Retry-After: the cooldown is cut to MaxBackoff, no retry. *)
ThrottledTooLong(t, retryAfter) ==
  /\ retryAfter > MaxBackoff
  /\ pc[t] = "open" /\ call[t].asked
  /\ Leave(t, MarkOf(MaxBackoff))
  /\ End(t)
  /\ AskForQuiet(MaxBackoff)
  /\ UNCHANGED netVars

(* HTTP 200 with ERROR-500, ERROR-600 or ERROR-601: retried by _query. *)
UpstreamTransient(t) ==
  /\ pc[t] = "open" /\ call[t].asked
  /\ Leave(t, None)
  /\ \E pause \in Pauses(t, 0) : Retry(t, pause)
  /\ UNCHANGED outerVars

(* Fault: the quota error leaves no cooldown behind. *)
UpstreamQuotaUnmarked(t) ==
  /\ pc[t] = "open" /\ call[t].asked
  /\ Leave(t, None)
  /\ End(t)
  /\ AskForQuiet(QuotaCooldown)
  /\ UNCHANGED netVars

(* HTTP 200 with ERROR-337 or a quota message: the cooldown is recorded    *)
(* in the turn in which the slot is left, and the call is not retried.     *)
UpstreamQuota(t) ==
  /\ pc[t] = "open" /\ call[t].asked
  /\ Leave(t, QuotaCooldown)
  /\ End(t)
  /\ AskForQuiet(QuotaCooldown)
  /\ UNCHANGED netVars

(* Fault: a request cancelled in its slot keeps the permit. *)
CancelCallKeepingPermit(t) ==
  /\ \/ Cancel(t)
     \/ /\ pc[t] = "open" /\ GoIdle(t)
        /\ UNCHANGED <<clockVars, stateVars, holder, lockq, semq, permits, ghostVars>>
     \/ Backing(t) /\ UNCHANGED vars
  /\ End(t)
  /\ Abandon(t)
  /\ UNCHANGED <<arrived, strays, pauseVars>>

(* CancelledError at any await of the call. *)
CancelCall(t) ==
  /\ Cancel(t) \/ Leave(t, None) \/ (Backing(t) /\ UNCHANGED vars)
  /\ End(t)
  /\ Abandon(t)
  /\ UNCHANGED <<arrived, strays, pauseVars>>

-----------------------------------------------------------------------------
Answer(t) ==
  \/ Throttled(t)
  \/ \E s \in RetryAfters : ThrottledFor(t, s) \/ ThrottledTooLong(t, s)
  \/ UpstreamTransient(t) \/ UpstreamQuota(t)
  \/ NetworkFailure(t) \/ Finish(t)

(* The bounds are those of RateLimiter; time also runs for a backoff. *)
BackoffPending == \E t \in Tasks : Backing(t) /\ call[t].wake > now

CallTick ==
  /\ now < Horizon \/ TimerPending \/ BackoffPending
  /\ Tick
  /\ UNCHANGED <<call, outerVars>>

CallNewDay ==
  /\ NewDay
  /\ strays' = [strays EXCEPT ![today + 1] = adrift]
  /\ UNCHANGED <<call, adrift, arrived, pauseVars>>

CallNext ==
  \/ \E t \in Tasks :
       \/ MayAsk /\ \E p \in Policies : Begin(t, p)
       \/ Resume(t) \/ Wait(t) \/ Send(t) \/ Refused(t)
       \/ Arrive(t) \/ Answer(t) \/ CancelCall(t)
  \/ ArriveLate \/ CallTick \/ CallNewDay
  \/ (\A t \in Tasks : ~InCall(t)) /\ UNCHANGED allVars

(* As in RateLimiter; asyncio.timeout ends every exchange. *)
CallFairness ==
  /\ WF_allVars(CallTick)
  /\ \A t \in Tasks :
       /\ WF_allVars(Resume(t) \/ Wait(t) \/ Send(t) \/ Refused(t))
       /\ WF_allVars(Answer(t))

CallSpec == CallInit /\ [][CallNext]_allVars /\ CallFairness

-----------------------------------------------------------------------------
(***************************************************************************)
(* Properties                                                              *)
(***************************************************************************)

(* A call is in the limiter, in a backoff, or not in progress. *)
CallTypeOK ==
  /\ TypeOK
  /\ call \in [Tasks -> [policy : Policies \cup {None}, remaining : 0..MaxRetries,
                         used : 0..MaxRetries, wake : Nat \cup {None},
                         sent : Nat, asked : BOOLEAN]]
  /\ \A t \in Tasks : pc[t] # "idle" <=> InCall(t) /\ ~Backing(t)
  /\ arrived \in [Days -> Nat] /\ strays \in [Days -> Nat] /\ adrift \in Nat
  /\ quiet \in Nat /\ late \in Nat

(* One logical call sends at most max_retries + 1 requests, whatever mix   *)
(* of HTTP failures and application errors it meets: the transport and the *)
(* client draw on one budget.                                              *)
BoundedSends ==
  \A t \in Tasks : call[t].sent <= MaxRetries + 1

(* The retry budget accounts for every request of the call: one per retry  *)
(* used, and the one it started with once that is admitted.                *)
RetriesAccounted ==
  \A t \in Tasks : InCall(t) =>
    /\ call[t].used + call[t].remaining = MaxRetries
    /\ call[t].sent = IF pc[t] = "open" THEN call[t].used + 1 ELSE call[t].used

(* No request of any task starts before the pause that an answer to any    *)
(* other task has asked for, from the moment that answer is processed.     *)
QuietHonoured == [][served' # served => quiet <= now]_allVars

(* Requests admitted before a pause may still arrive in it.  The answer    *)
(* that asks for the pause has given its slot back, so that it meets fewer *)
(* of them than max_concurrency, none at all where that is 1, however      *)
(* often the pause is extended and whoever takes the free permit.          *)
FewInPause == now < quiet => policy # None /\ late < policy.limit

(* The provider counts requests when they arrive.  Its count of a date     *)
(* exceeds the budget by no more than max_concurrency, for the requests in *)
(* a slot at midnight, and by those given up before and still adrift then: *)
(* whatever is given up during the day has been counted.                   *)
ArrivalsBounded ==
  policy # None /\ policy.budget # None =>
    \A d \in Days : arrived[d] <= policy.budget + policy.limit + strays[d]

(* Every logical call ends: in a result or in an error. *)
EveryCallEnds == \A t \in Tasks : InCall(t) ~> ~InCall(t)

(* 429 always turns into a cooldown of the limiter.  The actions stand for *)
(* 429 and for 5xx, of which the document says nothing: what refutes the   *)
(* property is a 429 without a Retry-After, which the code treats as it    *)
(* treats a lost connection.                                               *)
Http429StartsCooldown ==
  [][\A t \in Tasks :
       Throttled(t) \/ (\E s \in RetryAfters : ThrottledFor(t, s) \/ ThrottledTooLong(t, s))
         => InCooldown']_allVars

(* The calls use the limiter through its operations only: what is shown of *)
(* RateLimiter holds here.                                                 *)
UsesLimiter == Behaviour
=============================================================================
