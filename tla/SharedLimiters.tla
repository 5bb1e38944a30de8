--------------------------- MODULE SharedLimiters ---------------------------
(***************************************************************************)
(* Several clients in one event loop and the limiters they share: the      *)
(* registry behind ServiceRateLimiter.shared() (rate_limit.py), the lookup *)
(* by credential and endpoint on every request (transport.py) and the      *)
(* settings of a client, made from arguments and environment and assigned  *)
(* to at any time.  Clients over one injected transport have one config    *)
(* and count as one client.                                                *)
(*                                                                         *)
(* A limiter group is reduced to what clients share through it: the        *)
(* settled policy, the concurrency and whether a cooldown is in force.     *)
(* RateLimiter is the full account of it.                                  *)
(***************************************************************************)
EXTENDS Settings

CONSTANTS
  Clients,      \* clients (each with a transport and a limiter looked up, not injected)
  Requests,     \* concurrent logical calls
  Environment,  \* the environment variables from_env looks at
  Openings,     \* the arguments from_env is called with
  Assignable    \* the settings constructed or assigned by the user

(* Whatever settings a client can have. *)
Known == {Validated(c) : c \in Assignable} \cup
         {Validated(FromEnv(Environment, given)) : given \in Openings}

Policies    == {PolicyFor(c, s) : c \in Known, s \in Services}
GroupStates == [policy : Maybe(Policies), paused : BOOLEAN]

ASSUME SharedLimitersAssumption ==
  /\ IsFiniteSet(Requests)
  /\ \A c \in Known :
       /\ DOMAIN c.budgets = Names
       /\ \A n \in Names : c.budgets[n] \in Maybe(Nat \ {0})
       /\ c.limit \in Nat \ {0}
       /\ c.insecure \in BOOLEAN
  /\ None \notin Known \cup Policies \cup GroupStates

VARIABLES
  config,     \* the settings of each client
  registry,   \* the limiters of the running loop, by scope
  req,        \* the logical calls under way
  owed,       \* history: <<credential and endpoint, group>> the provider wants quiet
  strayed     \* history: those whose pause was asked for after another assignment

vars == <<config, registry, req, owed, strayed>>

-----------------------------------------------------------------------------
(* Whom the request speaks for at the provider, and the key of the         *)
(* registry: a digest of the two.                                          *)
Sender(c, api) == <<Unless(KeyFor(c, api), ""), Canonical(c.url[api])>>

(* Fault: clients of another concurrency get a limiter of their own. *)
ScopeByLimit(c, api) == Append(Sender(c, api), c.limit)

ScopeFor(c, api) == Sender(c, api)

-----------------------------------------------------------------------------
NewGroup == [policy |-> None, paused |-> FALSE]

NewLimiter(c) ==
  [limit |-> c.limit, zone |-> c.zone, groups |-> [g \in Groups |-> None]]

(* Fault: the concurrency is not compared. *)
AgreesOnZone(c, api) ==
  LET scope == ScopeFor(c, api) IN
  scope \in DOMAIN registry => registry[scope].zone = c.zone

(* shared() raises ValueError unless the scope is new or kept with the     *)
(* same concurrency and time zone.                                         *)
Agrees(c, api) ==
  LET scope == ScopeFor(c, api) IN
  scope \in DOMAIN registry =>
    registry[scope].limit = c.limit /\ registry[scope].zone = c.zone

Registered(c, api) ==
  [scope \in DOMAIN registry \cup {ScopeFor(c, api)} |->
     IF scope \in DOMAIN registry THEN registry[scope] ELSE NewLimiter(c)]

(* Fault: the state of the group is not created. *)
Stateless(limiters, scope, g) == limiters

(* slot() creates the state of the group. *)
Stated(limiters, scope, g) ==
  [limiters EXCEPT ![scope].groups[g] = IF @ = None THEN NewGroup ELSE @]

(* mark_cooldown() has no effect while the group has no state. *)
Marked(limiters, scope, g) ==
  IF limiters[scope].groups[g] = None
  THEN limiters
  ELSE [limiters EXCEPT ![scope].groups[g].paused = TRUE]

-----------------------------------------------------------------------------
Idle == [at |-> "idle", client |-> None, service |-> None, sender |-> None,
         scope |-> None, policy |-> None]

At(points) == {r \in Requests : req[r].at \in points}

Group(r)      == QuotaGroup(req[r].service)
GroupState(r) == registry[req[r].scope].groups[Group(r)]

MoveTo(r, point) == req' = [req EXCEPT ![r].at = point]
End(r)           == req' = [req EXCEPT ![r] = Idle]

Empty == [scope \in {} |-> None]

Init ==
  /\ config = [client \in Clients |-> None]
  /\ registry = Empty
  /\ req = [r \in Requests |-> Idle]
  /\ owed = {} /\ strayed = {}

(* request(): the policy and the limiter of the settings of this moment    *)
(* stay with it through its HTTP retries.                                  *)
Request(r, client, s) ==
  LET c == config[client]
      scope == ScopeFor(c, Api(s)) IN
  /\ c # None
  /\ KeyFor(c, Api(s)) # None
  /\ Allowed(c, Api(s))
  /\ Agrees(c, Api(s))
  /\ registry' = Stated(Registered(c, Api(s)), scope, QuotaGroup(s))
  /\ req' = [req EXCEPT ![r] = [at |-> "queued", client |-> client, service |-> s,
                                sender |-> Sender(c, Api(s)), scope |-> scope,
                                policy |-> PolicyFor(c, s)]]
  /\ UNCHANGED <<config, owed, strayed>>

(* _query. A request refused here has changed nothing. *)
Ask(r, client, s) == req[r].at = "idle" /\ Request(r, client, s)

(* Fault: settling a policy starts the state of the group afresh. *)
SettleAfresh(r) ==
  /\ req[r].at = "queued"
  /\ GroupState(r).policy \in {None, req[r].policy}
  /\ registry' = [registry EXCEPT ![req[r].scope].groups[Group(r)] =
                    [NewGroup EXCEPT !.policy = req[r].policy]]
  /\ MoveTo(r, "waiting")
  /\ UNCHANGED <<config, owed, strayed>>

(* slot(), first locked section. *)
Settle(r) ==
  /\ req[r].at = "queued"
  /\ GroupState(r).policy \in {None, req[r].policy}
  /\ registry' = [registry EXCEPT ![req[r].scope].groups[Group(r)].policy = req[r].policy]
  /\ MoveTo(r, "waiting")
  /\ UNCHANGED <<config, owed, strayed>>

Refuse(r) ==
  /\ req[r].at = "queued"
  /\ GroupState(r).policy \notin {None, req[r].policy}
  /\ End(r)
  /\ UNCHANGED <<config, registry, owed, strayed>>

(* slot(), admission. *)
Neighbours(r) ==
  {q \in At({"sent"}) : req[q].scope = req[r].scope /\ Group(q) = Group(r)}

(* Fault: one call too many. *)
SendCrowded(r) ==
  /\ req[r].at = "waiting"
  /\ ~GroupState(r).paused
  /\ Cardinality(Neighbours(r)) <= GroupState(r).policy.limit
  /\ MoveTo(r, "sent")
  /\ UNCHANGED <<config, registry, owed, strayed>>

Send(r) ==
  /\ req[r].at = "waiting"
  /\ ~GroupState(r).paused
  /\ Cardinality(Neighbours(r)) < GroupState(r).policy.limit
  /\ MoveTo(r, "sent")
  /\ UNCHANGED <<config, registry, owed, strayed>>

(* A result, an error that is not retried, or cancellation at any point. *)
Finish(r) ==
  /\ req[r].at # "idle"
  /\ End(r)
  /\ UNCHANGED <<config, registry, owed, strayed>>

(* The transport retries a request with the limiter and policy it has. *)
RetrySame(r) ==
  /\ req[r].at = "sent"
  /\ MoveTo(r, "queued")
  /\ UNCHANGED <<config, registry, owed, strayed>>

(* A Retry-After cools the limiter the request went through. *)
Throttled(r) ==
  /\ req[r].at = "sent"
  /\ registry' = Marked(registry, req[r].scope, Group(r))
  /\ owed' = owed \cup {<<req[r].sender, Group(r)>>}
  /\ MoveTo(r, "queued") \/ End(r)
  /\ UNCHANGED <<config, strayed>>

(* A transient upstream error: _query makes a new request after a pause,   *)
(* with the settings of that moment, or fails on them.                     *)
RetryAnew(r) ==
  /\ req[r].at = "sent"
  /\ MoveTo(r, "again")
  /\ UNCHANGED <<config, registry, owed, strayed>>

Again(r) ==
  /\ req[r].at = "again"
  /\ Request(r, req[r].client, req[r].service)

(* An upstream quota error: _query asks the transport for a cooldown, which *)
(* looks the limiter up anew, with the settings of this moment; a conflict  *)
(* found there is raised instead of the upstream error.                     *)
QuotaExceeded(r) ==
  LET c     == config[req[r].client]
      api   == Api(req[r].service)
      pause == <<req[r].sender, Group(r)>> IN
  /\ req[r].at = "sent"
  /\ IF Agrees(c, api)
     THEN registry' = Marked(Registered(c, api), ScopeFor(c, api), Group(r))
     ELSE UNCHANGED registry
  /\ IF Agrees(c, api) /\ Sender(c, api) = req[r].sender
     THEN owed' = owed \cup {pause} /\ UNCHANGED strayed
     ELSE strayed' = strayed \cup {pause} /\ UNCHANGED owed
  /\ End(r)
  /\ UNCHANGED config

-----------------------------------------------------------------------------
(* A client is made of arguments and environment. *)
Open(client, given) ==
  LET c == FromEnv(Environment, given) IN
  /\ config[client] = None
  /\ ~Keyless(c)
  /\ config' = [config EXCEPT ![client] = Validated(c)]
  /\ UNCHANGED <<registry, req, owed, strayed>>

(* The user makes a client of given settings, or assigns to those it has. *)
Reconfigure(client, c) ==
  /\ config' = [config EXCEPT ![client] = Validated(c)]
  /\ UNCHANGED <<registry, req, owed, strayed>>

(* The end of a client; its limiters stay with the loop.  What becomes of  *)
(* calls under way then is up to the HTTP client.                          *)
Close(client) ==
  /\ \A r \in Requests : req[r].client # client
  /\ config' = [config EXCEPT ![client] = None]
  /\ UNCHANGED <<registry, req, owed, strayed>>

(* A cooldown ends when the pause it stands for ends. *)
Paused ==
  {p \in (DOMAIN registry) \X Groups :
     registry[p[1]].groups[p[2]] # None /\ registry[p[1]].groups[p[2]].paused}

PauseOver(p) ==
  /\ owed' = owed \ {p} /\ strayed' = strayed \ {p}
  /\ registry' = IF p \in Paused
                 THEN [registry EXCEPT ![p[1]].groups[p[2]].paused = FALSE]
                 ELSE registry
  /\ UNCHANGED <<config, req>>

(* The event loop ends and another begins: the registry went with the loop, *)
(* its tasks are cancelled, and no limiter promises anything beyond it.     *)
NewLoop ==
  /\ registry' = Empty
  /\ req' = [r \in Requests |-> Idle]
  /\ owed' = {} /\ strayed' = {}
  /\ UNCHANGED config

Next ==
  \/ \E r \in Requests :
       \/ \E client \in Clients, s \in Services : Ask(r, client, s)
       \/ Settle(r) \/ Refuse(r) \/ Send(r) \/ Finish(r)
       \/ RetrySame(r) \/ Throttled(r) \/ RetryAnew(r) \/ Again(r)
       \/ QuotaExceeded(r)
  \/ \E client \in Clients :
       \/ \E given \in Openings : Open(client, given)
       \/ \E c \in Assignable : Reconfigure(client, c)
       \/ Close(client)
  \/ \E p \in owed \cup strayed \cup Paused : PauseOver(p)
  \/ NewLoop

Spec == Init /\ [][Next]_vars

-----------------------------------------------------------------------------
(***************************************************************************)
(* Properties                                                              *)
(***************************************************************************)

Scopes   == {ScopeFor(c, api) : c \in Known, api \in {"general", "subway"}}
Senders  == {Sender(c, api) : c \in Known, api \in {"general", "subway"}}
Limiters == [limit : {c.limit : c \in Known}, zone : {c.zone : c \in Known},
             groups : [Groups -> Maybe(GroupStates)]]

Calling == [at : {"queued", "waiting", "sent", "again"}, client : Clients,
            service : Services, sender : Senders, scope : Scopes, policy : Policies]

(* A call under way always has a limiter of its scope, with a state for    *)
(* its group, and a client; limiters and calls are of their types.         *)
SharedTypeOK ==
  /\ config \in [Clients -> Maybe(Known)]
  /\ DOMAIN registry \subseteq Scopes
  /\ \A scope \in DOMAIN registry : registry[scope] \in Limiters
  /\ \A r \in Requests : req[r] = Idle \/
       /\ req[r] \in Calling
       /\ req[r].scope \in DOMAIN registry
       /\ GroupState(r) # None
       /\ config[req[r].client] # None

Alike(q, r) == req[q].sender = req[r].sender /\ Group(q) = Group(r)

(* All calls made with one credential at one endpoint wait and run under   *)
(* one limiter and one policy for each group, whatever settings their      *)
(* clients have had in the meantime: a limiter is never split silently.    *)
OneLimiterPerSender ==
  \A q, r \in At({"waiting", "sent"}) : Alike(q, r) =>
    req[q].scope = req[r].scope /\ req[q].policy = req[r].policy

(* However many clients there are, a credential never has more calls of a  *)
(* group in flight than max_concurrency of any of them.                    *)
ConcurrencyShared ==
  \A r \in At({"sent"}) :
    Cardinality({q \in At({"sent"}) : Alike(q, r)}) <= req[r].policy.limit

(* The policies settled in a limiter have the concurrency it was made for, *)
(* although settings may change between the lookup and slot().             *)
PolicyFitsLimiter ==
  \A scope \in DOMAIN registry, g \in Groups :
    LET state == registry[scope].groups[g] IN
    state # None /\ state.policy # None => state.policy.limit = registry[scope].limit

(* Two spellings of one base URL lead to one limiter, and two endpoints     *)
(* never do: validate_base_url decides the scope of a quota.  This is about *)
(* values, and examined once, before the first step.                        *)
CanonicalIdentifies ==
  Init => \A u, v \in Urls : Canonical(u) = Canonical(v) <=> SameEndpoint(u, v)

(* A pause the provider has asked for stops the calls of the credential in *)
(* the whole group, of every client and every endpoint of the group, as    *)
(* long as the call it was asked of still has its credential and limiter.  *)
PauseHonoured ==
  [][\A r \in Requests : Send(r) => <<req[r].sender, Group(r)>> \notin owed]_vars

(* An assignment during a call lets no other call through a pause.         *)
PauseHonouredMidCall ==
  [][\A r \in Requests :
       Send(r) => <<req[r].sender, Group(r)>> \notin owed \cup strayed]_vars

(* An explicit api_key goes before the environment, for both APIs.         *)
ExplicitKeyUsed ==
  [][\A client \in Clients, given \in Openings :
       Open(client, given) /\ given.apiKey # None /\ given.subwayKey = None
         => KeyFor(config'[client], "subway") = given.apiKey]_vars

(* Arrival, position and all-station endpoints share one daily budget: a   *)
(* client whose settings do not change never has a call refused because    *)
(* another of these endpoints came first.                                  *)
SubwayBudgetShared == [][\A r \in Requests : ~Refuse(r)]_vars
=============================================================================
