------------------------ MODULE SharedLimitersProofs ------------------------
(***************************************************************************)
(* Proofs about SharedLimiters for any number of clients, calls and        *)
(* settings and any base URLs and budgets.                                 *)
(***************************************************************************)
EXTENDS SharedLimiters, SettingsProofs, FiniteSetTheorems, TLAPS

(***************************************************************************)
(* The inductive invariant.                                                *)
(*   RegistryOK   limiters are of their type; what has been settled in one *)
(*                has the concurrency it was made for                      *)
(*   CallOK       a call under way is with the limiter of its sender, of   *)
(*                its own concurrency, and once settled under its policy   *)
(*   CrowdOK      no sender is beyond its concurrency                      *)
(*   owed         a pause that is owed is in force                         *)
(***************************************************************************)
State(R, scope, g) == R[scope].groups[g]

RegistryOK(R) ==
  /\ DOMAIN R \subseteq Scopes
  /\ \A scope \in DOMAIN R :
       /\ R[scope] \in Limiters
       /\ \A g \in Groups : State(R, scope, g) # None =>
            (State(R, scope, g).policy # None =>
               State(R, scope, g).policy.limit = R[scope].limit)

CallOK(q, R) ==
  q = Idle \/
  /\ q \in Calling
  /\ q.scope = q.sender /\ q.scope \in DOMAIN R
  /\ State(R, q.scope, QuotaGroup(q.service)) # None
  /\ q.policy.limit = R[q.scope].limit
  /\ q.at \in {"waiting", "sent"} =>
       State(R, q.scope, QuotaGroup(q.service)).policy = q.policy

ClientOK(q, c) == q = Idle \/ c[q.client] # None

CrowdOK == ConcurrencyShared

SharedInvariant ==
  /\ config \in [Clients -> Maybe(Known)]
  /\ RegistryOK(registry)
  /\ req = [r \in Requests |-> req[r]]
  /\ \A r \in Requests : CallOK(req[r], registry) /\ ClientOK(req[r], config)
  /\ CrowdOK
  /\ owed \subseteq Paused

-----------------------------------------------------------------------------
(* What an operation does to the registry *)

(* Limiters stay, with their concurrency, their states and the policies    *)
(* settled in them.                                                        *)
Keeps(R, U) ==
  /\ DOMAIN R \subseteq DOMAIN U
  /\ \A scope \in DOMAIN R :
       /\ U[scope].limit = R[scope].limit
       /\ \A g \in Groups : State(R, scope, g) # None =>
            /\ State(U, scope, g) # None
            /\ State(R, scope, g).policy # None =>
                 State(U, scope, g).policy = State(R, scope, g).policy

(* Pauses stay, too. *)
KeepsPauses(R, U) ==
  \A scope \in DOMAIN R, g \in Groups :
    State(R, scope, g) # None /\ State(R, scope, g).paused =>
      scope \in DOMAIN U /\ State(U, scope, g) # None /\ State(U, scope, g).paused

Put(R, scope, g, state) == [R EXCEPT ![scope].groups[g] = state]

LEMMA StateType ==
  ASSUME NEW R, RegistryOK(R), NEW scope \in DOMAIN R, NEW g \in Groups,
         State(R, scope, g) # None
  PROVE  State(R, scope, g) \in GroupStates
BY DEF RegistryOK, State, Limiters, Maybe

LEMMA StatesAreSome == \A state \in GroupStates : state # None
BY SharedLimitersAssumption

LEMMA PoliciesAreSome == \A policy \in Policies : policy # None
BY SharedLimitersAssumption

(* One state is replaced, everything else stays. *)
LEMMA PutReplaces ==
  ASSUME NEW R, RegistryOK(R), NEW scope \in DOMAIN R, NEW g \in Groups,
         NEW state \in GroupStates
  PROVE  LET U == Put(R, scope, g, state) IN
         /\ DOMAIN U = DOMAIN R
         /\ \A x \in DOMAIN R :
              /\ U[x] \in Limiters
              /\ U[x].limit = R[x].limit
              /\ \A h \in Groups :
                   State(U, x, h) = IF x = scope /\ h = g THEN state ELSE State(R, x, h)
<1> DEFINE U == Put(R, scope, g, state)
           L == R[scope]
           M == [L EXCEPT !.groups = [@ EXCEPT ![g] = state]]
<1>1. U = [R EXCEPT ![scope] = M]
  BY DEF Put
<1>2. \A x \in DOMAIN R : R[x] \in Limiters
  BY DEF RegistryOK
<1>3. /\ M \in Limiters /\ M.limit = L.limit
      /\ \A h \in Groups : M.groups[h] = IF h = g THEN state ELSE L.groups[h]
  BY <1>2 DEF Limiters, Maybe
<1> HIDE DEF M
<1>4. DOMAIN U = DOMAIN R /\ \A x \in DOMAIN R : U[x] = IF x = scope THEN M ELSE R[x]
  BY <1>1
<1> QED BY <1>2, <1>3, <1>4 DEF State

(* A state that leaves the policy settled before keeps what there was. *)
LEMMA PutKeeps ==
  ASSUME NEW R, RegistryOK(R), NEW scope \in DOMAIN R, NEW g \in Groups,
         NEW state \in GroupStates,
         state.policy # None => state.policy.limit = R[scope].limit,
         State(R, scope, g) # None /\ State(R, scope, g).policy # None =>
           state.policy = State(R, scope, g).policy
  PROVE  LET U == Put(R, scope, g, state) IN
         /\ RegistryOK(U)
         /\ Keeps(R, U)
         /\ (State(R, scope, g) # None /\ State(R, scope, g).paused => state.paused)
              => KeepsPauses(R, U)
<1> DEFINE U == Put(R, scope, g, state)
<1>1. /\ DOMAIN U = DOMAIN R
      /\ \A x \in DOMAIN R :
           /\ U[x] \in Limiters
           /\ U[x].limit = R[x].limit
           /\ \A h \in Groups :
                State(U, x, h) = IF x = scope /\ h = g THEN state ELSE State(R, x, h)
  BY PutReplaces
<1>2. state # None
  BY StatesAreSome
<1> HIDE DEF U
<1>3. RegistryOK(U)
  BY <1>1 DEF RegistryOK
<1>4. Keeps(R, U)
  BY <1>1, <1>2 DEF Keeps
<1>5. (State(R, scope, g) # None /\ State(R, scope, g).paused => state.paused)
        => KeepsPauses(R, U)
  BY <1>1, <1>2 DEF KeepsPauses
<1> QED BY <1>3, <1>4, <1>5 DEF U

-----------------------------------------------------------------------------
(* What the settings of a client are good for *)

LEMMA ServiceGroup == \A s \in Services : QuotaGroup(s) \in Groups
BY DEF Groups

LEMMA ServiceApi == \A s \in Services : Api(s) \in {"general", "subway"}
BY DEF Api

LEMMA KnownLimits == \A c \in Known : c.limit \in Nat \ {0}
BY SharedLimitersAssumption

LEMMA PolicyLimit ==
  \A c \in Known, s \in Services :
    PolicyFor(c, s) \in Policies /\ PolicyFor(c, s).limit = c.limit
BY DEF Policies, PolicyFor

LEMMA PolicyLimits == \A policy \in Policies : policy.limit \in Nat \ {0}
<1> TAKE policy \in Policies
<1>1. PICK c \in Known, s \in Services : policy = PolicyFor(c, s)
  BY DEF Policies
<1> QED BY <1>1, KnownLimits DEF PolicyFor

LEMMA KnownScope ==
  \A c \in Known, api \in {"general", "subway"} :
    ScopeFor(c, api) \in Scopes /\ ScopeFor(c, api) = Sender(c, api)
      /\ Sender(c, api) \in Senders
BY DEF Scopes, ScopeFor, Senders

-----------------------------------------------------------------------------
(* The three ways the registry changes in a call *)

LEMMA LookupKeeps ==
  ASSUME NEW c \in Known, NEW api \in {"general", "subway"},
         RegistryOK(registry), Agrees(c, api)
  PROVE  /\ RegistryOK(Registered(c, api))
         /\ Keeps(registry, Registered(c, api))
         /\ KeepsPauses(registry, Registered(c, api))
         /\ ScopeFor(c, api) \in DOMAIN Registered(c, api)
         /\ Registered(c, api)[ScopeFor(c, api)].limit = c.limit
<1> DEFINE scope == ScopeFor(c, api)
           U == Registered(c, api)
<1>1. /\ DOMAIN U = DOMAIN registry \cup {scope}
      /\ \A x \in DOMAIN U :
           U[x] = IF x \in DOMAIN registry THEN registry[x] ELSE NewLimiter(c)
  BY DEF Registered
<1>2. NewLimiter(c) \in Limiters
  BY DEF NewLimiter, Limiters, Maybe
<1>3. NewLimiter(c).limit = c.limit /\ \A g \in Groups : NewLimiter(c).groups[g] = None
  BY DEF NewLimiter
<1>4. scope \in Scopes
  BY KnownScope
<1>5. scope \in DOMAIN registry => registry[scope].limit = c.limit
  BY DEF Agrees
<1> HIDE DEF U, scope
<1>6. RegistryOK(U)
  BY <1>1, <1>2, <1>3, <1>4 DEF RegistryOK, State
<1>7. Keeps(registry, U) /\ KeepsPauses(registry, U)
  BY <1>1 DEF Keeps, KeepsPauses, State
<1>8. scope \in DOMAIN U /\ U[scope].limit = c.limit
  BY <1>1, <1>3, <1>5
<1> QED BY <1>6, <1>7, <1>8 DEF U, scope

LEMMA StatedKeeps ==
  ASSUME NEW R, RegistryOK(R), NEW scope \in DOMAIN R, NEW g \in Groups
  PROVE  /\ RegistryOK(Stated(R, scope, g))
         /\ Keeps(R, Stated(R, scope, g))
         /\ KeepsPauses(R, Stated(R, scope, g))
         /\ State(Stated(R, scope, g), scope, g) # None
<1> DEFINE old == State(R, scope, g)
           new == IF old = None THEN NewGroup ELSE old
<1>1. Stated(R, scope, g) = Put(R, scope, g, new)
  BY DEF Stated, Put, State
<1>2. NewGroup \in GroupStates /\ NewGroup.policy = None
  BY DEF NewGroup, GroupStates, Maybe
<1>3. new \in GroupStates
  BY <1>2, StateType
<1>4. new.policy # None => new.policy.limit = R[scope].limit
  BY <1>2 DEF RegistryOK
<1>5. old # None => new = old
  OBVIOUS
<1> HIDE DEF old, new
<1>6. /\ RegistryOK(Put(R, scope, g, new)) /\ Keeps(R, Put(R, scope, g, new))
      /\ KeepsPauses(R, Put(R, scope, g, new))
  BY <1>3, <1>4, <1>5, PutKeeps DEF old
<1>7. State(Put(R, scope, g, new), scope, g) = new
  BY <1>3, PutReplaces
<1> QED BY <1>1, <1>3, <1>6, <1>7, StatesAreSome

LEMMA MarkedKeeps ==
  ASSUME NEW R, RegistryOK(R), NEW scope \in DOMAIN R, NEW g \in Groups
  PROVE  /\ RegistryOK(Marked(R, scope, g))
         /\ Keeps(R, Marked(R, scope, g))
         /\ KeepsPauses(R, Marked(R, scope, g))
         /\ State(R, scope, g) # None =>
              /\ State(Marked(R, scope, g), scope, g) # None
              /\ State(Marked(R, scope, g), scope, g).paused
<1> DEFINE old == State(R, scope, g)
           new == [old EXCEPT !.paused = TRUE]
<1>1. CASE old = None
  <2>1. Marked(R, scope, g) = R
    BY <1>1 DEF Marked, State
  <2> QED BY <1>1, <2>1 DEF Keeps, KeepsPauses
<1>2. CASE old # None
  <2>1. Marked(R, scope, g) = Put(R, scope, g, new)
    BY <1>2 DEF Marked, Put, State
  <2>2. old \in GroupStates
    BY <1>2, StateType
  <2>3. new \in GroupStates /\ new.policy = old.policy /\ new.paused
    BY <2>2 DEF GroupStates
  <2>4. new.policy # None => new.policy.limit = R[scope].limit
    BY <1>2, <2>3 DEF RegistryOK
  <2> HIDE DEF old, new
  <2>5. /\ RegistryOK(Put(R, scope, g, new)) /\ Keeps(R, Put(R, scope, g, new))
        /\ KeepsPauses(R, Put(R, scope, g, new))
    BY <2>3, <2>4, PutKeeps DEF old
  <2>6. State(Put(R, scope, g, new), scope, g) = new
    BY <2>3, PutReplaces
  <2> QED BY <2>1, <2>3, <2>5, <2>6, StatesAreSome
<1> QED BY <1>1, <1>2

LEMMA KeepsTwice ==
  ASSUME NEW R, NEW S, NEW U, Keeps(R, S), Keeps(S, U),
         KeepsPauses(R, S), KeepsPauses(S, U)
  PROVE  Keeps(R, U) /\ KeepsPauses(R, U)
BY DEF Keeps, KeepsPauses

-----------------------------------------------------------------------------
(* Calls and crowds *)

LEMMA CallKept ==
  ASSUME NEW R, NEW U, NEW q, Keeps(R, U), CallOK(q, R)
  PROVE  CallOK(q, U)
<1>1. CASE q = Idle
  BY <1>1 DEF CallOK
<1>2. CASE q # Idle
  <2>1. QuotaGroup(q.service) \in Groups /\ q.policy # None
    BY <1>2, ServiceGroup, PoliciesAreSome DEF CallOK, Calling
  <2> QED BY <1>2, <2>1 DEF CallOK, Keeps
<1> QED BY <1>1, <1>2

LEMMA OneMore ==
  ASSUME NEW S, NEW x, IsFiniteSet(S)
  PROVE  /\ IsFiniteSet(S \cup {x})
         /\ Cardinality(S \cup {x}) <= Cardinality(S) + 1
<1>1. Cardinality(S) \in Nat
  BY FS_CardinalityType
<1>2. IsFiniteSet(S \cup {x})
  BY FS_AddElement
<1>3. Cardinality(S \cup {x}) = Cardinality(S) \/ Cardinality(S \cup {x}) = Cardinality(S) + 1
  BY FS_AddElement
<1> QED BY <1>1, <1>2, <1>3

(* Nobody is too many where nobody was sent. *)
LEMMA CrowdShrinks ==
  ASSUME SharedInvariant,
         \A q \in Requests : req'[q].at = "sent" => req'[q] = req[q]
  PROVE  CrowdOK'
<1> SUFFICES ASSUME NEW r \in Requests, req'[r].at = "sent"
             PROVE  Cardinality({q \in At({"sent"}) : Alike(q, r)})'
                      <= req'[r].policy.limit
  BY DEF CrowdOK, ConcurrencyShared, At
<1> DEFINE crowd == {q \in At({"sent"}) : Alike(q, r)}
<1>1. req'[r] = req[r] /\ r \in At({"sent"})
  BY DEF At
<1>2. crowd' \subseteq crowd
  BY <1>1 DEF At, Alike, Group
<1>3. IsFiniteSet(crowd)
  BY SharedLimitersAssumption, FS_Subset DEF At
<1>4. Cardinality(crowd') <= Cardinality(crowd)
  BY <1>2, <1>3, FS_Subset
<1>5. Cardinality(crowd) <= req[r].policy.limit
  BY <1>1 DEF SharedInvariant, CrowdOK, ConcurrencyShared
<1>6. req[r].policy.limit \in Nat
  <2>1. req[r] \in Calling
    BY <1>1 DEF SharedInvariant, CallOK, Idle, At
  <2> QED BY <2>1, PolicyLimits DEF Calling
<1>7. Cardinality(crowd) \in Nat /\ Cardinality(crowd') \in Nat
  BY <1>2, <1>3, FS_Subset, FS_CardinalityType
<1> HIDE DEF crowd
<1>8. Cardinality(crowd') <= req[r].policy.limit
  BY <1>4, <1>5, <1>6, <1>7
<1> QED BY <1>1, <1>8 DEF crowd

(* A call moves on with what it has. *)
LEMMA MovedOK ==
  ASSUME NEW q, NEW R, CallOK(q, R), q.at # "idle",
         NEW point \in {"queued", "waiting", "sent", "again"},
         point \in {"waiting", "sent"} =>
           State(R, q.scope, QuotaGroup(q.service)).policy = q.policy
  PROVE  /\ CallOK([q EXCEPT !.at = point], R)
         /\ [q EXCEPT !.at = point].client = q.client
         /\ [q EXCEPT !.at = point].at = point
<1>1. q \in Calling
  BY DEF CallOK, Idle
<1>2. [q EXCEPT !.at = point] \in Calling
  BY <1>1 DEF Calling
<1>3. \A field \in {"client", "service", "sender", "scope", "policy"} :
        [q EXCEPT !.at = point][field] = q[field]
  BY <1>1 DEF Calling
<1>4. [q EXCEPT !.at = point].at = point
  BY <1>1 DEF Calling
<1>5. q # Idle
  BY DEF Idle
<1> DEFINE p == [q EXCEPT !.at = point]
<1>6. /\ p.client = q.client /\ p.service = q.service /\ p.sender = q.sender
      /\ p.scope = q.scope /\ p.policy = q.policy
  BY <1>3
<1> HIDE DEF p
<1>7. CallOK(p, R)
  BY <1>2, <1>4, <1>5, <1>6 DEF CallOK, p
<1> QED BY <1>4, <1>6, <1>7 DEF p

(* What a step of one call leaves of the invariant to be shown. *)
LEMMA CallStep ==
  ASSUME SharedInvariant, NEW r \in Requests, NEW new,
         req' = [req EXCEPT ![r] = new],
         RegistryOK(registry'), Keeps(registry, registry'),
         UNCHANGED config,
         CallOK(new, registry'), ClientOK(new, config)
  PROVE  /\ config' \in [Clients -> Maybe(Known)]
         /\ req' = [q \in Requests |-> req'[q]]
         /\ req'[r] = new /\ \A q \in Requests \ {r} : req'[q] = req[q]
         /\ \A q \in Requests : CallOK(req'[q], registry') /\ ClientOK(req'[q], config')
         /\ new.at # "sent" => CrowdOK'
<1>1. req'[r] = new /\ \A q \in Requests \ {r} : req'[q] = req[q]
  BY DEF SharedInvariant
<1>2. req' = [q \in Requests |-> req'[q]]
  BY DEF SharedInvariant
<1>3. \A q \in Requests : CallOK(req[q], registry')
  BY CallKept DEF SharedInvariant
<1>4. \A q \in Requests : CallOK(req'[q], registry') /\ ClientOK(req'[q], config')
  BY <1>1, <1>3 DEF SharedInvariant, ClientOK
<1>5. new.at # "sent" => CrowdOK'
  BY <1>1, CrowdShrinks
<1> QED BY <1>1, <1>2, <1>4, <1>5 DEF SharedInvariant

LEMMA OwedStaysPaused ==
  ASSUME SharedInvariant, RegistryOK(registry'), KeepsPauses(registry, registry')
  PROVE  owed \subseteq Paused'
BY DEF SharedInvariant, KeepsPauses, Paused, State, RegistryOK

LEMMA SameRegistry ==
  Keeps(registry, registry) /\ KeepsPauses(registry, registry)
BY DEF Keeps, KeepsPauses

LEMMA IdleOK == \A R : CallOK(Idle, R) /\ ClientOK(Idle, config) /\ Idle.at = "idle"
BY DEF CallOK, ClientOK, Idle

(* A call under way, spelled out. *)
LEMMA Underway ==
  ASSUME SharedInvariant, NEW r \in Requests, req[r].at # "idle"
  PROVE  /\ req[r] \in Calling /\ req[r].service \in Services
         /\ req[r].scope = req[r].sender /\ req[r].scope \in DOMAIN registry
         /\ Group(r) \in Groups
         /\ GroupState(r) = State(registry, req[r].scope, Group(r))
         /\ GroupState(r) \in GroupStates
         /\ req[r].policy \in Policies
         /\ req[r].policy.limit = registry[req[r].scope].limit
         /\ req[r].client \in Clients /\ config[req[r].client] \in Known
         /\ CallOK(req[r], registry) /\ ClientOK(req[r], config)
         /\ req[r].at \in {"waiting", "sent"} => GroupState(r).policy = req[r].policy
<1>1. req[r] # Idle /\ CallOK(req[r], registry) /\ ClientOK(req[r], config)
  BY DEF SharedInvariant, Idle
<1>2. req[r] \in Calling /\ req[r].service \in Services /\ Group(r) \in Groups
  BY <1>1, ServiceGroup DEF CallOK, Calling, Group
<1>3. GroupState(r) = State(registry, req[r].scope, Group(r))
  BY DEF GroupState, State
<1>4. /\ req[r].scope = req[r].sender /\ req[r].scope \in DOMAIN registry
      /\ req[r].policy.limit = registry[req[r].scope].limit
      /\ GroupState(r) # None
      /\ req[r].at \in {"waiting", "sent"} => GroupState(r).policy = req[r].policy
  BY <1>1, <1>3 DEF CallOK, Group
<1>5. GroupState(r) \in GroupStates
  BY <1>2, <1>3, <1>4, StateType DEF SharedInvariant
<1>6. /\ req[r].policy \in Policies /\ req[r].client \in Clients
      /\ config[req[r].client] \in Known
  BY <1>1, <1>2 DEF Calling, ClientOK, SharedInvariant, Maybe
<1> QED BY <1>1, <1>2, <1>3, <1>4, <1>5, <1>6

-----------------------------------------------------------------------------
(* Every action keeps the invariant *)

LEMMA InitInvariant == Init => SharedInvariant
<1> SUFFICES ASSUME Init PROVE SharedInvariant
  OBVIOUS
<1>1. DOMAIN registry = {}
  BY DEF Init, Empty
<1>2. RegistryOK(registry)
  BY <1>1 DEF RegistryOK
<1>3. \A r \in Requests : req[r] = Idle
  BY DEF Init
<1>4. CrowdOK
  BY <1>3 DEF CrowdOK, ConcurrencyShared, At, Idle
<1>5. \A r \in Requests : CallOK(req[r], registry) /\ ClientOK(req[r], config)
  BY <1>3 DEF CallOK, ClientOK
<1>6. config \in [Clients -> Maybe(Known)] /\ owed \subseteq Paused
  BY DEF Init, Maybe
<1>7. req = [r \in Requests |-> req[r]]
  BY DEF Init
<1> QED BY <1>2, <1>4, <1>5, <1>6, <1>7 DEF SharedInvariant

LEMMA RequestInvariant ==
  ASSUME SharedInvariant, NEW r \in Requests, NEW client \in Clients,
         NEW s \in Services, Request(r, client, s)
  PROVE  SharedInvariant'
<1> DEFINE c     == config[client]
           api   == Api(s)
           scope == ScopeFor(c, api)
           new   == [at |-> "queued", client |-> client, service |-> s,
                     sender |-> Sender(c, api), scope |-> scope, policy |-> PolicyFor(c, s)]
           R     == Registered(c, api)
<1>1. c \in Known /\ c # None /\ api \in {"general", "subway"} /\ Agrees(c, api)
  BY ServiceApi DEF Request, SharedInvariant, Maybe
<1>2. /\ registry' = Stated(R, scope, QuotaGroup(s)) /\ req' = [req EXCEPT ![r] = new]
      /\ UNCHANGED <<config, owed, strayed>>
  BY DEF Request
<1>3. /\ RegistryOK(R) /\ Keeps(registry, R) /\ KeepsPauses(registry, R)
      /\ scope \in DOMAIN R /\ R[scope].limit = c.limit
  BY <1>1, LookupKeeps DEF SharedInvariant
<1>4. QuotaGroup(s) \in Groups
  BY ServiceGroup
<1> HIDE DEF R
<1>5. /\ RegistryOK(registry') /\ Keeps(R, registry') /\ KeepsPauses(R, registry')
      /\ State(registry', scope, QuotaGroup(s)) # None
  BY <1>2, <1>3, <1>4, StatedKeeps
<1>6. Keeps(registry, registry') /\ KeepsPauses(registry, registry')
  BY <1>3, <1>5, KeepsTwice
<1>7. scope \in DOMAIN registry' /\ registry'[scope].limit = c.limit
  BY <1>3, <1>5 DEF Keeps
<1>8. CallOK(new, registry') /\ ClientOK(new, config)
  <2>1. scope \in Scopes /\ scope = Sender(c, api) /\ Sender(c, api) \in Senders
    BY <1>1, KnownScope
  <2>2. PolicyFor(c, s) \in Policies /\ PolicyFor(c, s).limit = c.limit
    BY <1>1, PolicyLimit
  <2> HIDE DEF scope, c, api
  <2>3. new \in Calling /\ new.at = "queued"
    BY <2>1, <2>2 DEF Calling
  <2> QED BY <1>1, <1>5, <1>7, <2>1, <2>2, <2>3 DEF CallOK, ClientOK, c
<1>9. new.at # "sent"
  OBVIOUS
<1> HIDE DEF new
<1>10. /\ config' \in [Clients -> Maybe(Known)]
       /\ req' = [q \in Requests |-> req'[q]]
       /\ \A q \in Requests : CallOK(req'[q], registry') /\ ClientOK(req'[q], config')
       /\ CrowdOK'
  BY <1>2, <1>5, <1>6, <1>8, <1>9, CallStep
<1>11. owed' \subseteq Paused'
  BY <1>2, <1>5, <1>6, OwedStaysPaused
<1> QED BY <1>5, <1>10, <1>11 DEF SharedInvariant

(* Steps that leave the registry alone and send nothing. *)
LEMMA QuietStepInvariant ==
  ASSUME SharedInvariant, NEW r \in Requests, NEW new,
         req' = [req EXCEPT ![r] = new],
         UNCHANGED <<config, registry, owed, strayed>>,
         CallOK(new, registry), ClientOK(new, config), new.at # "sent"
  PROVE  SharedInvariant'
<1>1. RegistryOK(registry') /\ Keeps(registry, registry') /\ KeepsPauses(registry, registry')
  BY SameRegistry DEF SharedInvariant
<1>2. /\ config' \in [Clients -> Maybe(Known)]
      /\ req' = [q \in Requests |-> req'[q]]
      /\ \A q \in Requests : CallOK(req'[q], registry') /\ ClientOK(req'[q], config')
      /\ CrowdOK'
  BY <1>1, CallStep
<1>3. owed' \subseteq Paused'
  BY <1>1, OwedStaysPaused
<1> QED BY <1>1, <1>2, <1>3 DEF SharedInvariant

LEMMA EndInvariant ==
  ASSUME SharedInvariant, NEW r \in Requests, Refuse(r) \/ Finish(r)
  PROVE  SharedInvariant'
BY IdleOK, QuietStepInvariant DEF Refuse, Finish, End

LEMMA RetryInvariant ==
  ASSUME SharedInvariant, NEW r \in Requests, RetrySame(r) \/ RetryAnew(r)
  PROVE  SharedInvariant'
<1>1. PICK point \in {"queued", "again"} :
        /\ req' = [req EXCEPT ![r] = [req[r] EXCEPT !.at = point]]
        /\ UNCHANGED <<config, registry, owed, strayed>>
  BY DEF RetrySame, RetryAnew, MoveTo
<1>2. req[r].at # "idle"
  BY DEF RetrySame, RetryAnew
<1> DEFINE new == [req[r] EXCEPT !.at = point]
<1>3. CallOK(new, registry) /\ new.client = req[r].client /\ new.at = point
  <2>1. CallOK(req[r], registry)
    BY <1>2, Underway
  <2>2. point \in {"queued", "waiting", "sent", "again"} /\ point \notin {"waiting", "sent"}
    OBVIOUS
  <2> QED BY <1>2, <2>1, <2>2, MovedOK
<1>4. ClientOK(new, config)
  BY <1>2, <1>3, Underway DEF ClientOK, Idle
<1> HIDE DEF new
<1> QED BY <1>1, <1>3, <1>4, QuietStepInvariant DEF new

LEMMA SettleInvariant ==
  ASSUME SharedInvariant, NEW r \in Requests, Settle(r)
  PROVE  SharedInvariant'
<1> DEFINE scope == req[r].scope
           g     == Group(r)
           old   == State(registry, scope, g)
           state == [old EXCEPT !.policy = req[r].policy]
           new   == [req[r] EXCEPT !.at = "waiting"]
<1>1. /\ scope \in DOMAIN registry /\ g \in Groups /\ old \in GroupStates
      /\ req[r].policy \in Policies /\ req[r].policy.limit = registry[scope].limit
      /\ CallOK(req[r], registry) /\ ClientOK(req[r], config) /\ req[r].at # "idle"
      /\ old.policy \in {None, req[r].policy}
  BY Underway DEF Settle
<1>2. /\ registry' = Put(registry, scope, g, state)
      /\ req' = [req EXCEPT ![r] = new]
      /\ UNCHANGED <<config, owed, strayed>>
  BY DEF Settle, MoveTo, Put, State
<1>3. /\ state \in GroupStates /\ state.policy = req[r].policy
      /\ state.paused = old.paused
  BY <1>1 DEF GroupStates, Maybe
<1> HIDE DEF state, old
<1>4. /\ RegistryOK(registry') /\ Keeps(registry, registry')
      /\ KeepsPauses(registry, registry')
  BY <1>1, <1>2, <1>3, PutKeeps DEF SharedInvariant, old
<1>5. State(registry', scope, g) = state
  BY <1>1, <1>2, <1>3, PutReplaces DEF SharedInvariant
<1>6. CallOK(req[r], registry')
  BY <1>1, <1>4, CallKept
<1>7. CallOK(new, registry') /\ new.client = req[r].client /\ new.at = "waiting"
  <2>1. State(registry', scope, QuotaGroup(req[r].service)).policy = req[r].policy
    BY <1>3, <1>5 DEF Group
  <2>2. req[r].at # "idle" /\ CallOK(req[r], registry')
    BY <1>1, <1>6
  <2>3. "waiting" \in {"queued", "waiting", "sent", "again"}
    OBVIOUS
  <2>4. State(registry', req[r].scope, QuotaGroup(req[r].service)).policy = req[r].policy
    BY <2>1 DEF scope
  <2> DEFINE q == req[r]
  <2>5. /\ CallOK(q, registry') /\ q.at # "idle"
        /\ State(registry', q.scope, QuotaGroup(q.service)).policy = q.policy
    BY <2>2, <2>4
  <2> HIDE DEF scope, g, q, new
  <2>6. /\ CallOK([q EXCEPT !.at = "waiting"], registry')
        /\ [q EXCEPT !.at = "waiting"].client = q.client
        /\ [q EXCEPT !.at = "waiting"].at = "waiting"
    BY <2>3, <2>5, MovedOK
  <2> QED BY <2>6 DEF q, new
<1>8. ClientOK(new, config)
  BY <1>1, <1>7 DEF ClientOK, Idle
<1> HIDE DEF new
<1>9. /\ config' \in [Clients -> Maybe(Known)]
      /\ req' = [q \in Requests |-> req'[q]]
      /\ \A q \in Requests : CallOK(req'[q], registry') /\ ClientOK(req'[q], config')
      /\ CrowdOK'
  BY <1>2, <1>4, <1>7, <1>8, CallStep
<1>10. owed' \subseteq Paused'
  BY <1>2, <1>4, OwedStaysPaused
<1> QED BY <1>4, <1>9, <1>10 DEF SharedInvariant

(* The gate keeps the crowd within the concurrency. *)
LEMMA SendCrowd ==
  ASSUME SharedInvariant, NEW r \in Requests, Send(r)
  PROVE  CrowdOK'
<1> DEFINE new == [req[r] EXCEPT !.at = "sent"]
<1>1. /\ req[r] \in Calling /\ req[r].at = "waiting" /\ GroupState(r).policy = req[r].policy
      /\ req[r].scope = req[r].sender /\ req[r].policy \in Policies
      /\ Cardinality(Neighbours(r)) < req[r].policy.limit
  BY Underway DEF Send
<1>2. /\ new.at = "sent" /\ new.policy = req[r].policy /\ new.sender = req[r].sender
      /\ new.service = req[r].service
  BY <1>1 DEF Calling
<1> HIDE DEF new
<1>3. req'[r] = new /\ \A q \in Requests \ {r} : req'[q] = req[q]
  BY DEF Send, MoveTo, SharedInvariant, new
<1>4. \A q \in Requests : Group(q)' = Group(q) /\ req'[q].sender = req[q].sender
                            /\ req'[q].policy = req[q].policy
  BY <1>2, <1>3 DEF Group
<1>5. At({"sent"})' = At({"sent"}) \cup {r}
  BY <1>2, <1>3 DEF At
<1>6. \A q \in At({"sent"}) : req[q].scope = req[q].sender
  BY Underway DEF At
<1>7. Neighbours(r) = {q \in At({"sent"}) : Alike(q, r)}
  BY <1>1, <1>6 DEF Neighbours, Alike
<1>8. IsFiniteSet(Neighbours(r)) /\ Cardinality(Neighbours(r)) \in Nat
  BY SharedLimitersAssumption, FS_Subset, FS_CardinalityType DEF Neighbours, At
<1> SUFFICES ASSUME NEW x \in Requests, req'[x].at = "sent"
             PROVE  Cardinality({q \in At({"sent"}) : Alike(q, x)})'
                      <= req'[x].policy.limit
  BY DEF CrowdOK, ConcurrencyShared, At
<1> DEFINE crowd == {q \in At({"sent"}) : Alike(q, x)}
<1>9. CASE Alike(x, r)
  <2>1. crowd' = Neighbours(r) \cup {r}
    BY <1>4, <1>5, <1>7, <1>9 DEF Alike, At
  <2>2. Cardinality(crowd') <= Cardinality(Neighbours(r)) + 1
    BY <1>8, <2>1, OneMore
  <2>3. x = r \/ x \in Neighbours(r)
    BY <1>3, <1>7, <1>9 DEF At
  <2>4. req[x].policy.limit = req[r].policy.limit
    <3>1. x # r => req[x].at = "sent"
      BY <1>3
    <3>2. req[x].at # "idle" /\ req[r].at # "idle"
      BY <1>1, <3>1
    <3>3. req[x].policy.limit = registry[req[x].sender].limit
      BY <3>2, Underway
    <3>4. req[r].policy.limit = registry[req[r].sender].limit
      BY <3>2, Underway
    <3> QED BY <1>9, <3>3, <3>4 DEF Alike
  <2>5. req[r].policy.limit \in Nat
    BY <1>1, PolicyLimits
  <2>6. Cardinality(crowd') \in Nat
    BY <1>8, <2>1, OneMore, FS_CardinalityType
  <2> HIDE DEF crowd
  <2>7. Cardinality(crowd') <= req[r].policy.limit
    BY <1>1, <1>8, <2>2, <2>5, <2>6
  <2> QED BY <1>4, <2>4, <2>7 DEF crowd
<1>10. CASE ~Alike(x, r)
  <2>1. crowd' = crowd
    BY <1>4, <1>5, <1>10 DEF Alike, At
  <2>2. req[x].at = "sent"
    BY <1>1, <1>3, <1>10 DEF Alike
  <2> QED BY <1>4, <2>1, <2>2 DEF SharedInvariant, CrowdOK, ConcurrencyShared, At
<1> QED BY <1>9, <1>10

LEMMA SendInvariant ==
  ASSUME SharedInvariant, NEW r \in Requests, Send(r)
  PROVE  SharedInvariant'
<1> DEFINE new == [req[r] EXCEPT !.at = "sent"]
<1>1. /\ req' = [req EXCEPT ![r] = new]
      /\ UNCHANGED <<config, registry, owed, strayed>>
  BY DEF Send, MoveTo
<1>2. /\ CallOK(req[r], registry) /\ ClientOK(req[r], config)
      /\ req[r].at = "waiting" /\ GroupState(r).policy = req[r].policy
  BY Underway DEF Send
<1>3. CallOK(new, registry) /\ new.client = req[r].client
  <2>1. State(registry, req[r].scope, QuotaGroup(req[r].service)).policy = req[r].policy
    BY <1>2 DEF GroupState, State, Group
  <2> DEFINE q == req[r]
  <2>2. /\ CallOK(q, registry) /\ q.at # "idle"
        /\ State(registry, q.scope, QuotaGroup(q.service)).policy = q.policy
        /\ "sent" \in {"queued", "waiting", "sent", "again"}
    BY <1>2, <2>1
  <2> HIDE DEF q, new
  <2>3. /\ CallOK([q EXCEPT !.at = "sent"], registry)
        /\ [q EXCEPT !.at = "sent"].client = q.client
    BY <2>2, MovedOK
  <2> QED BY <2>3 DEF q, new
<1>4. ClientOK(new, config)
  BY <1>2, <1>3 DEF ClientOK, Idle
<1>5. RegistryOK(registry') /\ Keeps(registry, registry') /\ KeepsPauses(registry, registry')
  BY <1>1, SameRegistry DEF SharedInvariant
<1> HIDE DEF new
<1>6. /\ config' \in [Clients -> Maybe(Known)]
      /\ req' = [q \in Requests |-> req'[q]]
      /\ \A q \in Requests : CallOK(req'[q], registry') /\ ClientOK(req'[q], config')
  BY <1>1, <1>3, <1>4, <1>5, CallStep
<1>7. owed' \subseteq Paused'
  BY <1>1, <1>5, OwedStaysPaused
<1> QED BY <1>5, <1>6, <1>7, SendCrowd DEF SharedInvariant

(* A pause owed is recorded with the limiter of the request. *)
LEMMA PauseRecorded ==
  ASSUME SharedInvariant, NEW r \in Requests, NEW R, RegistryOK(R), Keeps(registry, R),
         KeepsPauses(registry, R), req[r].at # "idle",
         registry' = Marked(R, req[r].sender, Group(r)),
         owed' = owed \cup {<<req[r].sender, Group(r)>>}
  PROVE  owed' \subseteq Paused'
<1>1. /\ req[r].scope = req[r].sender /\ req[r].sender \in DOMAIN registry
      /\ Group(r) \in Groups /\ State(registry, req[r].sender, Group(r)) # None
  BY Underway, StatesAreSome
<1>2. req[r].sender \in DOMAIN R /\ State(R, req[r].sender, Group(r)) # None
  BY <1>1 DEF Keeps
<1>3. /\ RegistryOK(registry') /\ Keeps(R, registry') /\ KeepsPauses(R, registry')
      /\ State(registry', req[r].sender, Group(r)) # None
      /\ State(registry', req[r].sender, Group(r)).paused
  BY <1>1, <1>2, MarkedKeeps
<1>4. KeepsPauses(registry, registry') /\ Keeps(registry, registry')
  BY <1>3, KeepsTwice
<1>5. owed \subseteq Paused'
  BY <1>3, <1>4, OwedStaysPaused
<1>6. req[r].sender \in DOMAIN registry'
  BY <1>1, <1>4 DEF Keeps
<1>7. <<req[r].sender, Group(r)>> \in Paused'
  BY <1>1, <1>3, <1>6 DEF Paused, State
<1> QED BY <1>5, <1>7

LEMMA ThrottledInvariant ==
  ASSUME SharedInvariant, NEW r \in Requests, Throttled(r)
  PROVE  SharedInvariant'
<1>1. /\ req[r].scope = req[r].sender /\ req[r].scope \in DOMAIN registry
      /\ Group(r) \in Groups /\ CallOK(req[r], registry) /\ ClientOK(req[r], config)
      /\ req[r].at # "idle" /\ State(registry, req[r].sender, Group(r)) # None
  BY Underway, StatesAreSome DEF Throttled
<1>2. /\ registry' = Marked(registry, req[r].sender, Group(r))
      /\ owed' = owed \cup {<<req[r].sender, Group(r)>>}
      /\ UNCHANGED config
  BY <1>1 DEF Throttled
<1>3. /\ RegistryOK(registry') /\ Keeps(registry, registry')
  BY <1>1, <1>2, MarkedKeeps DEF SharedInvariant
<1>4. owed' \subseteq Paused'
  BY <1>1, <1>2, SameRegistry, PauseRecorded DEF SharedInvariant
<1>5. PICK new : /\ req' = [req EXCEPT ![r] = new] /\ new.at # "sent"
                 /\ CallOK(new, registry') /\ ClientOK(new, config)
  <2>1. CASE End(r)
    BY <2>1, IdleOK DEF End
  <2>2. CASE MoveTo(r, "queued")
    <3> DEFINE new == [req[r] EXCEPT !.at = "queued"]
    <3>1. CallOK(req[r], registry')
      BY <1>1, <1>3, CallKept
    <3>2. "queued" \in {"queued", "waiting", "sent", "again"}
      OBVIOUS
    <3>3. CallOK(new, registry') /\ new.client = req[r].client /\ new.at = "queued"
      BY <1>1, <3>1, <3>2, MovedOK
    <3>4. ClientOK(new, config)
      BY <1>1, <3>3 DEF ClientOK, Idle
    <3>5. req' = [req EXCEPT ![r] = new]
      BY <2>2 DEF MoveTo
    <3> QED BY <3>3, <3>4, <3>5
  <2> QED BY <2>1, <2>2 DEF Throttled
<1>6. /\ config' \in [Clients -> Maybe(Known)]
      /\ req' = [q \in Requests |-> req'[q]]
      /\ \A q \in Requests : CallOK(req'[q], registry') /\ ClientOK(req'[q], config')
      /\ CrowdOK'
  BY <1>2, <1>3, <1>5, CallStep
<1> QED BY <1>3, <1>4, <1>6 DEF SharedInvariant

LEMMA QuotaExceededInvariant ==
  ASSUME SharedInvariant, NEW r \in Requests, QuotaExceeded(r)
  PROVE  SharedInvariant'
<1> DEFINE c     == config[req[r].client]
           api   == Api(req[r].service)
           scope == ScopeFor(c, api)
           R     == Registered(c, api)
<1>1. /\ c \in Known /\ api \in {"general", "subway"} /\ Group(r) \in Groups
      /\ req[r].at # "idle"
  BY Underway, ServiceApi DEF QuotaExceeded
<1>2. req' = [req EXCEPT ![r] = Idle] /\ UNCHANGED config
  BY DEF QuotaExceeded, End
<1>3. /\ RegistryOK(registry') /\ Keeps(registry, registry')
      /\ owed' \subseteq Paused'
  <2>1. CASE Agrees(c, api)
    <3>1. /\ RegistryOK(R) /\ Keeps(registry, R) /\ KeepsPauses(registry, R)
          /\ scope \in DOMAIN R /\ scope = Sender(c, api)
      BY <1>1, <2>1, LookupKeeps, KnownScope DEF SharedInvariant
    <3>2. registry' = Marked(R, scope, Group(r))
      BY <2>1 DEF QuotaExceeded
    <3> HIDE DEF R
    <3>3. /\ RegistryOK(registry') /\ Keeps(R, registry') /\ KeepsPauses(R, registry')
      BY <1>1, <3>1, <3>2, MarkedKeeps
    <3>4. Keeps(registry, registry') /\ KeepsPauses(registry, registry')
      BY <3>1, <3>3, KeepsTwice
    <3>5. CASE Sender(c, api) = req[r].sender
      <4>1. owed' = owed \cup {<<req[r].sender, Group(r)>>}
        BY <2>1, <3>5 DEF QuotaExceeded
      <4>2. registry' = Marked(R, req[r].sender, Group(r))
        BY <3>1, <3>2, <3>5
      <4>3. owed' \subseteq Paused'
        BY <1>1, <3>1, <4>1, <4>2, PauseRecorded
      <4> QED BY <3>3, <3>4, <4>3
    <3>6. CASE Sender(c, api) # req[r].sender
      <4>1. owed' = owed
        BY <3>6 DEF QuotaExceeded
      <4>2. owed \subseteq Paused'
        BY <3>3, <3>4, OwedStaysPaused
      <4> QED BY <3>3, <3>4, <4>1, <4>2
    <3> QED BY <3>5, <3>6
  <2>2. CASE ~Agrees(c, api)
    <3>1. UNCHANGED <<registry, owed>>
      BY <2>2 DEF QuotaExceeded
    <3> QED BY <3>1, SameRegistry, OwedStaysPaused DEF SharedInvariant
  <2> QED BY <2>1, <2>2
<1>4. Idle.at # "sent" /\ CallOK(Idle, registry') /\ ClientOK(Idle, config)
  BY IdleOK
<1>5. /\ config' \in [Clients -> Maybe(Known)]
      /\ req' = [q \in Requests |-> req'[q]]
      /\ \A q \in Requests : CallOK(req'[q], registry') /\ ClientOK(req'[q], config')
      /\ CrowdOK'
  BY <1>2, <1>3, <1>4, CallStep
<1> QED BY <1>3, <1>5 DEF SharedInvariant

(* The settings of a client change. *)
LEMMA SettingsInvariant ==
  ASSUME SharedInvariant, NEW client \in Clients, NEW new \in Maybe(Known),
         config' = [config EXCEPT ![client] = new],
         new = None => \A r \in Requests : req[r].client # client,
         UNCHANGED <<registry, req, owed>>
  PROVE  SharedInvariant'
<1>1. config' \in [Clients -> Maybe(Known)]
  BY DEF SharedInvariant
<1>2. \A r \in Requests : ClientOK(req[r], config')
  <2> TAKE r \in Requests
  <2>1. CASE req[r] = Idle
    BY <2>1 DEF ClientOK
  <2>2. CASE req[r] # Idle
    <3>1. req[r].client \in Clients /\ config[req[r].client] # None
      BY <2>2 DEF SharedInvariant, CallOK, ClientOK, Calling
    <3>2. req[r].client = client => new # None
      OBVIOUS
    <3>3. config'[req[r].client] = IF req[r].client = client THEN new
                                   ELSE config[req[r].client]
      BY <3>1 DEF SharedInvariant
    <3> QED BY <3>1, <3>2, <3>3 DEF ClientOK
  <2> QED BY <2>1, <2>2
<1>3. CrowdOK' /\ Paused' = Paused
  BY DEF SharedInvariant, CrowdOK, ConcurrencyShared, At, Alike, Group, Paused
<1>4. RegistryOK(registry') /\ \A r \in Requests : CallOK(req'[r], registry')
  BY DEF SharedInvariant
<1>5. \A r \in Requests : ClientOK(req'[r], config')
  BY <1>2
<1>6. req' = [r \in Requests |-> req'[r]]
  BY DEF SharedInvariant
<1> QED BY <1>1, <1>3, <1>4, <1>5, <1>6 DEF SharedInvariant

LEMMA UserInvariant ==
  ASSUME SharedInvariant, NEW client \in Clients,
         \/ \E given \in Openings : Open(client, given)
         \/ \E c \in Assignable : Reconfigure(client, c)
         \/ Close(client)
  PROVE  SharedInvariant'
<1>1. CASE \E given \in Openings : Open(client, given)
  <2>1. PICK given \in Openings : Open(client, given)
    BY <1>1
  <2> DEFINE new == Validated(FromEnv(Environment, given))
  <2>2. new \in Known
    BY DEF Known
  <2>3. new # None
    BY <2>2, SharedLimitersAssumption
  <2>4. config' = [config EXCEPT ![client] = new] /\ UNCHANGED <<registry, req, owed>>
    BY <2>1 DEF Open
  <2> HIDE DEF new
  <2> QED BY <2>2, <2>3, <2>4, SettingsInvariant DEF Maybe
<1>2. CASE \E c \in Assignable : Reconfigure(client, c)
  <2>1. PICK c \in Assignable : Reconfigure(client, c)
    BY <1>2
  <2> DEFINE new == Validated(c)
  <2>2. new \in Known
    BY DEF Known
  <2>3. new # None
    BY <2>2, SharedLimitersAssumption
  <2>4. config' = [config EXCEPT ![client] = new] /\ UNCHANGED <<registry, req, owed>>
    BY <2>1 DEF Reconfigure
  <2> HIDE DEF new
  <2> QED BY <2>2, <2>3, <2>4, SettingsInvariant DEF Maybe
<1>3. CASE Close(client)
  BY <1>3, SettingsInvariant DEF Close, Maybe
<1> QED BY <1>1, <1>2, <1>3

LEMMA PauseOverInvariant ==
  ASSUME SharedInvariant, NEW p \in owed \cup strayed \cup Paused, PauseOver(p)
  PROVE  SharedInvariant'
<1>1. UNCHANGED <<config, req>> /\ owed' = owed \ {p}
  BY DEF PauseOver
<1>2. CASE p \notin Paused
  <2>1. registry' = registry
    BY <1>2 DEF PauseOver
  <2>2. Paused' = Paused /\ CrowdOK'
    BY <1>1, <2>1 DEF Paused, SharedInvariant, CrowdOK, ConcurrencyShared, At, Alike, Group
  <2> QED BY <1>1, <2>1, <2>2 DEF SharedInvariant, ClientOK
<1>3. CASE p \in Paused
  <2> DEFINE old   == State(registry, p[1], p[2])
             state == [old EXCEPT !.paused = FALSE]
  <2>1. p = <<p[1], p[2]>> /\ p[1] \in DOMAIN registry /\ p[2] \in Groups /\ old # None
    BY <1>3 DEF Paused, State
  <2>2. old \in GroupStates
    BY <2>1, StateType DEF SharedInvariant
  <2>3. state \in GroupStates /\ state.policy = old.policy /\ state.paused = FALSE
    BY <2>2 DEF GroupStates
  <2>4. registry' = Put(registry, p[1], p[2], state)
    BY <1>3 DEF PauseOver, Put, State
  <2>5. state.policy # None => state.policy.limit = registry[p[1]].limit
    BY <2>1, <2>3 DEF SharedInvariant, RegistryOK
  <2> HIDE DEF state, old
  <2>6. RegistryOK(registry') /\ Keeps(registry, registry')
    BY <2>1, <2>3, <2>4, <2>5, PutKeeps DEF SharedInvariant, old
  <2>7. /\ DOMAIN registry' = DOMAIN registry
        /\ \A x \in DOMAIN registry, h \in Groups :
             State(registry', x, h) = IF x = p[1] /\ h = p[2] THEN state
                                      ELSE State(registry, x, h)
    BY <2>1, <2>3, <2>4, PutReplaces DEF SharedInvariant
  <2>8. owed' \subseteq Paused'
    <3> SUFFICES ASSUME NEW o \in owed, o # p PROVE o \in Paused'
      BY <1>1
    <3>1. /\ o \in (DOMAIN registry) \X Groups
          /\ State(registry, o[1], o[2]) # None /\ State(registry, o[1], o[2]).paused
      BY DEF SharedInvariant, Paused, State
    <3>2. ~(o[1] = p[1] /\ o[2] = p[2])
      BY <2>1, <3>1
    <3>3. State(registry', o[1], o[2]) = State(registry, o[1], o[2])
      BY <2>7, <3>1, <3>2
    <3> QED BY <2>7, <3>1, <3>3 DEF Paused, State
  <2>9. \A r \in Requests : CallOK(req'[r], registry') /\ ClientOK(req'[r], config')
    BY <1>1, <2>6, CallKept DEF SharedInvariant, ClientOK
  <2>10. CrowdOK'
    BY <1>1 DEF SharedInvariant, CrowdOK, ConcurrencyShared, At, Alike, Group
  <2> QED BY <1>1, <2>6, <2>8, <2>9, <2>10 DEF SharedInvariant
<1> QED BY <1>2, <1>3

LEMMA NewLoopInvariant ==
  ASSUME SharedInvariant, NewLoop
  PROVE  SharedInvariant'
<1>1. DOMAIN registry' = {} /\ owed' = {} /\ UNCHANGED config
  BY DEF NewLoop, Empty
<1>2. req' = [r \in Requests |-> Idle]
  BY DEF NewLoop
<1>3. RegistryOK(registry')
  BY <1>1 DEF RegistryOK
<1>4. CrowdOK'
  BY <1>2 DEF CrowdOK, ConcurrencyShared, At, Idle
<1>5. \A r \in Requests : CallOK(req'[r], registry') /\ ClientOK(req'[r], config')
  BY <1>2 DEF CallOK, ClientOK
<1>6. req' = [r \in Requests |-> req'[r]]
  BY <1>2
<1> QED BY <1>1, <1>3, <1>4, <1>5, <1>6 DEF SharedInvariant

LEMMA NextInvariant == SharedInvariant /\ [Next]_vars => SharedInvariant'
<1> SUFFICES ASSUME SharedInvariant, [Next]_vars PROVE SharedInvariant'
  OBVIOUS
<1>1. ASSUME NEW r \in Requests, NEW client \in Clients, NEW s \in Services,
             Ask(r, client, s)
      PROVE  SharedInvariant'
  BY <1>1, RequestInvariant DEF Ask
<1>2. ASSUME NEW r \in Requests, Again(r)
      PROVE  SharedInvariant'
  <2>1. req[r].client \in Clients /\ req[r].service \in Services
    BY <1>2, Underway DEF Again
  <2> QED BY <1>2, <2>1, RequestInvariant DEF Again
<1>3. ASSUME NEW r \in Requests,
             Settle(r) \/ Refuse(r) \/ Send(r) \/ Finish(r) \/ RetrySame(r)
               \/ Throttled(r) \/ RetryAnew(r) \/ QuotaExceeded(r)
      PROVE  SharedInvariant'
  BY <1>3, SettleInvariant, EndInvariant, SendInvariant, RetryInvariant,
     ThrottledInvariant, QuotaExceededInvariant
<1>4. CASE UNCHANGED vars
  <2>1. Paused' = Paused /\ CrowdOK'
    BY <1>4 DEF vars, Paused, SharedInvariant, CrowdOK, ConcurrencyShared, At, Alike, Group
  <2> QED BY <1>4, <2>1 DEF vars, SharedInvariant, ClientOK
<1> QED BY <1>1, <1>2, <1>3, <1>4, UserInvariant, PauseOverInvariant, NewLoopInvariant
        DEF Next

(* What calls under way and limiters stand for, at all times. *)
THEOREM SharedInvariantHolds == Spec => []SharedInvariant
BY InitInvariant, NextInvariant, PTL DEF Spec

-----------------------------------------------------------------------------
(* What clients rely on *)

(* Limiters, calls and clients are what the program makes them, and a call *)
(* under way has a limiter with a state for its group.                     *)
THEOREM SharedTypeCorrect == Spec => []SharedTypeOK
<1>1. SharedInvariant => SharedTypeOK
  <2> SUFFICES ASSUME SharedInvariant PROVE SharedTypeOK
    OBVIOUS
  <2>1. \A r \in Requests : req[r] # Idle =>
          /\ req[r] \in Calling /\ req[r].scope \in DOMAIN registry
          /\ GroupState(r) # None /\ config[req[r].client] # None
    BY DEF SharedInvariant, CallOK, ClientOK, GroupState, State, Group
  <2> QED BY <2>1 DEF SharedTypeOK, SharedInvariant, RegistryOK
<1> QED BY <1>1, SharedInvariantHolds, PTL

(* A credential has one limiter and one policy per group, however many     *)
(* clients use it and however their settings are assigned to.              *)
THEOREM OneLimiterAlways == Spec => []OneLimiterPerSender
<1>1. SharedInvariant => OneLimiterPerSender
  <2> SUFFICES ASSUME SharedInvariant, NEW q \in At({"waiting", "sent"}),
                      NEW r \in At({"waiting", "sent"}), Alike(q, r)
               PROVE  req[q].scope = req[r].scope /\ req[q].policy = req[r].policy
    BY DEF OneLimiterPerSender
  <2>1. \A x \in {q, r} :
          /\ req[x].scope = req[x].sender
          /\ State(registry, req[x].sender, Group(x)).policy = req[x].policy
    BY Underway DEF At
  <2> QED BY <2>1 DEF Alike
<1> QED BY <1>1, SharedInvariantHolds, PTL

(* A credential never has more calls of a group in flight than allowed.    *)
THEOREM ConcurrencyAlwaysShared == Spec => []ConcurrencyShared
<1>1. SharedInvariant => ConcurrencyShared
  BY DEF SharedInvariant, CrowdOK
<1> QED BY <1>1, SharedInvariantHolds, PTL

(* The policies settled in a limiter are of its concurrency.               *)
THEOREM PoliciesAlwaysFit == Spec => []PolicyFitsLimiter
<1>1. SharedInvariant => PolicyFitsLimiter
  BY DEF SharedInvariant, RegistryOK, PolicyFitsLimiter, State
<1> QED BY <1>1, SharedInvariantHolds, PTL

(* No call starts within a pause that was asked of its credential.         *)
THEOREM PausesHonoured == Spec => PauseHonoured
<1>1. SharedInvariant /\ [Next]_vars =>
        [\A r \in Requests : Send(r) => <<req[r].sender, Group(r)>> \notin owed]_vars
  <2> SUFFICES ASSUME SharedInvariant, NEW r \in Requests, Send(r),
                      <<req[r].sender, Group(r)>> \in owed
               PROVE  FALSE
    OBVIOUS
  <2>1. ~GroupState(r).paused /\ req[r].scope = req[r].sender
    BY Underway DEF Send
  <2> QED BY <2>1 DEF SharedInvariant, Paused, GroupState
<1> QED BY <1>1, SharedInvariantHolds, PTL DEF Spec, PauseHonoured

(* Two spellings of one base URL lead to one limiter, and two endpoints    *)
(* never do.                                                               *)
THEOREM CanonicalAlwaysIdentifies == Spec => []CanonicalIdentifies
<1>1. CanonicalIdentifies
  BY SettingsAssumption, OneFormOneEndpoint DEF CanonicalIdentifies
<1> QED BY <1>1, PTL
=============================================================================
