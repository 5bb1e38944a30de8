------------------------------ MODULE Settings ------------------------------
(***************************************************************************)
(* SeoulOpenDataConfig (config.py): how it is made from arguments and      *)
(* environment, how base URLs are brought into one form, and what a call   *)
(* takes from it.                                                          *)
(***************************************************************************)
EXTENDS Integers, Sequences, SequencesExt, FiniteSets

CONSTANTS
  None,      \* Python's None
  Services,  \* the services called
  Urls       \* base URLs whose spellings are compared

SubwayServices ==
  {"realtimeStationArrival", "realtimeStationArrival/ALL", "realtimePosition"}

QuotaGroup(s) == IF s \in SubwayServices THEN "realtimeSubway" ELSE s

Api(s) == IF s \in SubwayServices THEN "subway" ELSE "general"

Groups == {QuotaGroup(s) : s \in Services}
Names  == Services \cup Groups

Maybe(S) == S \cup {None}

First(candidates) ==
  LET given == SelectSeq(candidates, LAMBDA x : x \notin {None, ""})
  IN IF given = <<>> THEN None ELSE Head(given)

-----------------------------------------------------------------------------
(* from_env.  An environment has the values of the general and of the      *)
(* subway variables, in the order they are looked at; the subway variables *)
(* are followed by the general ones.                                       *)
SubwayVariables(env) == env.subway \o env.general

Unless(given, otherwise) == IF given # None THEN given ELSE otherwise

(* What the arguments leave open is taken from the environment. *)
FromEnv(env, given) ==
  [given EXCEPT !.apiKey    = Unless(@, First(env.general)),
                !.subwayKey = Unless(@, First(SubwayVariables(env))),
                !.insecure  = Unless(@, Unless(env.insecure, FALSE))]

(* Without any key from_env raises SeoulConfigurationError. *)
Keyless(c) == First(<<c.apiKey, c.subwayKey>>) = None

-----------------------------------------------------------------------------
(***************************************************************************)
(* A base URL: scheme, host, port or None, path.  A host is a name, in     *)
(* upper case or not, and the dots after it.  A path is a sequence of      *)
(* segments, a segment a sequence of symbols: characters and percent       *)
(* escapes.  "~" stands for every ordinary character, "%2f" for the        *)
(* reserved ones, which stay escaped.                                      *)
(***************************************************************************)
UrlShape ==
  [scheme : {"http", "https"}, host : [name : STRING, upper : BOOLEAN, dots : Nat],
   port : Nat \cup {None}, path : Seq(Seq(STRING))]

ASSUME SettingsAssumption == Urls \subseteq UrlShape /\ None \notin Nat

Decoded(symbol) ==
  CASE symbol = "%2e" -> "."
    [] symbol = "%7e" -> "~"
    [] symbol = "%2f" -> "%2F"
    [] OTHER          -> symbol

(* _canonicalize_path *)
DecodedPath(path) ==
  [i \in DOMAIN path |-> [j \in DOMAIN path[i] |-> Decoded(path[i][j])]]

Climb(above) == IF above = <<>> THEN <<>> ELSE Front(above)

Descend(above, segment) ==
  IF segment \in {<<>>, <<".">>} THEN above
  ELSE IF segment = <<".", ".">> THEN Climb(above)
  ELSE Append(above, segment)

(* posixpath.normpath of an absolute path. *)
Normalised(path) ==
  LET above[n \in Nat] == IF n = 0 THEN <<>> ELSE Descend(above[n - 1], path[n])
  IN above[Len(path)]

(* Fault: dot segments are removed before escapes are decoded. *)
CanonicalPathLate(path) == DecodedPath(Normalised(path))

CanonicalPath(path) == Normalised(DecodedPath(path))

DefaultPort(scheme) == IF scheme = "http" THEN 80 ELSE 443

(* validate_base_url *)
Canonical(u) ==
  [scheme |-> u.scheme,
   host   |-> [name |-> u.host.name, upper |-> FALSE, dots |-> 0],
   port   |-> IF u.port = DefaultPort(u.scheme) THEN None ELSE u.port,
   path   |-> CanonicalPath(u.path)]

(* Every assignment, and validated_copy, put the URLs in that form. *)
Validated(c) == [c EXCEPT !.url = [api \in DOMAIN @ |-> Canonical(@[api])]]

-----------------------------------------------------------------------------
(* subway_key falls back on the general key. *)
KeyFor(c, api) ==
  IF api = "subway" THEN Unless(First(<<c.subwayKey>>), c.apiKey) ELSE c.apiKey

(* The named budget of the group, else that of the service or the default, *)
(* else the allowance of the realtime subway services.                     *)
BudgetFor(c, s) ==
  LET group   == QuotaGroup(s)
      service == Unless(c.budgets[s], c.defaultBudget)
      subway  == IF group = "realtimeSubway" THEN c.subwayBudget ELSE None
  IN Unless(c.budgets[group], Unless(service, subway))

PolicyFor(c, s) ==
  [interval |-> IF QuotaGroup(s) = "realtimeSubway" THEN c.realtimeInterval
                                                    ELSE c.generalInterval,
   budget   |-> BudgetFor(c, s),
   limit    |-> c.limit]

(* An http endpoint has to be opted in. *)
Allowed(c, api) == c.url[api].scheme = "https" \/ c.insecure

-----------------------------------------------------------------------------
(***************************************************************************)
(* Which spellings mean one endpoint, stated without computing a form.     *)
(***************************************************************************)
Equivalent == {{".", "%2e"}, {"~", "%7e"}, {"%2f", "%2F"}}

SameSegment(a, b) ==
  /\ Len(a) = Len(b)
  /\ \A i \in 1..Len(a) : a[i] = b[i] \/ {a[i], b[i]} \in Equivalent

IsUp(segment)   == SameSegment(segment, <<".", ".">>)
IsName(segment) == ~IsUp(segment) /\ segment # <<>> /\ ~SameSegment(segment, <<".">>)

(* How far down a path leads with its first n segments, "/.." being lower *)
(* than "/" here.                                                          *)
Height(path, n) ==
  Cardinality({i \in 1..n : IsName(path[i])}) - Cardinality({i \in 1..n : IsUp(path[i])})

(* The segments no later ".." takes away, and how many of them follow one. *)
Lasting(path) ==
  {i \in 1..Len(path) :
     IsName(path[i]) /\ \A j \in i..Len(path) : Height(path, j) >= Height(path, i)}

Following(path, i) == Height(path, Len(path)) - Height(path, i)

SameResource(p, q) ==
  /\ {Following(p, i) : i \in Lasting(p)} = {Following(q, j) : j \in Lasting(q)}
  /\ \A i \in Lasting(p), j \in Lasting(q) :
       Following(p, i) = Following(q, j) => SameSegment(p[i], q[j])

Port(u) == Unless(u.port, DefaultPort(u.scheme))

SameEndpoint(u, v) ==
  /\ u.scheme = v.scheme /\ u.host.name = v.host.name /\ Port(u) = Port(v)
  /\ SameResource(u.path, v.path)
=============================================================================
