-------------------------- MODULE MCSharedLimiters --------------------------
(* SharedLimiters on small instances. *)
EXTENDS SharedLimiters

CONSTANTS a, b, r1, r2, r3

OneClient     == {a}
TwoClients    == {a, b}
OneRequest    == {r1}
TwoRequests   == {r1, r2}
ThreeRequests == {r1, r2, r3}

SubwayPair  == {"realtimeStationArrival", "realtimePosition"}
SubwayAndTraffic == SubwayPair \cup {"TrafficInfo"}

Unnamed == [n \in Names |-> None]

Host(name)  == [name |-> name, upper |-> FALSE, dots |-> 0]
Https(host) == [scheme |-> "https", host |-> host, port |-> None, path |-> <<>>]

(* The defaults behind an HTTPS proxy, no key given. *)
Defaults ==
  [apiKey |-> None, subwayKey |-> None, insecure |-> None,
   url |-> [general |-> Https(Host("openapi")), subway |-> Https(Host("swopenapi"))],
   limit |-> 1, zone |-> "Seoul",
   generalInterval |-> 1, realtimeInterval |-> 30,
   budgets |-> Unnamed, defaultBudget |-> None, subwayBudget |-> 1000]

(* One key for both APIs, set under a general name. *)
OneKeySet == [general |-> <<None, "", "k1">>, subway |-> <<None>>, insecure |-> None]

ByArgument == [Defaults EXCEPT !.apiKey = "k2"]

(* The same endpoints, spelled otherwise. *)
Respelled(u) ==
  [u EXCEPT !.host.upper = TRUE, !.host.dots = 1, !.port = 443, !.path = <<<<"%2e">>, <<>>>>]

Plain       == [Defaults EXCEPT !.apiKey = "k1", !.insecure = FALSE]
Wider       == [Plain EXCEPT !.limit = 2]
OwnSubway   == [Plain EXCEPT !.subwayKey = "k2"]
GroupBudget == [Plain EXCEPT !.budgets["realtimeSubway"] = 900,
                             !.url = [general |-> Respelled(@.general),
                                      subway  |-> Respelled(@.subway)]]
OneService  == [Plain EXCEPT !.budgets["realtimePosition"] = 10]

FromEnvironment == {Defaults}
WithKey         == {ByArgument}
Mixed           == {Wider, GroupBudget, OwnSubway}
Rotated         == {OwnSubway}
NamedOnly       == {OneService}

(* Spellings of hosts and ports, and of paths of up to three segments. *)
Up        == {<<".", ".">>, <<".", "%2e">>}
Segments  == {<<>>, <<".">>, <<"%2e">>, <<"~">>, <<"%7e">>, <<"%2f">>, <<"~", ".">>} \cup Up
Paths     == {<<>>} \cup [1..1 -> Segments] \cup [1..2 -> Segments]
              \cup [1..3 -> {<<"~">>, <<"%7e">>, <<".">>} \cup Up]

Spellings ==
  [scheme : {"https"}, host : {Host("openapi")}, port : {None}, path : Paths] \cup
  [scheme : {"http", "https"},
   host : [name : {"openapi", "swopenapi"}, upper : BOOLEAN, dots : 0..1],
   port : {None, 80, 443}, path : {<<>>, <<<<"%7e">>, <<>>>>}]

NoUrls == {}

Interchangeable == Permutations(Requests) \cup Permutations(Clients)
=============================================================================
