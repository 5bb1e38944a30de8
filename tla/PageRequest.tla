----------------------------- MODULE PageRequest -----------------------------
(***************************************************************************)
(* What a call asks for, and whether it is sent: the endpoint methods and  *)
(* _paginated_response_limit (client.py), the checks of request() and      *)
(* _validate_pagination (transport.py).  The range is measured twice, once *)
(* to check the request and once to bound the answer.                      *)
(***************************************************************************)
EXTENDS Python, Integers, FiniteSets

CONSTANTS
  MaxPage,     \* the most rows the provider returns at once: 1000
  SamplePage,  \* the most it returns for the sample key: 5
  MaxItems     \* all_station_arrivals_max_items

ASSUME PageRequestAssumption ==
  /\ MaxPage \in Nat \ {0} /\ SamplePage \in Nat \ {0} /\ MaxItems \in Nat \ {0}

(***************************************************************************)
(* A call.                                                                 *)
(*   service      the service called                                       *)
(*   format       the response format asked for                            *)
(*   first, last  start_index and end_index                                *)
(*   items        the max_items of subway_arrivals_all                     *)
(*   key          None, "sample" or "own": the key of its API              *)
(*   open         the base URL is allowed: https, or http and opted in     *)
(*   optin        allow_all_station_arrivals                               *)
(***************************************************************************)
AllStations == "realtimeStationArrival/ALL"

General == {"TrafficInfo", "GetParkingInfo", "GetParkInfo", "citydata"}
Subway  == {"realtimeStationArrival", "realtimePosition", AllStations}

Services == General \cup Subway

CallShape ==
  [service : Services, format : {"json", "xml"}, first : Int, last : Int,
   items : Int \cup {None}, key : {None, "sample", "own"}, open : BOOLEAN,
   optin : BOOLEAN]

Api(c) == IF c.service \in Subway THEN "subway" ELSE "general"

Formats(c) == IF c.service = "TrafficInfo" THEN {"xml"} ELSE {"json", "xml"}

(* subway_arrivals_all has no range, citydata always the same. *)
Paged(c) == c.service # AllStations

First(c) == IF c.service = "citydata" THEN 1 ELSE c.first
Last(c)  == IF c.service = "citydata" THEN 5 ELSE c.last

-----------------------------------------------------------------------------
(* Fault: the subway API is taken to include both ends, too. *)
PageSizeInclusive(c) == Last(c) - First(c) + 1

PageSize(c) ==
  IF Api(c) = "subway" THEN Last(c) - First(c) ELSE Last(c) - First(c) + 1

(* _validate_pagination. *)
RangeRefused(c) ==
  \/ First(c) < (IF Api(c) = "general" THEN 1 ELSE 0)
  \/ Last(c) < First(c)
  \/ PageSize(c) \notin 1..MaxPage
  \/ c.key = "sample" /\ Api(c) = "subway" /\ (First(c) # 0 \/ Last(c) > SamplePage)
  \/ c.key = "sample" /\ Api(c) = "general" /\ PageSize(c) > SamplePage

AllStationsRefused(c) ==
  \/ ~c.optin
  \/ c.key = "sample"
  \/ c.items # None /\ c.items <= 0

(* For the sample key the provider may answer for another place. *)
CitydataRefused(c) == c.key = "sample"

(* The calls that end in SeoulConfigurationError before anything is sent. *)
Refused(c) ==
  \/ c.format \notin Formats(c)
  \/ c.service = AllStations /\ AllStationsRefused(c)
  \/ c.service = "citydata" /\ CitydataRefused(c)
  \/ c.key = None
  \/ ~c.open
  \/ Paged(c) /\ RangeRefused(c)

-----------------------------------------------------------------------------
(* _paginated_response_limit: the rows of the range once more. *)
PaginatedResponseLimit(c) ==
  Last(c) - First(c) + (IF Api(c) = "general" THEN 1 ELSE 0)

EffectiveMaxItems(c) ==
  IF c.items = None \/ c.items > MaxItems THEN MaxItems ELSE c.items

(* The max_items the parser gets. *)
Limit(c) == IF Paged(c) THEN PaginatedResponseLimit(c) ELSE EffectiveMaxItems(c)

-----------------------------------------------------------------------------
(* The rows a call is about, as the library takes the provider to count    *)
(* them: a general range includes both its ends and starts at 1, a subway  *)
(* range starts at 0 and excludes its end.                                 *)
Asked(c) ==
  IF Paged(c)
    THEN Cardinality((IF Api(c) = "general" THEN First(c) ELSE First(c) + 1)..Last(c))
    ELSE EffectiveMaxItems(c)
=============================================================================
