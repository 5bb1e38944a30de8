----------------------------- MODULE MCExchange -----------------------------
(* Exchange over answers of every service in its documented shapes, and of  *)
(* some others.                                                             *)
EXTENDS Formats

(* Only the bodies that occur are parsed, once. *)
Decoded(content, form) == ParsePayload(Body(content, form))

SameNames ==
  {{"link_id", "LINK_ID"}, {"prcs_spd", "PRCS_SPD"}, {"CODE", "code"},
   {"MESSAGE", "message"}, {"CITYDATA", "citydata"}, {"PKLT_NM", "pklt_nm"}}

Numerals == [n \in {"12.5", "1,077", "-3.7", "2", "200"} |->
               CASE n = "12.5" -> 125 [] n = "1,077" -> 10770 [] n = "-3.7" -> -37
                 [] n = "2" -> 20 [] n = "200" -> 2000]

Moments  == [w \in {"20260921093000", "2026-09-21 09:30:00"} |-> "09:30"]
Yes      == {"1", "true", "True", "Y"}
Quota    == {"daily limit"}

-----------------------------------------------------------------------------
Word(name, word) == <<name, Text(word)>>

(* Rows of each service, of various values, and one that is not identified. *)
TrafficRows ==
  <<Object(<<Word("link_id", "1220003800"), <<"prcs_spd", Number("12.5")>>, Word("prcs_trv_time", "1,077")>>),
    Object(<<Word("LINK_ID", "key"), <<"PRCS_SPD", [text |-> "-3.7", padded |-> TRUE]>>, <<"prcs_trv_time", Null>>>>),
    Object(<<Word("link_id", ""), <<"prcs_spd", Number("2")>>>>)>>

PositionRows ==
  <<Object(<<Word("trainNo", "2033"), Word("statnNm", "Sinchon"), Word("recptnDt", "2026-09-21 09:30:00"),
             <<"directAt", Number("1")>>, <<"lstcarAt", Bool(TRUE)>>>>),
    Object(<<<<"statnId", Number("200")>>, <<"trainNo", Null>>, Word("key", "Y"), Word("lstcarAt", "0")>>),
    Object(<<Word("subwayNm", "2"), Word("recptnDt", "soon")>>)>>

ArrivalRows ==
  <<Object(<<Word("statnId", "1002000228"), <<"barvlDt", Number("-3.7")>>, Word("recptnDt", "20260921093000"),
             Word("statnTnm", "Seongsu"), Word("arvlMsg2", "key"), <<"lstcarAt", Null>>>>),
    Object(<<Word("statnNm", "Sinchon"), Word("barvlDt", ""), Word("btrainNo", "2033"), Word("lstcarAt", "Y")>>),
    Object(<<Word("btrainNo", "2033")>>)>>

ParkingRows ==
  <<Object(<<Word("PKLT_CD", "171721"), Word("pklt_nm", "Sejongno"), <<"TPKCT", Number("1,077")>>,
             Word("LAT", "12.5"), <<"LOT", Number("2")>>, <<"NOW_PRK_VHCL_CNT", Null>>>>),
    Object(<<[i \in 1..2 |-> IF i = 1 THEN "PKLT_NM" ELSE [text |-> "key", padded |-> TRUE]],
             Word("WD_OPER_BGNG_TM", "0900"), Word("Y", "12.5"), Word("X", "-3.7")>>),
    Object(<<Word("ADDR", "Sejongno")>>)>>

RowsOf(service) ==
  CASE service = "TrafficInfo"            -> TrafficRows
    [] service = "realtimePosition"       -> PositionRows
    [] service = "realtimeStationArrival" -> ArrivalRows
    [] OTHER                              -> ParkingRows

(* Lists of rows: one, two, three, an unidentified one, and a row that is  *)
(* no object.  An empty list has its total outside of it.                  *)
Lists(service) ==
  LET r == RowsOf(service) IN
  {<<r[1]>>, <<r[2]>>, <<r[1], r[2]>>, <<r[2], r[1], r[2]>>, <<r[3]>>, <<r[1], Text("-")>>}
  \cup (IF service \in Subway THEN {} ELSE {<<>>})

ListName(service) ==
  CASE service = "realtimePosition"       -> "realtimePositionList"
    [] service = "realtimeStationArrival" -> "realtimeArrivalList"
    [] OTHER                              -> "row"

-----------------------------------------------------------------------------
Result(code, message) == Object(<<Word("CODE", code), Word("MESSAGE", message)>>)

ErrorMessage(code, message) ==
  Object(<<<<"status", Number("200")>>, Word("code", code), Word("message", message),
           <<"total", Number("2")>>>>)

Listed(service, rows) == IF rows = {} THEN <<>> ELSE <<<<ListName(service), List(CHOOSE r \in rows : TRUE)>>>>

(* The shapes of the general and of the subway API.                        *)
GeneralContent(service, code, message, rows) ==
  [json |-> service, xml |-> service,
   value |-> Object(<<<<"list_total_count", Number("2")>>, <<"RESULT", Result(code, message)>>>>
                    \o Listed(service, rows))]

SubwayContent(service, code, message, rows) ==
  [json |-> None, xml |-> service,
   value |-> Object(<<<<"errorMessage", ErrorMessage(code, message)>>>> \o Listed(service, rows))]

Said == {<<"INFO-200", "none">>, <<"ERROR-500", "busy">>, <<"ERROR-500", "daily limit">>,
         <<"ERROR-337", "key">>, <<"ERROR-300", "none">>}

ContentsOf(service) ==
  LET shaped(code, message, rows) ==
        IF service \in Subway THEN SubwayContent(service, code, message, rows)
                              ELSE GeneralContent(service, code, message, rows)
  IN {shaped("INFO-000", "fine", {r}) : r \in Lists(service)}
       \cup {shaped(s[1], s[2], rows) : s \in Said, rows \in {{}, {<<>>}}}

(* An error instead of the service, and a code outside of RESULT.          *)
Bare ==
  {[json |-> "RESULT", xml |-> "RESULT", value |-> Result(s[1], s[2])] :
     s \in Said \cup {<<"INFO-000", "fine">>}}
  \cup {[json |-> "errorMessage", xml |-> "errorMessage", value |-> ErrorMessage("INFO-000", "fine")]}
  \cup {[json |-> s, xml |-> s,
         value |-> Object(<<Word(name, "INFO-000"), Word("MESSAGE", "key"), <<"row", List(<<>>)>>,
                            <<"total", Number("2")>>>>)] :
          s \in {"TrafficInfo", "realtimePosition"}, name \in {"RESULT.CODE", "code"}}

(* The block of citydata, under the root its XML is said to have or under  *)
(* another.                                                                *)
Block == Object(<<Word("AREA_NM", "key"), Word("AREA_CD", "POI001"),
                  <<"LIVE_PPLTN_STTS", List(<<Object(<<Word("AREA_CONGEST_LVL", "calm")>>)>>)>>>>)

City(root) ==
  {[json |-> None, xml |-> root,
    value |-> Object(<<<<"list_total_count", Number("1")>>,
                       <<"RESULT", Object(<<Word("RESULT.CODE", code), Word("RESULT.MESSAGE", "fine")>>)>>,
                       <<"CITYDATA", block>>>>)] :
     code \in {"INFO-000", "INFO-200"}, block \in {Block, Object(<<Word("AREA_CD", "POI001")>>)}}

CityRooted == City("citydata")

EveryContent ==
  UNION {ContentsOf(s) : s \in {"TrafficInfo", "GetParkingInfo", "GetParkInfo",
                                "realtimePosition", "realtimeStationArrival"}}
  \cup Bare \cup City("SeoulRtd.citydata")

-----------------------------------------------------------------------------
CallOf(service) ==
  [service |-> service, format |-> IF service = "TrafficInfo" THEN "xml" ELSE "json",
   first |-> IF service \in Subway THEN 0 ELSE 1, last |-> 2, items |-> 2,
   key |-> "own", open |-> TRUE, optin |-> TRUE]

EveryCall == {CallOf(s) : s \in Services} \cup {[CallOf("citydata") EXCEPT !.key = None]}
CityCall  == {CallOf("citydata")}

-----------------------------------------------------------------------------
(* The values of these answers, redacted or not, with all their parts. *)
RECURSIVE Within(_)
Within(v) ==
  {v} \cup (CASE Is("list", v)   -> UNION {Within(v.list[i]) : i \in DOMAIN v.list}
             [] Is("object", v) -> UNION {Within(v.object[i][2]) : i \in DOMAIN v.object}
             [] OTHER           -> {})

RECURSIVE DepthOf(_)
DepthOf(v) == IF Within(v) = {v} THEN 0 ELSE 1 + Max({DepthOf(x) : x \in Within(v) \ {v}})

RECURSIVE Redaction(_)
Redaction(v) == RedactLevel(v, [x \in Children(v) |-> Redaction(x)], {Key})

(* What contents are written and parsed as, step by step, to know of what  *)
(* there is.                                                               *)
RECURSIVE Spelt(_)
Spelt(v) == WrittenLevel(v, [x \in Children(v) |-> Spelt(x)])

RECURSIVE Unspelt(_)
Unspelt(e) == XmlLevel(e, [x \in ElementsIn(e) |-> Unspelt(x)])

RECURSIVE Inside(_)
Inside(e) == {e} \cup UNION {Inside(x) : x \in ElementsIn(e)}

RECURSIVE NestingOf(_)
NestingOf(e) == IF Inside(e) = {e} THEN 0 ELSE 1 + Max({NestingOf(x) : x \in ElementsIn(e)})

ValuesOf(contents) ==
  LET json == {InJson(content).value : content \in contents}
      xml  == {Object(<<<<content.xml, Unspelt(Spelt(content.value)[1])>>>>) : content \in contents}
  IN UNION {Within(p) \cup Within(Redaction(p)) : p \in json \cup xml}

MarkupOf(values) == UNION {UNION {Inside(Spelt(v)[i]) : i \in DOMAIN Spelt(v)} : v \in values}

(* TLC works out once what a definition without parameters is, but each    *)
(* time again what stands for a constant.                                  *)
KnownValues == ValuesOf(EveryContent)
KnownDepth  == [v \in KnownValues |-> DepthOf(v)]
KnownCity   == ValuesOf(CityRooted)
KnownLevels == [v \in KnownCity |-> DepthOf(v)]
KnownMarkup == MarkupOf(KnownValues)
KnownNesting == [e \in KnownMarkup |-> NestingOf(e)]
CityElements == MarkupOf(KnownCity)
CityNesting  == [e \in CityElements |-> NestingOf(e)]

Everything == EveryContent
EveryValue == KnownValues
EveryDepth == KnownDepth
CityValues == KnownCity
CityDepth  == KnownLevels
EveryElement == KnownMarkup
EveryNesting == KnownNesting
CityMarkup   == CityElements
CityLevels   == CityNesting

ASSUME KeyIsText /\ Legible /\ ParsedAsWritten

(* The contents of the other run have the root of citydata. *)
ASSUME Contents # CityRooted => \A content \in Contents : Documented(content)
=============================================================================
