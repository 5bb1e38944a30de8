------------------------------ MODULE Parsers ------------------------------
(***************************************************************************)
(* What a call makes of the body of an answer: extract_envelope and        *)
(* extract_citydata_envelope (parsers/common.py), the typed fields of      *)
(* parsers/services.py and the reaction of _query (client.py).  Envelope   *)
(* is the abstract specification of it, without the values.                *)
(***************************************************************************)
EXTENDS PageRequest, DocumentShape, JsonValues

CONSTANT QuotaWords   \* messages that speak of a quota

(* The name of the block of citydata is that of the service. *)
ASSUME ParsersAssumption == NormalizeKey("CITYDATA") = NormalizeKey("citydata")

Transient == {"ERROR-500", "ERROR-600", "ERROR-601"}

(* subway_arrivals_all shares its parser. *)
Target(c)  == IF c.service = AllStations THEN "realtimeStationArrival" ELSE c.service
ForRows(c) == c.service # "citydata"

-----------------------------------------------------------------------------
(* The envelope of a payload p: an object. *)

(* Fault: only the object named after the service is unwrapped. *)
UnwrapNamed(p, service) == IF Is("object", Value(p, service)) THEN Value(p, service) ELSE p

(* The only field there is, when it is an object. *)
Lone(p) == Len(p.object) = 1 /\ Is("object", p.object[1][2])

(* _unwrap_service *)
Unwrap(p, service) ==
  CASE Is("object", Value(p, service))              -> Value(p, service)
    [] ~Is("object", Value(p, service)) /\ Lone(p)  -> p.object[1][2]
    [] ~Is("object", Value(p, service)) /\ ~Lone(p) -> p

AllRowNames == <<"row", "realtimeArrivalList", "realtimePositionList", "GetParkingInfo", "GetParkInfo">>
Totals      == <<"list_total_count", "totalCount", "total">>

HasEnvelopeMarker(p, content, service) ==
  IF Is("object", Value(p, service)) THEN content.object # <<>> ELSE NamesIn(p, EnvelopeMarks) # {}

HasCitydataMarker(p) ==
  MappingValue(p, "CITYDATA") # None \/ NamesIn(p, CitydataMarks) # {}

HasDataMarker(p, content) == NamesIn(p, DataMarks) \cup NamesIn(content, DataMarks) # {}

(* _extract_result.  A name stands for its other spellings, too. *)
CodeNames    == <<"CODE", "statusCode", "status", "RESULT.CODE">>
MessageNames == <<"MESSAGE", "RESULT.MESSAGE">>

CodeAndMessage(code, message) == [code |-> code, message |-> message]

ExtractResult(p, content) ==
  LET results == <<MappingValue(content, "RESULT"), MappingValue(p, "RESULT"),
                   MappingValue(content, "errorMessage"), MappingValue(p, "errorMessage")>>
      coded == {i \in 1..4 : results[i] # None /\ TextValue(results[i], CodeNames) # None}
      first == results[Min(coded)]
      either(name) == Either(TextOf(Value(content, name)), TextOf(Value(p, name)))
  IN CASE coded # {} ->
            CodeAndMessage(TextValue(first, CodeNames), TextValue(first, MessageNames))
       [] coded = {} /\ either("RESULT.CODE") # None ->
            CodeAndMessage(either("RESULT.CODE"), either("RESULT.MESSAGE"))
       [] coded = {} /\ either("RESULT.CODE") = None ->
            CodeAndMessage(either("code"), either("message"))

ListTotalCount(p, content) ==
  LET nested(name) == LET r == MappingValue(p, name) IN
                      IF r = None THEN Null ELSE FirstValue(r, Totals)
      given == SelectSeq(<<FirstValue(content, Totals), FirstValue(p, Totals),
                           nested("errorMessage"), nested("RESULT")>>, LAMBDA x : x # Null)
  IN IF given = <<>> THEN None ELSE IntOf(Head(given))

(* _extract_rows: a sequence of objects, or None for a parse error. *)
RowsGiven(content) ==
  LET value == FirstFound(content, AllRowNames) IN
  CASE value = Null         -> <<>>
    [] Is("object", value)  -> <<value>>
    [] Is("list", value) /\ \A i \in DOMAIN value.list : Is("object", value.list[i]) -> value.list
    [] OTHER -> None

ExtractRows(content, limit) ==
  LET value == FirstFound(content, AllRowNames) IN
  IF Is("list", value) /\ Len(value.list) > limit THEN None ELSE RowsGiven(content)

-----------------------------------------------------------------------------
(* The typed fields of the services.  A field is identified by the names   *)
(* it is looked for under; names that differ in case only are one.  Raw    *)
(* copies of rows and blocks are part of the payload and left out here.    *)
Each(names) == {<<n>> : n \in names}

NoFields == [text |-> {}, int |-> {}, float |-> {}, bool |-> {}, moment |-> {}]

Fields(service) ==
  CASE service = "TrafficInfo" ->
         [NoFields EXCEPT !.text = Each({"link_id"}), !.float = Each({"prcs_spd"}),
                          !.int = Each({"prcs_trv_time"})]
    [] service = "realtimePosition" ->
         [NoFields EXCEPT
            !.text = Each({"subwayId", "subwayNm", "statnId", "statnNm", "trainNo",
                           "lastRecptnDt", "updnLine", "statnTid", "statnTnm", "trainSttus"}),
            !.moment = Each({"recptnDt"}), !.bool = Each({"directAt", "lstcarAt"})]
    [] service = "realtimeStationArrival" ->
         [NoFields EXCEPT
            !.text = Each({"subwayId", "subwayNm", "updnLine", "trainLineNm", "statnId",
                           "statnNm", "statnFid", "statnTid", "arvlMsg2", "arvlMsg3", "arvlCd"})
                     \cup {<<"bstatnNm", "statnTnm">>, <<"btrainNo", "trainNo">>,
                           <<"arvlMsg1", "arvlMsg2">>},
            !.int = Each({"barvlDt"}), !.moment = Each({"recptnDt"}), !.bool = Each({"lstcarAt"})]
    [] service = "GetParkingInfo" ->
         [NoFields EXCEPT
            !.text = Each({"PKLT_CD", "PKLT_NM", "ADDR", "NOW_PRK_VHCL_UPDT_TM"}),
            !.int = Each({"TPKCT", "NOW_PRK_VHCL_CNT"}),
            !.float = {<<"LAT", "Y">>, <<"LNG", "X">>}]
    [] service = "GetParkInfo" ->
         [NoFields EXCEPT
            !.text = Each({"PKLT_CD", "PKLT_NM", "ADDR", "LAST_DATA_SYNC_TM"})
                     \cup {<<"OPRT_STTS", "OPRT_TYPE", "OPER_SE_NM">>,
                           <<"WD_OPR_STRT_TM", "WD_OPER_BGNG_TM">>,
                           <<"WD_OPR_END_TM", "WD_OPER_END_TM">>,
                           <<"SAT_OPR_STRT_TM", "WE_OPER_BGNG_TM">>,
                           <<"SAT_OPR_END_TM", "WE_OPER_END_TM">>,
                           <<"LH_OPR_STRT_TM", "LHLDY_OPER_BGNG_TM", "LHLDY_BGNG",
                             "holiday_open_time">>,
                           <<"LH_OPR_END_TM", "LHLDY_OPER_END_TM", "LHLDY",
                             "holiday_close_time">>},
            !.int = Each({"TPKCT"}), !.float = {<<"LAT">>, <<"LNG", "LOT">>}]
    [] service = "citydata" ->
         [NoFields EXCEPT !.text = Each({"AREA_NM", "AREA_CD", "AREA_CONGEST_MSG"})
                                   \cup {<<"AREA_CONGEST_LV", "AREA_CONGEST_LVL">>}]

Typed(row, service) ==
  LET fields == Fields(service) IN
  [f \in UNION {fields[kind] : kind \in DOMAIN fields} |->
     LET v == FirstValue(row, f) IN
     CASE f \in fields.text   -> TextOf(v)
       [] f \in fields.int    -> IntOf(v)
       [] f \in fields.float  -> FloatOf(v)
       [] f \in fields.bool   -> BoolOf(v)
       [] f \in fields.moment -> DatetimeOf(v)]

(* _require_identifier *)
Identifiers(service) ==
  CASE service = "TrafficInfo"            -> {"link_id"}
    [] service = "realtimePosition"       -> {"trainNo", "statnId", "statnNm"}
    [] service = "realtimeStationArrival" -> {"statnId", "statnNm"}
    [] service \in {"GetParkingInfo", "GetParkInfo"} -> {"PKLT_CD", "PKLT_NM"}

Identified(row, service) ==
  \E name \in Identifiers(service) : TextOf(Value(row, name)) # None

(* What parse_citydata adds from the first population block. *)
LivePopulation(data) ==
  LET live == Value(data, "LIVE_PPLTN_STTS") IN
  CASE Is("object", live) -> live
    [] Is("list", live) /\ live.list # <<>> /\ Is("object", Head(live.list)) -> Head(live.list)
    [] OTHER -> Object(<<>>)

CityData(data) ==
  LET own  == Typed(data, "citydata")
      live == Typed(LivePopulation(data), "citydata") IN
  [f \in DOMAIN own |->
     IF f \in {<<"AREA_NM">>, <<"AREA_CD">>} THEN own[f] ELSE Either(own[f], live[f])]

-----------------------------------------------------------------------------
(* What becomes of the call. *)
ParseError ==
  [kind |-> "unparsable", code |-> None, message |-> None, total |-> None,
   items |-> <<>>, payload |-> None, cool |-> FALSE, retry |-> FALSE]

IsUpstreamQuotaError(code, message) == code = "ERROR-337" \/ message \in QuotaWords

(* A message None stands for the text that is put in its place. *)
UpstreamError(result) ==
  LET quota == IsUpstreamQuotaError(result.code, result.message) IN
  [ParseError EXCEPT !.kind = "upstream", !.code = result.code, !.message = result.message,
                     !.cool = quota, !.retry = result.code \in Transient /\ ~quota]

(* A payload with its result, its content and the items found in it: with  *)
(* INFO-200 there are none, else they must be sound.                       *)
Delivered(p, result, content, sound, items) ==
  LET answer == [ParseError EXCEPT !.kind = "result", !.code = result.code,
                                   !.message = result.message, !.payload = p,
                                   !.total = ListTotalCount(p, content)] IN
  CASE result.code = "INFO-200"           -> answer
    [] result.code = "INFO-000" /\ sound  -> [answer EXCEPT !.items = items]
    [] result.code = "INFO-000" /\ ~sound -> ParseError
    [] OTHER                              -> UpstreamError(result)

RowsUnderstood(p, content, service, limit) ==
  LET result == ExtractResult(p, content)
      rows   == ExtractRows(content, limit) IN
  IF ~HasEnvelopeMarker(p, content, service) \/ result.code = None \/ rows = None
  THEN ParseError
  ELSE Delivered(p, result, content,
                 HasDataMarker(p, content) /\ \A i \in DOMAIN rows : Identified(rows[i], service),
                 [i \in DOMAIN rows |-> Typed(rows[i], service)])

CitydataUnderstood(p, content) ==
  LET result == ExtractResult(p, content) IN
  IF ~HasCitydataMarker(p) \/ result.code = None
  THEN ParseError
  ELSE Delivered(p, result, content, TextOf(Value(content, "AREA_NM")) # None,
                 <<CityData(content)>>)

(* _query, from the payload to the reaction. *)
Understood(c, p) ==
  LET content == Unwrap(p, Target(c)) IN
  IF ForRows(c) THEN RowsUnderstood(p, content, Target(c), Limit(c)) ELSE CitydataUnderstood(p, content)

(* And from what the body is parsed to, None if it cannot be. *)
Understanding(c, parsed, secrets) ==
  IF parsed = None THEN ParseError ELSE Understood(c, RedactValue(parsed, secrets))
=============================================================================
