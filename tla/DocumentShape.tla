--------------------------- MODULE DocumentShape ---------------------------
(***************************************************************************)
(* A document: of the body of an answer, what the decisions of             *)
(* parsers/common.py look at.  How its content is wrapped, the fields it   *)
(* is recognised by, where it carries a result code, the shape of its      *)
(* rows.  A name stands for all its spellings.                             *)
(***************************************************************************)
EXTENDS Python, Integers

RowNames     == {"row", "realtimeArrivalList", "realtimePositionList"}
ParkingNames == {"GetParkingInfo", "GetParkInfo"}

(* The names _has_data_marker, _has_envelope_marker and                    *)
(* _has_citydata_marker look for.                                          *)
DataMarks == {"list_total_count", "totalCount", "total"} \cup RowNames

(* Fault: an error without the service element is not recognised. *)
EnvelopeMarksOfData == {"list_total_count", "totalCount"} \cup RowNames \cup ParkingNames

EnvelopeMarks ==
  {"RESULT", "errorMessage", "list_total_count", "totalCount"} \cup RowNames \cup ParkingNames

CitydataMarks ==
  {"RESULT", "errorMessage", "list_total_count", "AREA_NM", "LIVE_PPLTN_STTS",
   "ROAD_TRAFFIC_STTS", "PRK_STTS", "SUB_STTS"}

Marks == EnvelopeMarks \cup CitydataMarks \cup DataMarks

-----------------------------------------------------------------------------
(***************************************************************************)
(*   wrap    service     the content is the object named after the service *)
(*           lone        the content is an object, the only field          *)
(*           flat        the content lies at the top                       *)
(*           unreadable  not UTF-8, empty, no JSON object, no XML          *)
(*   fields  of the Marks those which are names of fields, with a value,   *)
(*           of the wrapped (inner) object and of the top (outer) object   *)
(*   hollow  the wrapped object has no field at all                        *)
(*   code    the code at each name of these objects                        *)
(*   rows    of the content: None, Malformed (also an empty XML element)   *)
(*           or how many                                                   *)
(*   named   every row, or the block of citydata, has its identifier       *)
(*   quota   the message speaks of a quota                                 *)
(***************************************************************************)
Parts == {"inner", "outer"}
Names == {"RESULT", "errorMessage", "RESULT.CODE", "code"}

Malformed == -1        \* rows that are neither an object nor a list of objects

ContentOf(d) == IF d.wrap = "flat" THEN "outer" ELSE "inner"

(* What there is has a name and a place. *)
Consistent(d) ==
  /\ \A n \in {"RESULT", "errorMessage"} :
       d.code[<<"outer", n>>] # None => n \in d.fields["outer"]
  /\ d.hollow => \A n \in Names : d.code[<<"inner", n>>] = None
  /\ d.rows # None => d.fields[ContentOf(d)] \cap (RowNames \cup ParkingNames) # {}

AnyDocument ==
  {d \in [wrap : {"service", "lone", "flat", "unreadable"}, fields : [Parts -> SUBSET Marks],
          hollow : BOOLEAN, code : [Parts \X Names -> STRING \cup {None}],
          rows : {None, Malformed} \cup Nat, named : BOOLEAN, quota : BOOLEAN] :
     Consistent(d)}
=============================================================================
