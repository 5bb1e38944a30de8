----------------------------- MODULE MCEnvelope -----------------------------
(* Envelope over documents with at most two codes. *)
EXTENDS Envelope

Codes == {"INFO-000", "INFO-200", "ERROR-337", "ERROR-500", "ERROR-300"}

(* The fields of an object that are looked for. *)
Objects ==
  {{}, {"RESULT"}, {"RESULT", "list_total_count", "row"}, {"row"}, {"RESULT", "GetParkInfo"},
   {"errorMessage", "realtimeArrivalList", "total"}, {"RESULT", "AREA_NM"}, {"total"}}

(* What is there beside the service element, or as the only element. *)
Beside == {{}, {"RESULT"}, {"row"}}
Lone   == {{}, {"RESULT"}, {"errorMessage"}, {"GetParkInfo"}}

FieldsIn(wrap) ==
  CASE wrap = "service"    -> [inner : Objects, outer : Beside]
    [] wrap = "lone"       -> [inner : Objects, outer : Lone]
    [] wrap = "flat"       -> [inner : {{}}, outer : Objects]
    [] wrap = "unreadable" -> [inner : {{}}, outer : {{}}]

(* A code is in a RESULT or errorMessage that is there, or bare; beside a  *)
(* lone object there is nothing.                                           *)
Room(wrap, fields) ==
  {p \in Parts \X Names :
     /\ p[2] \in fields[p[1]] \cup {"RESULT.CODE", "code"}
     /\ p[1] = "inner" => wrap \in {"service", "lone"}
     /\ p[1] = "outer" => wrap \in {"service", "flat"}}

CodesAt(p, c, q, e) ==
  [x \in Parts \X Names |-> IF x = p THEN c ELSE IF x = q THEN e ELSE None]

(* At most two codes, of which the second is in a RESULT or errorMessage.  *)
(* A lone RESULT has the code of the object it is.                         *)
CodesIn(wrap, fields) ==
  LET room  == Room(wrap, fields)
      given == {CodesAt(p, c, q, e) : p \in room, c \in Codes,
                                      q \in {x \in room : x[2] \in {"RESULT", "errorMessage"}},
                                      e \in {"INFO-000", "ERROR-500"}}
               \cup {CodesAt(p, c, p, None) : p \in room, c \in Codes}
               \cup {[x \in Parts \X Names |-> None]}
      own(code) == IF code[<<"inner", "code">>] # None THEN code[<<"inner", "code">>]
                                                       ELSE code[<<"inner", "RESULT.CODE">>]
  IN {[x \in Parts \X Names |->
         IF wrap = "lone" /\ x[1] = "outer" /\ x[2] \in fields["outer"] THEN own(code) ELSE code[x]] :
        code \in given}

RowsIn(fields) ==
  IF fields \cap (RowNames \cup ParkingNames) = {} THEN {None} ELSE {Malformed, 0, 1, 2}

DocumentsOf(wrap) ==
  UNION {[wrap   : {wrap},
          fields : {fields},
          hollow : IF wrap \in {"service", "lone"} THEN {FALSE, fields["inner"] = {}} ELSE {TRUE},
          code   : CodesIn(wrap, fields),
          rows   : RowsIn(fields[IF wrap = "flat" THEN "outer" ELSE "inner"]),
          named  : BOOLEAN,
          quota  : BOOLEAN] : fields \in FieldsIn(wrap)}

EveryDocument ==
  {d \in UNION {DocumentsOf(w) : w \in {"service", "lone", "flat", "unreadable"}} :
     d.hollow => \A n \in Names : d.code[<<"inner", n>>] = None}

-----------------------------------------------------------------------------
CallOf(service, format, range, key) ==
  [service |-> service, format |-> format, first |-> range[1], last |-> range[2],
   items |-> None, key |-> key, open |-> TRUE, optin |-> TRUE]

(* Pages of one row, which the documents fill and exceed by one. *)
SmallCalls ==
  {CallOf("TrafficInfo", "xml", <<2, 2>>, "own"),
   CallOf("realtimePosition", "json", <<0, 1>>, "sample"),
   [CallOf(AllStations, "json", <<0, 0>>, "own") EXCEPT !.items = 1],
   CallOf("citydata", "json", <<0, 0>>, "own")}

(* The ends of what is allowed. *)
FullCalls ==
  {CallOf("GetParkInfo", "json", <<1, 1000>>, "own"),
   CallOf("GetParkInfo", "xml", <<3, 7>>, "sample")}

(* And one step beyond: a range no API, or not this one, answers, *)
BadRanges ==
  {CallOf("GetParkInfo", "json", r, "own") : r \in {<<0, 4>>, <<2, 1>>, <<1, 1001>>, <<-1, 3>>}}
  \cup {CallOf("realtimePosition", "json", r, "own") : r \in {<<-1, 3>>, <<3, 3>>, <<0, 1001>>}}
  \cup {CallOf("GetParkInfo", "json", <<1, 6>>, "sample")}
  \cup {CallOf("realtimePosition", "json", r, "sample") : r \in {<<1, 5>>, <<0, 6>>}}

(* and a call that the settings, the key or the format forbid. *)
BadCalls ==
  BadRanges
  \cup {[c EXCEPT !.key = None] : c \in SmallCalls}
  \cup {[c EXCEPT !.open = FALSE] : c \in SmallCalls}
  \cup {CallOf("TrafficInfo", "json", <<1, 2>>, "own"),
        CallOf("citydata", "json", <<1, 5>>, "sample"),
        CallOf(AllStations, "json", <<0, 0>>, "sample"),
        [CallOf(AllStations, "json", <<0, 0>>, "own") EXCEPT !.optin = FALSE],
        [CallOf(AllStations, "json", <<0, 0>>, "own") EXCEPT !.items = 0]}

AllCalls == SmallCalls \cup FullCalls \cup BadCalls
=============================================================================
