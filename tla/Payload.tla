------------------------------ MODULE Payload ------------------------------
(***************************************************************************)
(* The body of an answer and the value it is parsed to: parse_payload and  *)
(* _xml_value (parsers/common.py), and the two formats in which a provider *)
(* writes what it has to say.                                              *)
(***************************************************************************)
EXTENDS JsonValues

CONSTANTS
  Markup,   \* the XML elements there are, with all the elements in them
  Nesting   \* how deep each of them is nested

Sequence == INSTANCE SequencesExt

(* An element has a text, and children with their tags. *)
ElementsIn(e) == {e.children[i][2] : i \in DOMAIN e.children}

Tagged(tag, elements) == [k \in DOMAIN elements |-> <<tag, elements[k]>>]

(* The elements of one tag that a provider writes for a value, once the    *)
(* values it is made of are written: several for a list.                   *)
WrittenLevel(v, below) ==
  LET leaf(text) == <<[text |-> text, children |-> <<>>]>> IN
  CASE Is("text", v)   -> leaf(v)
    [] Is("number", v) -> leaf(Text(v.number))
    [] Is("bool", v)   -> leaf(Text(IF v.bool THEN "true" ELSE "false"))
    [] Is("null", v)   -> leaf(Text(""))
    [] Is("list", v)   -> Sequence!FlattenSeq([i \in DOMAIN v.list |-> below[v.list[i]]])
    [] Is("object", v) ->
         <<[text |-> Text(""),
            children |-> Sequence!FlattenSeq(
                           [i \in DOMAIN v.object |->
                              Tagged(v.object[i][1], below[v.object[i][2]])])]>>

Written[v \in Values] == WrittenLevel(v, Written)

(* Elements are nested finitely, and what is written are elements. *)
ASSUME PayloadAssumption ==
  /\ Nesting \in [Markup -> Nat]
  /\ \A e \in Markup :
       /\ e.children \in Seq(STRING \X Markup)
       /\ \A x \in ElementsIn(e) : Nesting[x] < Nesting[e]
  /\ \A v \in Values : \A i \in DOMAIN Written[v] : Written[v][i] \in Markup

(***************************************************************************)
(* A content is what an answer says, whatever its format: its fields, and  *)
(* the name they are put under, in JSON (or None for the top level) and in *)
(* XML.                                                                    *)
(***************************************************************************)
InJson(content) ==
  [form |-> "json",
   value |-> IF content.json = None THEN content.value
             ELSE Object(<<<<content.json, content.value>>>>)]

InXml(content) ==
  [form |-> "xml", root |-> <<content.xml, Head(Written[content.value])>>]

Body(content, form) ==
  CASE form = "json"    -> InJson(content)
    [] form = "xml"     -> InXml(content)
    [] form = "garbled" -> [form |-> "garbled"]

-----------------------------------------------------------------------------
Places(fields, name) == {i \in DOMAIN fields : fields[i][1] = name}

(* Fault: of repeated elements the last one stays. *)
JoinedLast(fields, name, v) ==
  IF Places(fields, name) = {}
  THEN Append(fields, <<name, v>>)
  ELSE [fields EXCEPT ![CHOOSE i \in Places(fields, name) : TRUE][2] = v]

(* Repeated elements become a list. *)
Joined(fields, name, v) ==
  IF Places(fields, name) = {}
  THEN Append(fields, <<name, v>>)
  ELSE [fields EXCEPT ![CHOOSE i \in Places(fields, name) : TRUE][2] =
          IF Is("list", @) THEN List(Append(@.list, v)) ELSE List(<<@, v>>)]

Merged(fields) ==
  LET merged[n \in Nat] ==
        IF n = 0 THEN <<>> ELSE Joined(merged[n - 1], fields[n][1], fields[n][2])
  IN merged[Len(fields)]

(* _xml_value: of an element, once the elements in it are read. *)
XmlLevel(e, below) ==
  IF e.children = <<>> THEN Text(e.text.text)
  ELSE Object(Merged([i \in DOMAIN e.children |-> <<e.children[i][1], below[e.children[i][2]]>>]))

XmlValue[e \in Markup] == XmlLevel(e, XmlValue)

(* parse_payload.  A body is XML or JSON, by its looks and its label; else *)
(* it is empty, not UTF-8, broken, or JSON under an XML label.             *)
ParsePayload(body) ==
  CASE body.form = "xml" -> Object(<<<<body.root[1], XmlValue[body.root[2]]>>>>)
    [] body.form = "json" /\ Is("object", body.value) -> body.value
    [] OTHER -> None
=============================================================================
