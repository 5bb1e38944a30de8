------------------------------ MODULE Formats ------------------------------
(***************************************************************************)
(* Exchange with bodies as Payload has them, and of what contents JSON and *)
(* XML are documented to say the same (docs/data-sources.md:22-28).        *)
(***************************************************************************)
EXTENDS Exchange, Payload

ParsedAsWritten ==
  \A content \in Contents, form \in Forms :
    ParsedAs(content, form) = ParsePayload(Body(content, form))

-----------------------------------------------------------------------------
(* The names the parsers look for, in whatever spelling. *)
SameName(m, n) == NormalizeKey(m) = NormalizeKey(n)

Among(name, names) == \E n \in names : SameName(name, n)

NamesOf(sequences) == UNION {{s[k] : k \in DOMAIN s} : s \in sequences}

RowServices == Services \ {"citydata", AllStations}
RowLists    == NamesOf({AllRowNames})

TextNames ==
  NamesOf({CodeNames, MessageNames}) \cup {"code", "message", "AREA_NM"}
    \cup UNION {NamesOf(Fields(s).text) \cup Identifiers(s) : s \in RowServices}

-----------------------------------------------------------------------------
(***************************************************************************)
(* What a documented answer is made of, as the parsers get it.             *)
(***************************************************************************)
Scalar(v) == ~Is("list", v) /\ ~Is("object", v)

(* It means the same in both formats: str(True) is not "true", and a text  *)
(* of blanks is a false boolean in JSON and none in XML.                   *)
Readable(name, v) ==
  /\ Is("bool", v) => ~Among(name, TextNames)
  /\ v # [text |-> "", padded |-> TRUE]

Distinct(v) ==
  \A i, j \in DOMAIN v.object : i # j => ~SameName(v.object[i][1], v.object[j][1])

(* A row, a result. *)
Plain(v) ==
  /\ Is("object", v) /\ v.object # <<>> /\ Distinct(v)
  /\ \A i \in DOMAIN v.object :
       Scalar(v.object[i][2]) /\ Readable(v.object[i][1], v.object[i][2])

(* Rows or not, but no list of lists, and nothing that is read as a text.  *)
Listing(name, v) ==
  /\ Is("list", v) /\ Among(name, RowLists) /\ ~Among(name, TextNames)
  /\ \A i \in DOMAIN v.list : Scalar(v.list[i]) \/ Plain(v.list[i])

(* The fields of an answer. *)
Proper(v) ==
  /\ Is("object", v) /\ Distinct(v)
  /\ \E i \in DOMAIN v.object : v.object[i][2] # List(<<>>)
  /\ \A i \in DOMAIN v.object :
       LET name == v.object[i][1]  w == v.object[i][2] IN
       \/ Scalar(w) /\ Readable(name, w) /\ (Among(name, RowLists) => w # Null)
       \/ Plain(w)
       \/ Listing(name, w)
  /\ \A i, j \in DOMAIN v.object :
       Among(v.object[i][1], RowLists) /\ Among(v.object[j][1], RowLists) => i = j

(* A list that is empty is not in the XML at all: it takes another mark of *)
(* data for the answer to be one.  An error message may carry one, too.    *)
Backed(v) ==
  \E i \in DOMAIN v.object :
    Among(v.object[i][1], DataMarks) /\ v.object[i][2] \notin {Null, List(<<>>)}

Unmarked(v) == \A i \in DOMAIN v.object : ~Among(v.object[i][1], DataMarks)

(* The subway API has its fields at the top in JSON, and under the service *)
(* in XML; the code is in errorMessage.                                    *)
ErrorMessageIn(v) ==
  \E i \in DOMAIN v.object :
    /\ SameName(v.object[i][1], "errorMessage")
    /\ Plain(v.object[i][2]) /\ TextValue(v.object[i][2], CodeNames) # None
    /\ \A j \in DOMAIN v.object[i][2].object : ~Among(v.object[i][2].object[j][1], RowLists)

AtTheTop(content, v) ==
  /\ content.json = None /\ content.xml \in Subway
  /\ ~Among(content.xml, {"RESULT", "errorMessage"})
  /\ \A i \in DOMAIN v.object : ~Among(v.object[i][1], {content.xml, "RESULT"})
  /\ ErrorMessageIn(v)

(* An answer under another root is not compared, that of citydata has one. *)
Documented(content) ==
  /\ \A form \in {"json", "xml"} : ParsedAs(content, form) # None
  /\ content.xml # "citydata"
  /\ content.xml \in RowServices \cup {"RESULT", "errorMessage"} =>
       \A secrets \in SUBSET {Key} :
         LET v == RedactValue(content.value, secrets)
             p == RedactValue(InJson(content).value, secrets) IN
         /\ Proper(v)
         /\ content.json = content.xml \/ AtTheTop(content, v)
         /\ ExtractResult(p, v).code = "INFO-000" =>
              Backed(v) \/ (content.json = content.xml /\ Unmarked(v))
         /\ content.xml \notin Services =>
              \A i \in DOMAIN v.object : ~SameName(v.object[i][1], "AREA_NM")

(* What is written of numbers and booleans is read as them, no rows are    *)
(* found by the name of a result, and the key is no word of the API.       *)
Legible ==
  /\ ~Among("RESULT", RowLists) /\ ~Among("errorMessage", RowLists)
  /\ "true" \in Truths /\ "false" \notin Truths
  /\ {"True", "False", "true", "false"} \cap (DOMAIN Numeral \cup DOMAIN Moment) = {}
  /\ \A v \in Values : Is("number", v) => v.number # ""
  /\ Redacted # "" /\ Key \notin {"", "true", "false"} \cup Services
=============================================================================
