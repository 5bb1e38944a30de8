------------------------------ MODULE Envelope ------------------------------
(***************************************************************************)
(* One attempt of a call from its arguments to its outcome: whether it is  *)
(* sent (PageRequest), and how the answer is understood: parse_payload,    *)
(* extract_envelope and extract_citydata_envelope (parsers/common.py), the *)
(* service parsers (parsers/services.py) and what _query (client.py) does  *)
(* with their outcome.                                                     *)
(*                                                                         *)
(* The answer is a document: what these decisions look at (DocumentShape). *)
(***************************************************************************)
EXTENDS PageRequest, DocumentShape, Sequences

CONSTANTS
  Calls,      \* the calls made
  Documents   \* the documents the provider may answer with

Transient == {"ERROR-500", "ERROR-600", "ERROR-601"}
Info      == {"INFO-000", "INFO-200"}

ASSUME EnvelopeAssumption ==
  /\ Calls \subseteq CallShape
  /\ Documents \subseteq AnyDocument
  /\ None \notin AnyDocument

VARIABLES
  call,      \* the call
  doc,       \* the document received, None before
  outcome    \* what became of the call, None before

vars == <<call, doc, outcome>>

-----------------------------------------------------------------------------
(* All parsers but that of citydata read rows. *)
ForRows == call.service # "citydata"

(* _unwrap_service: the part the parsers work on. *)
Content == ContentOf(doc)

(* _has_envelope_marker.  A bare code is no marker. *)
HasEnvelopeMarker ==
  IF doc.wrap = "service" THEN ~doc.hollow ELSE doc.fields["outer"] \cap EnvelopeMarks # {}

HasCitydataMarker ==
  doc.wrap = "service" \/ doc.fields["outer"] \cap CitydataMarks # {}

Marked ==
  /\ doc.wrap # "unreadable"
  /\ IF ForRows THEN HasEnvelopeMarker ELSE HasCitydataMarker

(* _extract_result: the first code in this order. *)
Precedence ==
  <<<<Content, "RESULT">>, <<"outer", "RESULT">>,
    <<Content, "errorMessage">>, <<"outer", "errorMessage">>,
    <<Content, "RESULT.CODE">>, <<"outer", "RESULT.CODE">>,
    <<Content, "code">>, <<"outer", "code">>>>

Carries(i) == doc.code[Precedence[i]] # None

Code ==
  IF \A i \in 1..8 : ~Carries(i) THEN None
  ELSE LET first == CHOOSE i \in 1..8 : Carries(i) /\ \A j \in 1..i-1 : ~Carries(j)
       IN doc.code[Precedence[first]]

(* _extract_rows looks at the content only, and at its limit. *)
RowsFit ==
  doc.rows # None => doc.rows # Malformed /\ doc.rows <= Limit(call)

RowCount == IF doc.rows = None THEN 0 ELSE doc.rows

HasDataMarker == (doc.fields["outer"] \cup doc.fields[Content]) \cap DataMarks # {}

QuotaError == Code = "ERROR-337" \/ doc.quota

-----------------------------------------------------------------------------
Init == call \in Calls /\ doc = None /\ outcome = None

Conclude(result) == outcome' = result /\ UNCHANGED <<call, doc>>

ParseError == [kind |-> "unparsable", code |-> None, count |-> 0,
               cool |-> FALSE, retry |-> FALSE]

Refusal == [ParseError EXCEPT !.kind = "refused"]

(* The arguments or the settings forbid the call. *)
Refuse == doc = None /\ outcome = None /\ Refused(call) /\ Conclude(Refusal)

(* The call is sent, and the provider answers. *)
Answer ==
  /\ doc = None /\ outcome = None /\ ~Refused(call)
  /\ doc' \in Documents
  /\ UNCHANGED <<call, outcome>>

Delivered(count) == [ParseError EXCEPT !.kind = "result", !.code = Code, !.count = count]

(* What passed the checks up to and including the result code. *)
Readable == Marked /\ Code # None

Coherent == Readable /\ (ForRows => RowsFit)

(* No readable body, no envelope, or no result code. *)
NoEnvelope == ~Readable /\ Conclude(ParseError)

(* The rows are taken before the code is looked at. *)
BadRows == Readable /\ ForRows /\ ~RowsFit /\ Conclude(ParseError)

(* Fault: a transient code is retried whatever the message says. *)
UpstreamErrorByCode ==
  /\ Coherent /\ Code \notin Info
  /\ Conclude([ParseError EXCEPT !.kind = "upstream", !.code = Code,
                                 !.cool = QuotaError, !.retry = Code \in Transient])

(* An error of the provider.  _query cools the limiter down for a quota    *)
(* error and retries a transient one, if the budget allows.                *)
UpstreamError ==
  /\ Coherent /\ Code \notin Info
  /\ Conclude([ParseError EXCEPT !.kind = "upstream", !.code = Code,
                                 !.cool = QuotaError,
                                 !.retry = Code \in Transient /\ ~QuotaError])

(* INFO-200: whatever rows there are, none is delivered. *)
NoData == Coherent /\ Code = "INFO-200" /\ Conclude(Delivered(0))

(* Fault: rows without an identifier pass. *)
SufficientUnnamed == ForRows => HasDataMarker

(* INFO-000 must come with data, and every row with its identifier. *)
Sufficient ==
  IF ForRows THEN HasDataMarker /\ (RowCount > 0 => doc.named) ELSE doc.named

Insufficient ==
  Coherent /\ Code = "INFO-000" /\ ~Sufficient /\ Conclude(ParseError)

Data ==
  /\ Coherent /\ Code = "INFO-000" /\ Sufficient
  /\ Conclude(Delivered(IF ForRows THEN RowCount ELSE 1))

Parse ==
  /\ doc # None /\ outcome = None
  /\ NoEnvelope \/ BadRows \/ UpstreamError \/ NoData \/ Insufficient \/ Data

Next == Refuse \/ Answer \/ Parse

Spec == Init /\ [][Next]_vars

-----------------------------------------------------------------------------
(***************************************************************************)
(* Properties                                                              *)
(***************************************************************************)

(* The codes of a document, wherever they are. *)
Given == {doc.code[p] : p \in Parts \X Names} \ {None}

Understood == doc # None /\ outcome # None

(* A document of the provider's documented shapes: one code, in RESULT or  *)
(* errorMessage (docs/data-sources.md:24), with sound rows, if any, beside *)
(* or below it, and no more of them than the call asked for.               *)
Documented ==
  /\ doc.wrap # "unreadable"
  /\ Cardinality(Given) = 1
  /\ IF doc.wrap = "service"
     THEN \E n \in Names : doc.code[<<"inner", n>>] # None
     ELSE \E n \in {"RESULT", "errorMessage"} : doc.code[<<"outer", n>>] # None
  /\ doc.fields[Content] \cap ParkingNames = {}
  /\ doc.rows # None => doc.rows # Malformed /\ (ForRows => doc.rows <= Asked(call))

(* A document of a documented shape is understood by its code alone, the   *)
(* one it gives at whatever place: an error as that error, INFO-200 as an  *)
(* empty result, INFO-000 with its rows, up to a full page, as a result.   *)
(* Only its message adds to that: an error whose message speaks of the     *)
(* quota cools the limiter and is not retried, even if its code is one of  *)
(* those that are.                                                         *)
CodeDecides ==
  Understood /\ Documented => \A c \in Given :
    /\ c \notin Info =>
         /\ outcome.kind = "upstream" /\ outcome.code = c
         /\ outcome.cool = (c = "ERROR-337" \/ doc.quota)
         /\ outcome.retry = (c \in Transient /\ ~doc.quota)
    /\ c = "INFO-200" => outcome.kind = "result" /\ outcome.count = 0
    /\ c = "INFO-000" /\ ForRows /\ doc.named /\ doc.rows # None =>
         outcome.kind = "result" /\ outcome.count = doc.rows

(* An error is never taken for data: a document without a good code yields *)
(* no result, and a result never has unidentified rows or more than asked. *)
ErrorNeverData ==
  Understood /\ outcome.kind = "result" =>
    /\ Given \cap Info # {}
    /\ outcome.count > 0 => "INFO-000" \in Given /\ doc.named
    /\ ForRows => outcome.count <= Asked(call)

(* Nothing is sent that the provider would turn down for its range         *)
(* (ERROR-331 to ERROR-336, docs/data-sources.md:38-40), by either of its  *)
(* ways of counting: no empty page, none above 1000 rows, none above 5 for *)
(* the sample key.                                                         *)
ProviderLimitsKept ==
  doc # None =>
    /\ Asked(call) > 0
    /\ Paged(call) => Asked(call) <= MaxPage
    /\ call.key = "sample" => Asked(call) <= SamplePage
=============================================================================
