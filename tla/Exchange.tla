------------------------------ MODULE Exchange ------------------------------
(***************************************************************************)
(* One request of _query: it is sent, the body of the answer is read piece *)
(* by piece, with retries, within max_response_bytes (transport.py), and   *)
(* is redacted and understood (Parsers) with the settings of that moment.  *)
(* What a retry waits for is the matter of LogicalCall.                    *)
(***************************************************************************)
EXTENDS Parsers

CONSTANTS
  Calls,           \* the calls made
  Contents,        \* what the provider has to say
  ParsedAs(_, _),  \* what the body of a content in a format is parsed to (see Payload)
  MaxRetries,      \* max_retries
  MaxPieces,       \* max_response_bytes, in pieces of a body
  Key              \* the key requests are sent with

Forms == {"json", "xml", "garbled"}

-----------------------------------------------------------------------------
(***************************************************************************)
(* What Envelope sees of a payload p, an object: a document.               *)
(***************************************************************************)
CodeAt(object, place) ==
  IF place \in {"RESULT.CODE", "code"} THEN TextOf(Value(object, place))
  ELSE IF MappingValue(object, place) = None THEN None
  ELSE TextValue(MappingValue(object, place), CodeNames)

Document(c, p) ==
  LET named == Value(p, Target(c))
      wrap  == IF Is("object", named) THEN "service" ELSE IF Lone(p) THEN "lone" ELSE "flat"
      inner == CASE wrap = "service" -> named
                 [] wrap = "lone"    -> p.object[1][2]
                 [] wrap = "flat"    -> Object(<<>>)
      content == IF wrap = "flat" THEN p ELSE inner
      object  == [outer |-> p, inner |-> inner]
      rows == RowsGiven(content)
  IN [wrap   |-> wrap,
      fields |-> [x \in Parts |-> NamesIn(object[x], Marks)],
      hollow |-> object["inner"].object = <<>>,
      code   |-> [spot \in Parts \X Names |-> CodeAt(object[spot[1]], spot[2])],
      rows   |-> IF FirstFound(content, AllRowNames) = Null THEN None
                 ELSE IF rows = None THEN Malformed ELSE Len(rows),
      named  |-> IF ForRows(c)
                 THEN rows # None => \A i \in DOMAIN rows : Identified(rows[i], Target(c))
                 ELSE TextOf(Value(content, "AREA_NM")) # None,
      quota  |-> ExtractResult(p, content).message \in QuotaWords]

Unreadable ==
  [wrap |-> "unreadable", fields |-> [x \in Parts |-> {}], hollow |-> TRUE,
   code |-> [spot \in Parts \X Names |-> None], rows |-> None, named |-> TRUE, quota |-> FALSE]

DocumentOf(c, parsed, secrets) ==
  IF parsed = None THEN Unreadable ELSE Document(c, RedactValue(parsed, secrets))

ASSUME ExchangeAssumption ==
  /\ Calls \subseteq CallShape
  /\ MaxRetries \in Nat /\ MaxPieces \in Nat \ {0}
  /\ None \notin AnyDocument
  /\ \A content \in Contents, form \in Forms :
       LET p == ParsedAs(content, form) IN p = None \/ (p \in Values /\ Is("object", p))
  /\ \A v \in Values, secrets \in SUBSET {Key} : RedactValue(v, secrets) \in Values

(* The key is a text, and nothing but a text is printed like it: numbers    *)
(* are not redacted, a key of digits alone would stay in them.             *)
KeyIsText ==
  /\ Key \in STRING \ {Redacted, "True", "False", "{...}"}
  /\ \A v \in Values : Is("number", v) => v.number # Key

-----------------------------------------------------------------------------
VARIABLES
  call,      \* the call
  at,        \* "start", "sent", "reading", "read", "done"
  left,      \* what is left of the retries
  response,  \* the answer to the last request, None before
  chunks,    \* the pieces read of it
  replaced,  \* the key has been assigned anew since the request was made
  outcome,   \* what became of the call, None before
  seen       \* history: the document the body amounts to, once it is read

vars == <<call, at, left, response, chunks, replaced, outcome, seen>>

-----------------------------------------------------------------------------
Init ==
  /\ call \in Calls /\ at = "start" /\ left = MaxRetries
  /\ response = None /\ chunks = <<>> /\ replaced = FALSE /\ outcome = None /\ seen = None

End(result) ==
  /\ at' = "done" /\ outcome' = result
  /\ UNCHANGED <<call, left, response, chunks, replaced, seen>>

Failure(kind) == [ParseError EXCEPT !.kind = kind]

(* request() raises, or makes the URL of the settings. *)
Refuse == at = "start" /\ Refused(call) /\ End(Failure("refused"))

Ask ==
  /\ at = "start" /\ ~Refused(call)
  /\ at' = "sent"
  /\ UNCHANGED <<call, left, response, chunks, replaced, outcome, seen>>

DeclaredTooMuch(r) == r.declared # None /\ r.declared > MaxPieces

(* A 2xx answer whose content-length, if it has one, is no more than       *)
(* allowed.  It may be that of a compressed body, or wrong.                *)
Headers(r) ==
  /\ at = "sent"
  /\ ~DeclaredTooMuch(r)
  /\ at' = "reading" /\ response' = r
  /\ UNCHANGED <<call, left, chunks, replaced, outcome, seen>>

DeclaredTooLong(r) ==
  /\ at = "sent"
  /\ DeclaredTooMuch(r)
  /\ End(Failure("http"))

Coming == Len(chunks) + 1

(* Fault: the limit is one piece too high. *)
PieceBeyond ==
  /\ at = "reading" /\ Coming <= response.size /\ Coming <= MaxPieces + 1
  /\ chunks' = Append(chunks, <<left, Coming>>)
  /\ UNCHANGED <<call, at, left, response, replaced, outcome, seen>>

Piece ==
  /\ at = "reading" /\ Coming <= response.size /\ Coming <= MaxPieces
  /\ chunks' = Append(chunks, <<left, Coming>>)
  /\ UNCHANGED <<call, at, left, response, replaced, outcome, seen>>

TooLong ==
  /\ at = "reading" /\ Coming <= response.size /\ Coming > MaxPieces
  /\ End(Failure("http"))

(* _secret_values *)
Secrets == IF replaced THEN {} ELSE {Key}

EndOfBody ==
  /\ at = "reading" /\ Coming > response.size
  /\ at' = "read"
  /\ seen' = DocumentOf(call, ParsedAs(response.content, response.form), Secrets)
  /\ UNCHANGED <<call, left, response, chunks, replaced, outcome>>

(* A timeout or transport error at any point of it, or an answer 429, 500, *)
(* 502, 503 or 504 at its head: once more with the same URL, or no more.   *)
(* What was read of the body is dropped.                                   *)
Interrupted ==
  /\ at \in {"sent", "reading"}
  /\ IF left > 0
     THEN /\ at' = "sent" /\ left' = left - 1
          /\ response' = None /\ chunks' = <<>>
          /\ UNCHANGED <<call, replaced, outcome, seen>>
     ELSE End(Failure("http"))

(* Any other answer, or an invalid URL. *)
TurnedAway == at = "sent" /\ End(Failure("http"))

(* An assignment to the key of the API. *)
Assign ==
  /\ at \in {"sent", "reading"} /\ ~replaced
  /\ replaced' = TRUE
  /\ UNCHANGED <<call, at, left, response, chunks, outcome, seen>>

Parse ==
  /\ at = "read"
  /\ End(Understanding(call, ParsedAs(response.content, response.form), Secrets))

Answers ==
  [content : Contents, form : Forms,
   size : 1..MaxPieces + 1, declared : {None, MaxPieces, MaxPieces + 1}]

Next ==
  \/ Refuse \/ Ask
  \/ \E r \in Answers : Headers(r) \/ DeclaredTooLong(r)
  \/ Piece \/ TooLong \/ EndOfBody \/ Interrupted \/ TurnedAway \/ Assign \/ Parse

Spec == Init /\ [][Next]_vars

-----------------------------------------------------------------------------
Parsed == at = "done" /\ outcome.kind \in {"unparsable", "upstream", "result"}

concluded ==
  IF at # "done" \/ outcome.kind = "http" THEN None
  ELSE [kind |-> outcome.kind, code |-> outcome.code, count |-> Len(outcome.items),
        cool |-> outcome.cool, retry |-> outcome.retry]

-----------------------------------------------------------------------------
(***************************************************************************)
(* Properties                                                              *)
(***************************************************************************)

(* What is parsed is the body of the last answer alone, from its first     *)
(* piece to its last, and never more than max_response_bytes, whatever     *)
(* length was declared and however many attempts broke off.                *)
BodyWhole ==
  at = "read" \/ Parsed =>
    /\ response.size <= MaxPieces
    /\ chunks = [k \in 1..response.size |-> <<left, k>>]

(* The answer in XML has its root named after the service, or after the    *)
(* error it is, as documented (docs/data-sources.md:22-28).                *)
Rooted ==
  Parsed /\ response.form \in {"json", "xml"}
         /\ response.content.xml \in {Target(call), "RESULT", "errorMessage"}

InForm(form) == Understanding(call, ParsedAs(response.content, form), Secrets)

Essence(o) == [o EXCEPT !.payload = None, !.total = None]

(* An answer is the same error, or the same typed items, in both formats:  *)
(* lists of one, numbers, blanks, nulls and spellings of names make no     *)
(* difference.                                                             *)
ItemsAgree ==
  Rooted => \A form \in {"json", "xml"} : Essence(InForm(form)) = Essence(outcome)

(* So it is in everything but the raw payload, the total count included,   *)
(* for every service.                                                      *)
FormatsAgree ==
  Rooted => \A form \in {"json", "xml"} :
    [InForm(form) EXCEPT !.payload = None] = [outcome EXCEPT !.payload = None]

(* A key echoed by the provider in whatever place of an answer is in no    *)
(* result and no error, unless it was replaced during the request.         *)
NothingEchoed ==
  Parsed /\ ~replaced =>
    /\ Key \notin {outcome.code, outcome.message}
    /\ \A i \in DOMAIN outcome.items, f \in Fields(Target(call)).text :
         outcome.items[i][f] # Key
    /\ outcome.payload # None => Key \notin Words(outcome.payload)

(* Parsers recognise on the values what Envelope says of their shape, in    *)
(* whatever answer.                                                        *)
AbstractEnvelope == INSTANCE Envelope WITH doc <- seen, outcome <- concluded,
                                            Documents <- AnyDocument

ImplementsEnvelope == AbstractEnvelope!Spec
=============================================================================
