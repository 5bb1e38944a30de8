--------------------------- MODULE ExchangeProofs ---------------------------
(***************************************************************************)
(* Proofs about Exchange, for any values, whatever a body is parsed to, any*)
(* limits and any calls: what is parsed is one whole body, what is         *)
(* concluded from it is what Envelope says, and the key is nowhere in it.  *)
(* The functions that are recursive over values are there by Recursion.    *)
(***************************************************************************)
EXTENDS Exchange, TLAPS

-----------------------------------------------------------------------------
(* Values: their words, their redaction, and what is found in them *)

(* The two recursions over values: their words, and their redaction.       *)
WordsLevel(v, below, nothing) == OwnWords(v) \cup UNION {below[y] : y \in Children(v)}

Collecting == INSTANCE Recursion WITH Nodes <- Values, Below <- Children, Level <- WordsLevel
Redacting  == INSTANCE Recursion WITH Nodes <- Values, Below <- Children, Level <- RedactLevel

(* The shape of an object and of a list, and that there are no others. *)
LEMMA ShapeOfValue ==
  ASSUME NEW v \in Values \cup {Null}
  PROVE  /\ JsonValue(v)
         /\ Is("object", v) => /\ v.object \in Seq(STRING \X Values) /\ DOMAIN v = {"object"}
                               /\ Children(v) = {v.object[i][2] : i \in DOMAIN v.object}
                               /\ OwnWords(v) = {v.object[i][1] : i \in DOMAIN v.object}
         /\ Is("list", v)   => /\ v.list \in Seq(Values) /\ DOMAIN v = {"list"}
                               /\ Children(v) = {v.list[i] : i \in DOMAIN v.list}
                               /\ OwnWords(v) = {}
         /\ Is("text", v)   => /\ v.text \in STRING /\ DOMAIN v = {"text", "padded"}
                               /\ Children(v) = {} /\ OwnWords(v) = {v.text}
         /\ Is("number", v) => v.number \in STRING
         /\ ~Is("object", v) /\ ~Is("list", v) => Children(v) = {}
         /\ ~Is("object", v) /\ ~Is("text", v) => OwnWords(v) = {}
<1>1. JsonValue(v)
  BY JsonValuesAssumption DEF JsonValue
<1>2. CASE v = Null
  BY <1>1, <1>2 DEF Null, Is, Children, OwnWords
<1>3. CASE DOMAIN v = {"text", "padded"} /\ v.text \in STRING
  BY <1>1, <1>3 DEF Is, Children, OwnWords
<1>4. CASE DOMAIN v = {"number"} /\ v.number \in STRING
  BY <1>1, <1>4 DEF Is, Children, OwnWords
<1>5. CASE DOMAIN v = {"bool"} /\ v.bool \in BOOLEAN
  BY <1>1, <1>5 DEF Is, Children, OwnWords
<1>6. CASE DOMAIN v = {"list"} /\ v.list \in Seq(Values)
  BY <1>1, <1>6 DEF Is, Children, OwnWords
<1>7. CASE DOMAIN v = {"object"} /\ v.object \in Seq(STRING \X Values)
  BY <1>1, <1>7 DEF Is, Children, OwnWords
<1> QED BY <1>1, <1>2, <1>3, <1>4, <1>5, <1>6, <1>7 DEF JsonValue

(* What a value is made of are values that are nested less deep. *)
LEMMA ValuesGrounded == Collecting!Grounded /\ Redacting!Grounded
<1>1. \A x \in Values : Children(x) \subseteq Values
  <2> SUFFICES ASSUME NEW x \in Values PROVE Children(x) \subseteq Values
    OBVIOUS
  <2>1. CASE Is("object", x)
    BY <2>1, ShapeOfValue
  <2>2. CASE Is("list", x)
    BY <2>2, ShapeOfValue
  <2> QED BY <2>1, <2>2, ShapeOfValue
<1> QED BY <1>1, JsonValuesAssumption DEF Collecting!Grounded, Redacting!Grounded

(* The words of a value, by those of its parts, *)
LEMMA WordsEquation ==
  ASSUME NEW v \in Values
  PROVE  Words(v) = OwnWords(v) \cup UNION {Words(y) : y \in Children(v)}
<1>1. Collecting!Local({})
  BY DEF Collecting!Local, WordsLevel
<1> DEFINE F(f) == [x \in Values |-> WordsLevel(x, f, {})]
           W == CHOOSE f : f = F(f)
<1>2. W = F(W)
  BY <1>1, ValuesGrounded, Collecting!RecursiveFunction
<1>3. \A x \in Values : Words(x) = W[x]
  BY DEF Words, WordsLevel
<1>4. \A x \in Values : W[x] = WordsLevel(x, W, {})
  <2> HIDE DEF W
  <2> QED BY <1>2
<1>5. Children(v) \subseteq Values
  BY ValuesGrounded DEF Collecting!Grounded
<1> HIDE DEF W
<1> QED BY <1>3, <1>4, <1>5 DEF WordsLevel

(* and its redaction, by that of its parts. *)
LEMMA RedactEquation ==
  ASSUME NEW v \in Values, NEW secrets
  PROVE  RedactValue(v, secrets) = RedactLevel(v, RedactedBy(secrets), secrets)
<1>1. Redacting!Local(secrets)
  <2> SUFFICES ASSUME NEW x \in Values, NEW g, NEW h, \A y \in Children(x) : g[y] = h[y]
               PROVE  RedactLevel(x, g, secrets) = RedactLevel(x, h, secrets)
    BY DEF Redacting!Local
  <2>1. CASE Is("object", x)
    <3>1. \A i \in DOMAIN x.object : g[x.object[i][2]] = h[x.object[i][2]]
      BY <2>1, ShapeOfValue
    <3> QED BY <2>1, <3>1, ShapeOfValue DEF RedactLevel, Is
  <2>2. CASE Is("list", x)
    <3>1. \A i \in DOMAIN x.list : g[x.list[i]] = h[x.list[i]]
      BY <2>2, ShapeOfValue
    <3> QED BY <2>2, <3>1, ShapeOfValue DEF RedactLevel, Is
  <2>3. CASE ~Is("object", x) /\ ~Is("list", x)
    BY <2>3 DEF RedactLevel
  <2> QED BY <2>1, <2>2, <2>3, JsonValuesAssumption
<1> DEFINE F(f) == [x \in Values |-> RedactLevel(x, f, secrets)]
           W == CHOOSE f : f = F(f)
<1>2. W = F(W)
  BY <1>1, ValuesGrounded, Redacting!RecursiveFunction
<1>3. RedactedBy(secrets) = W
  BY DEF RedactedBy
<1>4. W[v] = RedactLevel(v, W, secrets)
  <2> HIDE DEF W
  <2> QED BY <1>2
<1> HIDE DEF W
<1> QED BY <1>3, <1>4 DEF RedactValue

(* Redaction keeps an object an object, with as many fields. *)
LEMMA RedactedObject ==
  ASSUME NEW v \in Values, Is("object", v), NEW secrets
  PROVE  /\ Is("object", RedactValue(v, secrets))
         /\ RedactValue(v, secrets).object =
              [i \in DOMAIN v.object |->
                 <<RedactText(v.object[i][1], secrets), RedactValue(v.object[i][2], secrets)>>]
<1>1. ~Is("text", v) /\ ~Is("list", v)
  BY ShapeOfValue DEF Is
<1>2. RedactValue(v, secrets) =
        Object([i \in DOMAIN v.object |->
          <<RedactText(v.object[i][1], secrets), RedactedBy(secrets)[v.object[i][2]]>>])
  BY <1>1, RedactEquation DEF RedactLevel
<1> QED BY <1>2 DEF Object, Is, RedactValue

(* So it does a list. *)
LEMMA RedactedList ==
  ASSUME NEW v \in Values, Is("list", v), NEW secrets
  PROVE  RedactValue(v, secrets) = List([i \in DOMAIN v.list |-> RedactValue(v.list[i], secrets)])
<1>1. ~Is("text", v) /\ ~Is("object", v)
  BY ShapeOfValue DEF Is
<1>2. RedactValue(v, secrets) = List([i \in DOMAIN v.list |-> RedactedBy(secrets)[v.list[i]]])
  BY <1>1, RedactEquation DEF RedactLevel
<1> QED BY <1>2 DEF RedactValue

-----------------------------------------------------------------------------
(* The words of a value are those of its parts and its own. *)
LEMMA WordsOfParts ==
  ASSUME NEW v \in Values, NEW x \in Children(v)
  PROVE  x \in Values /\ Words(x) \subseteq Words(v)
<1>1. x \in Values
  BY ValuesGrounded DEF Collecting!Grounded
<1> QED BY <1>1, WordsEquation

(* A redacted value has the key nowhere. *)
THEOREM RedactedWords ==
  ASSUME Key # Redacted, NEW v \in Values
  PROVE  Key \notin Words(RedactValue(v, {Key}))
<1> DEFINE R(x) == RedactValue(x, {Key})
           S == {x \in Values : Key \notin Words(R(x))}
<1>1. ASSUME NEW x \in Values, Children(x) \subseteq S PROVE x \in S
  <2>1. R(x) \in Values
    BY ExchangeAssumption
  <2>2. Words(R(x)) = OwnWords(R(x)) \cup UNION {Words(y) : y \in Children(R(x))}
    BY <2>1, WordsEquation
  <2> SUFFICES /\ Key \notin OwnWords(R(x))
               /\ \A y \in Children(R(x)) : Key \notin Words(y)
    BY <2>2
  <2>3. \A word : RedactText(word, {Key}) # Key
    BY DEF RedactText
  <2>4. CASE Is("object", x)
    <3> DEFINE fields == [i \in DOMAIN x.object |->
                            <<RedactText(x.object[i][1], {Key}), R(x.object[i][2])>>]
    <3>0. Is("object", R(x)) /\ R(x).object = fields
      BY <2>4, RedactedObject
    <3>1. Is("object", R(x)) /\ DOMAIN R(x).object = DOMAIN x.object
      BY <3>0
    <3>2. \A i \in DOMAIN x.object : /\ R(x).object[i][1] = RedactText(x.object[i][1], {Key})
                                     /\ R(x).object[i][2] = R(x.object[i][2])
      <4> TAKE i \in DOMAIN x.object
      <4>1. R(x).object[i] = <<RedactText(x.object[i][1], {Key}), R(x.object[i][2])>>
        BY <3>0
      <4> QED BY <4>1
    <3>3. /\ OwnWords(R(x)) = {R(x).object[i][1] : i \in DOMAIN R(x).object}
          /\ Children(R(x)) = {R(x).object[i][2] : i \in DOMAIN R(x).object}
      BY <2>1, <3>1, ShapeOfValue
    <3>4. \A i \in DOMAIN x.object : x.object[i][2] \in Children(x)
      BY <2>4, ShapeOfValue
    <3> QED BY <1>1, <2>3, <3>1, <3>2, <3>3, <3>4
  <2>5. CASE Is("list", x)
    <3>1. Is("list", R(x)) /\ R(x).list = [i \in DOMAIN x.list |-> R(x.list[i])]
      BY <2>5, RedactedList DEF List, Is
    <3>2. OwnWords(R(x)) = {} /\ Children(R(x)) = {R(x).list[i] : i \in DOMAIN R(x).list}
      BY <2>1, <3>1, ShapeOfValue
    <3>3. \A i \in DOMAIN x.list : x.list[i] \in Children(x)
      BY <2>5, ShapeOfValue
    <3> QED BY <1>1, <3>1, <3>2, <3>3
  <2>6. CASE Is("text", x)
    <3>1. R(x) = [x EXCEPT !.text = RedactText(@, {Key})]
      <4>1. R(x) = RedactLevel(x, RedactedBy({Key}), {Key})
        BY RedactEquation
      <4>2. ~Is("list", x) /\ ~Is("object", x)
        BY <2>6, ShapeOfValue DEF Is
      <4> QED BY <2>6, <4>1, <4>2 DEF RedactLevel
    <3>2. Is("text", R(x)) /\ R(x).text = RedactText(x.text, {Key})
      BY <2>6, <3>1 DEF Is
    <3>3. OwnWords(R(x)) = {R(x).text} /\ Children(R(x)) = {}
      BY <2>1, <3>2, ShapeOfValue
    <3> QED BY <2>3, <3>2, <3>3
  <2>7. CASE ~Is("object", x) /\ ~Is("list", x) /\ ~Is("text", x)
    <3>1. R(x) = x
      BY <2>7, RedactEquation DEF RedactLevel
    <3> QED BY <2>7, <3>1, ShapeOfValue
  <2> QED BY <2>4, <2>5, <2>6, <2>7
<1>2. Values \subseteq S
  <2> HIDE DEF S
  <2> QED BY <1>1, ValuesGrounded, Redacting!NodeInduction
<1> QED BY <1>2

-----------------------------------------------------------------------------
(* There is a least of some places of a sequence, *)
LEMMA MinOfPlaces ==
  ASSUME NEW n \in Nat, NEW S \in SUBSET (1..n), S # {}
  PROVE  Min(S) \in S /\ \A i \in S : Min(S) <= i
<1>1. \E i \in S : \A j \in S : i <= j
  BY Collecting!LeastNumber
<1> QED BY <1>1 DEF Min

(* and a greatest. *)
LEMMA MaxOfPlaces ==
  ASSUME NEW n \in Nat, NEW S \in SUBSET (1..n), S # {}
  PROVE  Max(S) \in S
<1> DEFINE T == {n - i : i \in S}
<1>1. T \in SUBSET Nat /\ T # {}
  <2>1. \A i \in S : n - i \in Nat
    OBVIOUS
  <2> QED BY <2>1
<1>2. PICK t \in T : \A u \in T : t <= u
  BY <1>1, Collecting!LeastNumber
<1>3. PICK i \in S : t = n - i
  BY <1>2
<1>4. \A j \in S : i >= j
  <2> TAKE j \in S
  <2>1. n - i <= n - j
    BY <1>2, <1>3
  <2> QED BY <2>1
<1> QED BY <1>3, <1>4 DEF Max

(* A value found by its name is a part of the object. *)
LEMMA ValueIsPart ==
  ASSUME NEW v \in Values, Is("object", v), NEW name
  PROVE  Value(v, name) \in Children(v) \cup {Null}
<1>1. v.object \in Seq(STRING \X Values) /\ Children(v) = {v.object[i][2] : i \in DOMAIN v.object}
  BY ShapeOfValue
<1>2. CASE Spelled(v, name) = {}
  BY <1>2 DEF Value
<1>3. CASE Spelled(v, name) # {}
  <2>1. Spelled(v, name) \in SUBSET (1..Len(v.object)) /\ Len(v.object) \in Nat
    BY <1>1 DEF Spelled
  <2>2. Max(Spelled(v, name)) \in Spelled(v, name)
    BY <1>3, <2>1, MaxOfPlaces
  <2> QED BY <1>1, <1>3, <2>1, <2>2 DEF Value
<1> QED BY <1>2, <1>3

(* So is one found by one of several names. *)
LEMMA FirstValueIsPart ==
  ASSUME NEW v \in Values, Is("object", v), NEW names
  PROVE  FirstValue(v, names) \in Children(v) \cup {Null}
BY ValueIsPart DEF FirstValue

(* The first of the names with a value decides. *)
LEMMA FirstFoundIsPart ==
  ASSUME NEW v \in Values, Is("object", v), NEW n \in Nat, NEW names, DOMAIN names = 1..n
  PROVE  /\ FirstFound(v, names) \in Children(v) \cup {Null}
         /\ FirstFound(v, names) = Null <=> \A k \in DOMAIN names : Value(v, names[k]) = Null
<1> DEFINE found == {k \in DOMAIN names : Value(v, names[k]) # Null}
<1>1. CASE found = {}
  BY <1>1 DEF FirstFound
<1>2. CASE found # {}
  <2>1. found \in SUBSET (1..n)
    OBVIOUS
  <2>2. Min(found) \in found
    BY <1>2, <2>1, MinOfPlaces
  <2>3. FirstFound(v, names) = Value(v, names[Min(found)])
    BY <1>2 DEF FirstFound
  <2> QED BY <1>2, <2>2, <2>3, ValueIsPart
<1> QED BY <1>1, <1>2

(* What is printed of a value, by its kind. *)
LEMMA PrintedKinds ==
  ASSUME NEW v
  PROVE  /\ Is("text", v) /\ ~Is("number", v) /\ ~Is("bool", v) => Printed(v) = v.text
         /\ ~Is("text", v) /\ Is("number", v) /\ ~Is("bool", v) => Printed(v) = v.number
         /\ ~Is("text", v) /\ ~Is("number", v) /\ Is("bool", v) => Printed(v) \in {"True", "False"}
         /\ ~Is("text", v) /\ ~Is("number", v) /\ ~Is("bool", v) => Printed(v) = "{...}"
BY DEF Printed

(* What is read as a text is a word of the value, if the value is a text. *)
LEMMA TextIsWord ==
  ASSUME NEW v \in Values \cup {Null}
  PROVE  /\ TextOf(v) \in STRING \cup {None}
         /\ Is("object", v) => TextOf(v) = "{...}"
         /\ TextOf(v) # None /\ Is("text", v) => TextOf(v) \in OwnWords(v)
         /\ v = Null => TextOf(v) = None
<1>1. JsonValue(v)
  BY ShapeOfValue
<1>2. TextOf(v) \in {None, Printed(v)}
  BY DEF TextOf
<1>3. CASE v = Null
  BY <1>3 DEF Null, TextOf, Blank, Is
<1>4. CASE DOMAIN v = {"text", "padded"} /\ v.text \in STRING
  <2>1. Is("text", v) /\ ~Is("number", v) /\ ~Is("bool", v) /\ ~Is("object", v) /\ v # Null
    BY <1>4 DEF Is, Null
  <2> QED BY <1>2, <1>4, <2>1, PrintedKinds, ShapeOfValue
<1>5. CASE DOMAIN v = {"number"} /\ v.number \in STRING
  <2>1. ~Is("text", v) /\ Is("number", v) /\ ~Is("bool", v) /\ ~Is("object", v) /\ v # Null
    BY <1>5 DEF Is, Null
  <2> QED BY <1>2, <1>5, <2>1, PrintedKinds
<1>6. CASE DOMAIN v = {"bool"} /\ v.bool \in BOOLEAN
  <2>1. ~Is("text", v) /\ ~Is("number", v) /\ Is("bool", v) /\ ~Is("object", v) /\ v # Null
    BY <1>6 DEF Is, Null
  <2> QED BY <1>2, <2>1, PrintedKinds, JsonValuesAssumption
<1>7. CASE DOMAIN v = {"list"} \/ DOMAIN v = {"object"}
  <2>1. ~Is("text", v) /\ ~Is("number", v) /\ ~Is("bool", v) /\ ~Is("null", v) /\ v # Null
    BY <1>7 DEF Is, Null
  <2>2. Printed(v) = "{...}"
    BY <2>1, PrintedKinds
  <2>3. TextOf(v) = Printed(v)
    BY <2>1 DEF TextOf, Blank
  <2> QED BY <2>1, <2>2, <2>3, JsonValuesAssumption
<1> QED BY <1>1, <1>3, <1>4, <1>5, <1>6, <1>7 DEF JsonValue

-----------------------------------------------------------------------------
(* The body *)

(* The pieces read so far are the first ones of the last answer, and all of *)
(* them once the body is read.                                              *)
BodyInvariant ==
  /\ at \in {"start", "sent", "reading", "read", "done"}
  /\ at \in {"start", "sent"} => chunks = <<>>
  /\ at \in {"reading", "read"} =>
       /\ response \in Answers
       /\ \E n \in Nat : /\ n <= response.size /\ n <= MaxPieces
                         /\ chunks = [k \in 1..n |-> <<left, k>>]
  /\ BodyWhole

(* One more piece in order. *)
LEMMA PieceAppended ==
  ASSUME NEW n \in Nat, NEW a,
         chunks = [k \in 1..n |-> <<a, k>>]
  PROVE  /\ Len(chunks) = n
         /\ Append(chunks, <<a, n + 1>>) = [k \in 1..n + 1 |-> <<a, k>>]
OBVIOUS

(* An attempt that breaks off drops its pieces. *)
LEMMA BodyInvariantStep ==
  ASSUME BodyInvariant, [Next]_vars
  PROVE  BodyInvariant'
<1> USE ExchangeAssumption
<1>1. CASE UNCHANGED vars
  <2>1. Parsed' = Parsed
    BY <1>1 DEF vars, Parsed
  <2> QED BY <1>1, <2>1 DEF vars, BodyInvariant, BodyWhole, Answers
<1>2. ASSUME NEW kind \in {"refused", "http"}, End(Failure(kind)) PROVE BodyInvariant'
  <2>1. at' = "done" /\ ~Parsed'
    BY <1>2 DEF End, Failure, ParseError, Parsed
  <2> QED BY <2>1 DEF BodyInvariant, BodyWhole
<1>3. CASE Refuse \/ TooLong \/ TurnedAway \/ \E r \in Answers : DeclaredTooLong(r)
  BY <1>2, <1>3 DEF Refuse, TooLong, TurnedAway, DeclaredTooLong
<1>4. CASE Ask
  <2>1. ~Parsed'
    BY <1>4 DEF Ask, Parsed
  <2> QED BY <1>4, <2>1 DEF Ask, BodyInvariant, BodyWhole
<1>5. ASSUME NEW r \in Answers, Headers(r) PROVE BodyInvariant'
  <2>1. ~Parsed' /\ at = "sent" /\ at' = "reading" /\ response' = r /\ chunks' = <<>>
    BY <1>5 DEF Headers, Parsed, BodyInvariant
  <2>2. r.size \in Nat
    BY <1>5 DEF Answers
  <2>3. chunks' = [k \in 1..0 |-> <<left', k>>]
    BY <2>1
  <2>4. \E n \in Nat : n <= r.size /\ n <= MaxPieces /\ chunks' = [k \in 1..n |-> <<left', k>>]
    BY <2>2, <2>3
  <2>5. response' \in Answers'
    BY <1>5, <2>1 DEF Answers
  <2> QED BY <2>1, <2>4, <2>5 DEF BodyInvariant, BodyWhole
<1>6. CASE Piece
  <2> USE <1>6 DEF Piece
  <2>1. ~Parsed' /\ at' = "reading" /\ response' = response /\ left' = left
    BY DEF Parsed
  <2>2. PICK n \in Nat : chunks = [k \in 1..n |-> <<left, k>>]
    BY DEF BodyInvariant
  <2>3. Len(chunks) = n /\ Append(chunks, <<left, n + 1>>) = [k \in 1..n + 1 |-> <<left, k>>]
    BY <2>2, PieceAppended
  <2>4. chunks' = [k \in 1..n + 1 |-> <<left', k>>] /\ n + 1 <= response.size /\ n + 1 <= MaxPieces
    BY <2>3 DEF Coming
  <2>5. response' \in Answers'
    BY <2>1 DEF BodyInvariant, Answers
  <2> HIDE <1>6 DEF Piece
  <2>6. \E m \in Nat : /\ m <= response'.size /\ m <= MaxPieces
                       /\ chunks' = [k \in 1..m |-> <<left', k>>]
    <3> WITNESS n + 1 \in Nat
    <3> QED BY <2>1, <2>4
  <2> QED BY <2>1, <2>5, <2>6 DEF BodyInvariant, BodyWhole
<1>7. CASE EndOfBody
  <2>1. /\ ~Parsed' /\ at = "reading" /\ at' = "read" /\ response' = response /\ left' = left
        /\ chunks' = chunks
    BY <1>7 DEF EndOfBody, Parsed
  <2>2. PICK n \in Nat : /\ n <= response.size /\ n <= MaxPieces
                         /\ chunks = [k \in 1..n |-> <<left, k>>]
    BY <2>1 DEF BodyInvariant
  <2>3. Len(chunks) = n
    BY <2>2, PieceAppended
  <2>4. response \in Answers /\ response.size \in Nat
    BY <2>1 DEF BodyInvariant, Answers
  <2>5. n = response.size
    BY <1>7, <2>2, <2>3, <2>4 DEF EndOfBody, Coming
  <2>6. response' \in Answers'
    BY <2>1, <2>4 DEF Answers
  <2> QED BY <2>1, <2>2, <2>5, <2>6 DEF BodyInvariant, BodyWhole
<1>8. CASE Interrupted
  <2>1. CASE left > 0
    <3>1. ~Parsed' /\ at' = "sent" /\ chunks' = <<>>
      BY <1>8, <2>1 DEF Interrupted, Parsed
    <3> QED BY <3>1 DEF BodyInvariant, BodyWhole
  <2>2. CASE ~(left > 0)
    BY <1>2, <1>8, <2>2 DEF Interrupted
  <2> QED BY <2>1, <2>2
<1>9. CASE Assign
  <2>1. /\ ~Parsed' /\ at \in {"sent", "reading"} /\ at' = at /\ response' = response /\ left' = left
        /\ chunks' = chunks
    BY <1>9 DEF Assign, Parsed
  <2> QED BY <2>1 DEF BodyInvariant, BodyWhole, Answers
<1>10. CASE Parse
  <2>1. /\ at = "read" /\ at' = "done" /\ response' = response /\ left' = left /\ chunks' = chunks
    BY <1>10 DEF Parse, End
  <2> QED BY <2>1 DEF BodyInvariant, BodyWhole
<1> QED BY <1>1, <1>3, <1>4, <1>5, <1>6, <1>7, <1>8, <1>9, <1>10 DEF Next

(* What is parsed is the body of the last answer alone, from its first     *)
(* piece to its last, and never more than max_response_bytes.              *)
THEOREM BodyAlwaysWhole == Spec => []BodyWhole
<1>1. Init => BodyInvariant
  BY DEF Init, BodyInvariant, BodyWhole, Parsed
<1>2. BodyInvariant /\ [Next]_vars => BodyInvariant'
  BY BodyInvariantStep
<1>3. BodyInvariant => BodyWhole
  BY DEF BodyInvariant
<1> QED BY <1>1, <1>2, <1>3, PTL DEF Spec

-----------------------------------------------------------------------------
(* What a payload amounts to: a document *)

(* The part that the parsers work on is an object, wherever it is. *)
LEMMA ContentIsObject ==
  ASSUME NEW p \in Values, Is("object", p), NEW service
  PROVE  /\ Unwrap(p, service) \in Values /\ Is("object", Unwrap(p, service))
         /\ Unwrap(p, service) \in Children(p) \cup {p}
<1>1. CASE Is("object", Value(p, service))
  <2>1. Unwrap(p, service) = Value(p, service)
    BY <1>1 DEF Unwrap
  <2>2. ~Is("object", Null)
    BY DEF Is, Null
  <2> QED BY <1>1, <2>1, <2>2, ValueIsPart, WordsOfParts
<1>2. CASE ~Is("object", Value(p, service)) /\ Lone(p)
  <2>1. Unwrap(p, service) = p.object[1][2]
    BY <1>2 DEF Unwrap
  <2>2. 1 \in DOMAIN p.object
    BY <1>2, ShapeOfValue DEF Lone
  <2>3. p.object[1][2] \in Children(p)
    BY <2>2, ShapeOfValue
  <2> QED BY <1>2, <2>1, <2>3, WordsOfParts DEF Lone
<1>3. CASE ~Is("object", Value(p, service)) /\ ~Lone(p)
  BY <1>3 DEF Unwrap
<1> QED BY <1>1, <1>2, <1>3

(* The rows, identifiers and codes of a document, by its content, and what *)
(* records it is one of.                                                   *)
RowsOf(c, content) ==
  IF FirstFound(content, AllRowNames) = Null THEN None
  ELSE IF RowsGiven(content) = None THEN Malformed ELSE Len(RowsGiven(content))

NamedIn(c, content) ==
  IF ForRows(c)
  THEN RowsGiven(content) # None =>
         \A i \in DOMAIN RowsGiven(content) : Identified(RowsGiven(content)[i], Target(c))
  ELSE TextOf(Value(content, "AREA_NM")) # None

CodesOf(d, p, content) ==
  \A n \in Names : /\ d.code[<<"outer", n>>] = CodeAt(p, n)
                   /\ d.code[<<ContentOf(d), n>>] = CodeAt(content, n)
                   /\ d.wrap = "flat" => d.code[<<"inner", n>>] = CodeAt(Object(<<>>), n)

RecordOf(d) ==
  d \in [wrap : {"service", "lone", "flat"}, fields : [Parts -> SUBSET Marks],
         hollow : BOOLEAN, code : [Parts \X Names -> {d.code[x] : x \in Parts \X Names}],
         rows : {d.rows}, named : BOOLEAN, quota : BOOLEAN]

(* What a document says of the payload and of its content. *)
LEMMA DocumentFields ==
  ASSUME NEW c, NEW p, NEW d, d = Document(c, p),
         NEW content, content = Unwrap(p, Target(c))
  PROVE  /\ d.wrap \in {"service", "lone", "flat"}
         /\ d.wrap = "service" <=> Is("object", Value(p, Target(c)))
         /\ d.wrap = "service" => (d.hollow <=> content.object = <<>>)
         /\ d.hollow => \/ d.wrap = "flat"
                        \/ d.wrap # "flat" /\ content.object = <<>>
         /\ d.wrap = "flat" => content = p
         /\ d.fields["outer"] = NamesIn(p, Marks) /\ d.fields["inner"] \subseteq Marks
         /\ d.fields[ContentOf(d)] = NamesIn(content, Marks)
         /\ CodesOf(d, p, content)
         /\ d.rows = RowsOf(c, content)
         /\ d.named <=> NamedIn(c, content)
         /\ d.quota <=> ExtractResult(p, content).message \in QuotaWords
         /\ RecordOf(d)
<1> DEFINE named == Value(p, Target(c))
           fields(inner) == [x \in Parts |-> NamesIn([outer |-> p, inner |-> inner][x], Marks)]
           code(inner) == [spot \in Parts \X Names |->
                             CodeAt([outer |-> p, inner |-> inner][spot[1]], spot[2])]
           empty(inner) == inner.object = <<>>
           rows  == RowsOf(c, content)
           good  == NamedIn(c, content)
           quota == ExtractResult(p, content).message \in QuotaWords
<1> SUFFICES /\ d.wrap \in {"service", "lone", "flat"}
             /\ d.wrap = "service" <=> Is("object", named)
             /\ d.wrap = "service" => (d.hollow <=> empty(content))
             /\ d.hollow => \/ d.wrap = "flat"
                            \/ d.wrap # "flat" /\ empty(content)
             /\ d.wrap = "flat" => content = p
             /\ d.fields["outer"] = NamesIn(p, Marks) /\ d.fields["inner"] \subseteq Marks
             /\ d.fields[ContentOf(d)] = NamesIn(content, Marks)
             /\ CodesOf(d, p, content)
             /\ d.rows = rows
             /\ d.named <=> good
             /\ d.quota <=> quota
             /\ RecordOf(d)
  OBVIOUS
<1>4. \A inner : /\ fields(inner)["outer"] = NamesIn(p, Marks)
                 /\ fields(inner)["inner"] = NamesIn(inner, Marks)
                 /\ fields(inner)["inner"] \subseteq Marks
                 /\ \A n \in Names : /\ code(inner)[<<"outer", n>>] = CodeAt(p, n)
                                     /\ code(inner)[<<"inner", n>>] = CodeAt(inner, n)
  <2> TAKE inner
  <2>1. "outer" \in Parts /\ "inner" \in Parts
    BY DEF Parts
  <2>2. ASSUME NEW n \in Names
        PROVE  /\ code(inner)[<<"outer", n>>] = CodeAt(p, n)
               /\ code(inner)[<<"inner", n>>] = CodeAt(inner, n)
    <3>1. <<"outer", n>> \in Parts \X Names /\ <<"inner", n>> \in Parts \X Names
      BY <2>1
    <3> QED BY <3>1
  <2>3. NamesIn(inner, Marks) \subseteq Marks
    BY DEF NamesIn
  <2> QED BY <2>1, <2>2, <2>3
<1>5. \A inner : /\ fields(inner) \in [Parts -> SUBSET Marks]
                 /\ code(inner) \in [Parts \X Names -> {code(inner)[x] : x \in Parts \X Names}]
  BY DEF NamesIn
<1>6. good \in BOOLEAN /\ quota \in BOOLEAN /\ \A inner : empty(inner) \in BOOLEAN
  <2>1. good \in BOOLEAN
    <3>1. CASE ForRows(c)
      <4>1. good <=> (RowsGiven(content) # None =>
               \A i \in DOMAIN RowsGiven(content) : Identified(RowsGiven(content)[i], Target(c)))
        BY <3>1 DEF NamedIn
      <4> QED BY <3>1 DEF NamedIn
    <3>2. CASE ~ForRows(c)
      BY <3>2 DEF NamedIn
    <3> QED BY <3>1, <3>2
  <2>2. quota \in BOOLEAN
    OBVIOUS
  <2>3. \A inner : empty(inner) \in BOOLEAN
    OBVIOUS
  <2> QED BY <2>1, <2>2, <2>3
<1>1. CASE Is("object", named)
  <2>1. content = named
    BY <1>1 DEF Unwrap
  <2>2. d = [wrap |-> "service", fields |-> fields(content), hollow |-> content.object = <<>>,
             code |-> code(content), rows |-> rows, named |-> good, quota |-> quota]
    BY <1>1, <2>1 DEF Document, RowsOf, NamedIn
  <2>3. d = [wrap |-> "service", fields |-> fields(content), hollow |-> empty(content),
             code |-> code(content), rows |-> rows, named |-> good, quota |-> quota]
    BY <2>2
  <2> HIDE DEF empty, good, quota, fields, code, rows
  <2>4. /\ d.wrap = "service" /\ d.fields = fields(content) /\ d.hollow = empty(content)
        /\ d.code = code(content) /\ d.rows = rows /\ d.named = good /\ d.quota = quota
    BY <2>3
  <2>6. RecordOf(d)
    <3>1. /\ fields(content) \in [Parts -> SUBSET Marks] /\ empty(content) \in BOOLEAN
          /\ code(content) \in [Parts \X Names -> {code(content)[x] : x \in Parts \X Names}]
          /\ good \in BOOLEAN /\ quota \in BOOLEAN
      BY <1>5, <1>6
    <3> QED BY <2>3, <2>4, <3>1 DEF RecordOf
  <2>5. ContentOf(d) = "inner"
    BY <2>4 DEF ContentOf
  <2>7. CodesOf(d, p, content)
    BY <1>4, <2>1, <2>4, <2>5 DEF CodesOf
  <2> QED BY <1>1, <1>4, <2>1, <2>4, <2>5, <2>6, <2>7
<1>2. CASE ~Is("object", named) /\ Lone(p)
  <2>1. content = p.object[1][2]
    BY <1>2 DEF Unwrap
  <2>2. d = [wrap |-> "lone", fields |-> fields(content), hollow |-> content.object = <<>>,
             code |-> code(content), rows |-> rows, named |-> good, quota |-> quota]
    BY <1>2, <2>1 DEF Document, RowsOf, NamedIn
  <2>3. d = [wrap |-> "lone", fields |-> fields(content), hollow |-> empty(content),
             code |-> code(content), rows |-> rows, named |-> good, quota |-> quota]
    BY <2>2
  <2> HIDE DEF empty, good, quota, fields, code, rows
  <2>4. /\ d.wrap = "lone" /\ d.fields = fields(content) /\ d.hollow = empty(content)
        /\ d.code = code(content) /\ d.rows = rows /\ d.named = good /\ d.quota = quota
    BY <2>3
  <2>6. RecordOf(d)
    <3>1. /\ fields(content) \in [Parts -> SUBSET Marks] /\ empty(content) \in BOOLEAN
          /\ code(content) \in [Parts \X Names -> {code(content)[x] : x \in Parts \X Names}]
          /\ good \in BOOLEAN /\ quota \in BOOLEAN
      BY <1>5, <1>6
    <3> QED BY <2>3, <2>4, <3>1 DEF RecordOf
  <2>5. ContentOf(d) = "inner"
    BY <2>4 DEF ContentOf
  <2>7. CodesOf(d, p, content)
    BY <1>4, <2>1, <2>4, <2>5 DEF CodesOf
  <2> QED BY <1>2, <1>4, <2>1, <2>4, <2>5, <2>6, <2>7
<1>3. CASE ~Is("object", named) /\ ~Lone(p)
  <2>1. content = p
    BY <1>3 DEF Unwrap
  <2>2. d = [wrap |-> "flat", fields |-> fields(Object(<<>>)), hollow |-> Object(<<>>).object = <<>>,
             code |-> code(Object(<<>>)), rows |-> rows, named |-> good, quota |-> quota]
    BY <1>3, <2>1 DEF Document, RowsOf, NamedIn
  <2>3. d = [wrap |-> "flat", fields |-> fields(Object(<<>>)), hollow |-> empty(Object(<<>>)),
             code |-> code(Object(<<>>)), rows |-> rows, named |-> good, quota |-> quota]
    BY <2>2
  <2> HIDE DEF empty, good, quota, fields, code, rows
  <2>4. /\ d.wrap = "flat" /\ d.fields = fields(Object(<<>>)) /\ d.hollow = empty(Object(<<>>))
        /\ d.code = code(Object(<<>>)) /\ d.rows = rows /\ d.named = good /\ d.quota = quota
    BY <2>3
  <2>6. RecordOf(d)
    <3>1. /\ fields(Object(<<>>)) \in [Parts -> SUBSET Marks] /\ empty(Object(<<>>)) \in BOOLEAN
          /\ code(Object(<<>>)) \in
               [Parts \X Names -> {code(Object(<<>>))[x] : x \in Parts \X Names}]
          /\ good \in BOOLEAN /\ quota \in BOOLEAN
      BY <1>5, <1>6
    <3> QED BY <2>3, <2>4, <3>1 DEF RecordOf
  <2>5. ContentOf(d) = "outer"
    BY <2>4 DEF ContentOf
  <2>7. CodesOf(d, p, content)
    BY <1>4, <2>1, <2>4, <2>5 DEF CodesOf
  <2> QED BY <1>3, <1>4, <2>1, <2>4, <2>5, <2>6, <2>7
<1> QED BY <1>1, <1>2, <1>3

(* Nothing is found in an object without fields. *)
LEMMA EmptyObject ==
  ASSUME NEW v, v.object = <<>>, NEW name
  PROVE  Value(v, name) = Null /\ CodeAt(v, name) = None
<1>1. Spelled(v, name) = {}
  BY DEF Spelled
<1>2. Value(v, name) = Null
  BY <1>1 DEF Value
<1>3. TextOf(Null) = None /\ ~Is("object", Null)
  BY DEF TextOf, Blank, Null, Is
<1> QED BY <1>2, <1>3 DEF CodeAt, MappingValue

(* A code is a text, if it is there, and then its name is. *)
LEMMA CodeIsText ==
  ASSUME NEW p \in Values, Is("object", p), NEW name
  PROVE  /\ CodeAt(p, name) \in STRING \cup {None}
         /\ name \in {"RESULT", "errorMessage"} /\ CodeAt(p, name) # None => Value(p, name) # Null
<1>1. Value(p, name) \in Values \cup {Null}
  BY ValueIsPart, WordsOfParts
<1>2. ~Is("object", Null)
  BY DEF Is, Null
<1>3. CASE name \in {"RESULT.CODE", "code"}
  <2>1. CodeAt(p, name) = TextOf(Value(p, name))
    BY <1>3 DEF CodeAt
  <2> QED BY <1>1, <1>3, <2>1, TextIsWord
<1>4. CASE name \notin {"RESULT.CODE", "code"}
  <2>1. CASE MappingValue(p, name) = None
    BY <1>4, <2>1 DEF CodeAt
  <2>2. CASE MappingValue(p, name) # None
    <3>1. MappingValue(p, name) = Value(p, name) /\ Is("object", Value(p, name))
      BY <2>2 DEF MappingValue
    <3>2. Value(p, name) \in Values /\ Value(p, name) # Null
      BY <1>1, <1>2, <3>1
    <3>3. FirstValue(Value(p, name), CodeNames) \in Values \cup {Null}
      BY <3>1, <3>2, FirstValueIsPart, WordsOfParts
    <3>4. CodeAt(p, name) = TextOf(FirstValue(Value(p, name), CodeNames))
      BY <1>4, <2>2, <3>1 DEF CodeAt, TextValue
    <3> QED BY <3>2, <3>3, <3>4, TextIsWord
  <2> QED BY <2>1, <2>2
<1> QED BY <1>3, <1>4

(* The rows of an object are objects in it. *)
LEMMA RowsGivenShape ==
  ASSUME NEW v \in Values, Is("object", v)
  PROVE  \/ RowsGiven(v) = None /\ FirstFound(v, AllRowNames) # Null
         \/ /\ RowsGiven(v) \in Seq(Values)
            /\ \A i \in DOMAIN RowsGiven(v) : /\ Is("object", RowsGiven(v)[i])
                                              /\ Words(RowsGiven(v)[i]) \subseteq Words(v)
            /\ FirstFound(v, AllRowNames) = Null => RowsGiven(v) = <<>>
            /\ Is("list", FirstFound(v, AllRowNames)) =>
                 RowsGiven(v) = FirstFound(v, AllRowNames).list
            /\ ~Is("list", FirstFound(v, AllRowNames)) => Len(RowsGiven(v)) <= 1
<1> DEFINE value == FirstFound(v, AllRowNames)
<1>1. value \in Children(v) \cup {Null}
  <2>1. DOMAIN AllRowNames = 1..5
    BY DEF AllRowNames
  <2> QED BY <2>1, FirstFoundIsPart
<1>2. ~Is("object", Null) /\ ~Is("list", Null)
  BY DEF Is, Null
<1>3. CASE value = Null
  <2>1. RowsGiven(v) = <<>>
    BY <1>2, <1>3 DEF RowsGiven
  <2> QED BY <1>2, <1>3, <2>1
<1>4. CASE Is("object", value)
  <2>1. value \in Values /\ Words(value) \subseteq Words(v) /\ value # Null /\ ~Is("list", value)
    <3>1. value # Null
      BY <1>2, <1>4
    <3>2. value \in Values /\ Words(value) \subseteq Words(v)
      BY <1>1, <3>1, WordsOfParts
    <3> QED BY <1>4, <3>1, <3>2, ShapeOfValue DEF Is
  <2>2. RowsGiven(v) = <<value>>
    BY <1>4, <2>1 DEF RowsGiven
  <2> HIDE DEF value
  <2>3. /\ RowsGiven(v) \in Seq(Values) /\ Len(RowsGiven(v)) = 1
        /\ \A i \in DOMAIN RowsGiven(v) : RowsGiven(v)[i] = value
    BY <2>1, <2>2
  <2> QED BY <1>4, <2>1, <2>3 DEF value
<1>5. CASE value # Null /\ ~Is("object", value) /\ Is("list", value)
           /\ \A i \in DOMAIN value.list : Is("object", value.list[i])
  <2>1. value \in Values /\ Words(value) \subseteq Words(v)
    BY <1>1, <1>5, WordsOfParts
  <2>2. RowsGiven(v) = value.list
    BY <1>5 DEF RowsGiven
  <2>3. value.list \in Seq(Values) /\ Children(value) = {value.list[i] : i \in DOMAIN value.list}
    BY <1>5, <2>1, ShapeOfValue
  <2>4. \A i \in DOMAIN value.list : Words(value.list[i]) \subseteq Words(v)
    BY <2>1, <2>3, WordsOfParts
  <2> QED BY <1>5, <2>2, <2>3, <2>4
<1>6. CASE value # Null /\ ~Is("object", value)
           /\ ~(Is("list", value) /\ \A i \in DOMAIN value.list : Is("object", value.list[i]))
  BY <1>6 DEF RowsGiven
<1> QED BY <1>3, <1>4, <1>5, <1>6

(* What the body amounts to is a document, in the terms of Envelope. *)
LEMMA DocumentTyped ==
  ASSUME NEW c, NEW p \in Values, Is("object", p)
  PROVE  Document(c, p) \in AnyDocument /\ Document(c, p).wrap # "unreadable"
<1> DEFINE d == Document(c, p)
           content == Unwrap(p, Target(c))
           flat == Object(<<>>)
<1>0. d = Document(c, p) /\ content = Unwrap(p, Target(c)) /\ flat = Object(<<>>)
  OBVIOUS
<1>1. content \in Values /\ Is("object", content)
  BY ContentIsObject
<1>3. flat.object = <<>>
  BY DEF Object
<1>8. \A n : CodeAt(flat, n) = None
  BY <1>3, EmptyObject
<1> HIDE DEF d, content, flat
<1>2. /\ d.wrap \in {"service", "lone", "flat"}
      /\ d.hollow => \/ d.wrap = "flat"
                     \/ d.wrap # "flat" /\ content.object = <<>>
      /\ d.wrap = "flat" => content = p
      /\ d.fields["outer"] = NamesIn(p, Marks) /\ d.fields["inner"] \subseteq Marks
      /\ d.fields[ContentOf(d)] = NamesIn(content, Marks)
      /\ CodesOf(d, p, content)
      /\ d.rows = RowsOf(c, content)
      /\ RecordOf(d)
  BY <1>0, DocumentFields
<1>11. \A n \in Names : d.wrap = "flat" => d.code[<<"inner", n>>] = None
  BY <1>0, <1>2, <1>8 DEF CodesOf
<1>12. \A n \in Names : /\ d.code[<<"outer", n>>] = CodeAt(p, n)
                        /\ d.code[<<ContentOf(d), n>>] = CodeAt(content, n)
  BY <1>2 DEF CodesOf
<1>4. \A n \in Names : /\ CodeAt(p, n) \in STRING \cup {None}
                       /\ CodeAt(content, n) \in STRING \cup {None}
  BY <1>1, CodeIsText
<1>5. \A spot \in Parts \X Names : d.code[spot] \in STRING \cup {None}
  <2>1. ASSUME NEW n \in Names
        PROVE  d.code[<<"outer", n>>] \in STRING \cup {None} /\ d.code[<<"inner", n>>] \in STRING \cup {None}
    BY <1>2, <1>4, <1>11, <1>12 DEF ContentOf
  <2> TAKE spot \in Parts \X Names
  <2>2. PICK x \in Parts, n \in Names : spot = <<x, n>>
    OBVIOUS
  <2> QED BY <2>1, <2>2 DEF Parts
<1>7. d.rows \in {None, Malformed} \cup Nat
  BY <1>1, <1>2, RowsGivenShape DEF RowsOf
<1>9. Consistent(d)
  <2>1. ASSUME NEW n \in {"RESULT", "errorMessage"}, d.code[<<"outer", n>>] # None
        PROVE  n \in d.fields["outer"]
    <3>1. n \in Names /\ n \in Marks
      BY DEF Names, Marks, EnvelopeMarks
    <3>2. Value(p, n) # Null
      BY <1>12, <2>1, <3>1, CodeIsText
    <3> QED BY <1>2, <3>1, <3>2 DEF NamesIn
  <2>2. ASSUME NEW n \in Names, d.hollow PROVE d.code[<<"inner", n>>] = None
    <3>1. CASE d.wrap = "flat"
      BY <1>11, <3>1
    <3>2. CASE d.wrap # "flat"
      BY <1>2, <1>12, <2>2, <3>2, EmptyObject DEF ContentOf
    <3> QED BY <3>1, <3>2
  <2>3. ASSUME d.rows # None PROVE d.fields[ContentOf(d)] \cap (RowNames \cup ParkingNames) # {}
    <3>1. FirstFound(content, AllRowNames) # Null
      BY <1>2, <2>3 DEF RowsOf
    <3>2. DOMAIN AllRowNames = 1..5
      BY DEF AllRowNames
    <3>3. PICK k \in 1..5 : Value(content, AllRowNames[k]) # Null
      BY <1>1, <3>1, <3>2, FirstFoundIsPart
    <3>4. AllRowNames[k] \in RowNames \cup ParkingNames /\ AllRowNames[k] \in Marks
      BY DEF AllRowNames, RowNames, ParkingNames, Marks, EnvelopeMarks
    <3> QED BY <1>2, <3>3, <3>4 DEF NamesIn
  <2> QED BY <2>1, <2>2, <2>3 DEF Consistent
<1>10. /\ d.wrap \in {"service", "lone", "flat", "unreadable"} /\ d.wrap # "unreadable"
       /\ d \in [wrap : {"service", "lone", "flat", "unreadable"}, fields : [Parts -> SUBSET Marks],
          hollow : BOOLEAN, code : [Parts \X Names -> STRING \cup {None}],
          rows : {None, Malformed} \cup Nat, named : BOOLEAN, quota : BOOLEAN]
  <2> DEFINE codes == [Parts \X Names -> {d.code[x] : x \in Parts \X Names}]
  <2>1. codes \subseteq [Parts \X Names -> STRING \cup {None}]
    BY <1>5
  <2>2. d \in [wrap : {"service", "lone", "flat"}, fields : [Parts -> SUBSET Marks],
               hollow : BOOLEAN, code : codes, rows : {d.rows}, named : BOOLEAN, quota : BOOLEAN]
    BY <1>2 DEF RecordOf
  <2> HIDE DEF codes
  <2> QED BY <1>7, <2>1, <2>2
<1> QED BY <1>9, <1>10 DEF AnyDocument, d

-----------------------------------------------------------------------------
(* The code, the marks and the rows, on values and in documents *)

(* The codes of the payload p and its content, in the order _extract_result *)
(* looks at them.                                                          *)
CodesInOrder(p, content) ==
  <<CodeAt(content, "RESULT"), CodeAt(p, "RESULT"),
    CodeAt(content, "errorMessage"), CodeAt(p, "errorMessage"),
    CodeAt(content, "RESULT.CODE"), CodeAt(p, "RESULT.CODE"),
    CodeAt(content, "code"), CodeAt(p, "code")>>

(* The first one there is. *)
IsFirst(codes, k) == codes[k] # None /\ \A j \in 1..8 : j < k => codes[j] = None

(* If there is any, there is a first. *)
LEMMA ThereIsAFirst ==
  ASSUME NEW codes
  PROVE  (\A k \in 1..8 : codes[k] = None) \/ \E k \in 1..8 : IsFirst(codes, k)
<1> DEFINE S == {k \in 1..8 : codes[k] # None}
<1>1. CASE S = {}
  BY <1>1
<1>2. CASE S # {}
  <2>1. PICK k \in S : \A i \in S : k <= i
    BY <1>2, MinOfPlaces
  <2>2. \A j \in 1..8 : j < k => codes[j] = None
    BY <2>1
  <2> QED BY <2>1, <2>2 DEF IsFirst
<1> QED BY <1>1, <1>2

(* _extract_result takes the first code there is. *)
LEMMA ExtractedCode ==
  ASSUME NEW p, NEW content, NEW codes, codes = CodesInOrder(p, content)
  PROVE  /\ (\A k \in 1..8 : codes[k] = None) => ExtractResult(p, content).code = None
         /\ \A k \in 1..8 : IsFirst(codes, k) => ExtractResult(p, content).code = codes[k]
<1> DEFINE results == <<MappingValue(content, "RESULT"), MappingValue(p, "RESULT"),
                        MappingValue(content, "errorMessage"), MappingValue(p, "errorMessage")>>
           coded == {i \in 1..4 : results[i] # None /\ TextValue(results[i], CodeNames) # None}
           first == results[Min(coded)]
           either(name) == Either(TextOf(Value(content, name)), TextOf(Value(p, name)))
           result == ExtractResult(p, content)
<1>1. \A i \in 1..4 : /\ codes[i] = None <=> i \notin coded
                      /\ i \in coded => codes[i] = TextValue(results[i], CodeNames)
  <2>1. /\ codes[1] = CodeAt(content, "RESULT") /\ codes[2] = CodeAt(p, "RESULT")
        /\ codes[3] = CodeAt(content, "errorMessage") /\ codes[4] = CodeAt(p, "errorMessage")
    BY DEF CodesInOrder
  <2>2. \A object, name : name \in {"RESULT", "errorMessage"} =>
          CodeAt(object, name) = IF MappingValue(object, name) = None THEN None
                                 ELSE TextValue(MappingValue(object, name), CodeNames)
    BY DEF CodeAt
  <2>3. ASSUME NEW i \in 1..4
        PROVE codes[i] = IF results[i] = None THEN None ELSE TextValue(results[i], CodeNames)
    BY <2>1, <2>2
  <2> QED BY <2>3
<1>2. /\ codes[5] = TextOf(Value(content, "RESULT.CODE")) /\ codes[6] = TextOf(Value(p, "RESULT.CODE"))
      /\ codes[7] = TextOf(Value(content, "code")) /\ codes[8] = TextOf(Value(p, "code"))
  BY DEF CodesInOrder, CodeAt
<1>3. coded # {} => result.code = TextValue(first, CodeNames)
  BY DEF ExtractResult, CodeAndMessage
<1>4. coded = {} /\ either("RESULT.CODE") # None => result.code = either("RESULT.CODE")
  BY DEF ExtractResult, CodeAndMessage
<1>5. coded = {} /\ either("RESULT.CODE") = None => result.code = either("code")
  BY DEF ExtractResult, CodeAndMessage
<1>6. coded \in SUBSET (1..4)
  OBVIOUS
<1> HIDE DEF results, coded, first, result, either
<1>7. \A name : either(name) = IF TextOf(Value(content, name)) # None
                               THEN TextOf(Value(content, name)) ELSE TextOf(Value(p, name))
  BY DEF either, Either
<1>8. ASSUME \A k \in 1..8 : codes[k] = None PROVE result.code = None
  <2>1. coded = {}
    BY <1>1, <1>6, <1>8
  <2>2. either("RESULT.CODE") = None /\ either("code") = None
    BY <1>2, <1>7, <1>8
  <2> QED BY <1>5, <2>1, <2>2
<1>9. ASSUME NEW k \in 1..8, IsFirst(codes, k) PROVE result.code = codes[k]
  <2>1. CASE k \in 1..4
    <3>1. k \in coded /\ \A j \in 1..4 : j < k => j \notin coded
      BY <1>1, <1>9, <2>1 DEF IsFirst
    <3>2. PICK m \in coded : m = Min(coded) /\ \A j \in coded : m <= j
      BY <1>6, <3>1, MinOfPlaces
    <3>3. Min(coded) = k
      BY <1>6, <2>1, <3>1, <3>2
    <3> QED BY <1>1, <1>3, <2>1, <3>1, <3>3 DEF first
  <2>2. CASE k \in 5..8
    <3>1. coded = {}
      BY <1>1, <1>6, <1>9, <2>2 DEF IsFirst
    <3>2. CASE k = 5
      BY <1>2, <1>4, <1>7, <1>9, <3>1, <3>2 DEF IsFirst
    <3>3. CASE k = 6
      <4>1. codes[5] = None /\ codes[6] # None
        BY <1>9, <3>3 DEF IsFirst
      <4> QED BY <1>2, <1>4, <1>7, <3>1, <3>3, <4>1
    <3>4. CASE k = 7
      <4>1. codes[5] = None /\ codes[6] = None /\ codes[7] # None
        BY <1>9, <3>4 DEF IsFirst
      <4> QED BY <1>2, <1>5, <1>7, <3>1, <3>4, <4>1
    <3>5. CASE k = 8
      <4>1. codes[5] = None /\ codes[6] = None /\ codes[7] = None /\ codes[8] # None
        BY <1>9, <3>5 DEF IsFirst
      <4> QED BY <1>2, <1>5, <1>7, <3>1, <3>5, <4>1
    <3> QED BY <2>2, <3>2, <3>3, <3>4, <3>5
  <2> QED BY <2>1, <2>2
<1> QED BY <1>8, <1>9 DEF result

(* So does Envelope, of a document. *)
LEMMA SeenCode ==
  ASSUME NEW codes, \A i \in 1..8 : codes[i] = seen.code[AbstractEnvelope!Precedence[i]]
  PROVE  /\ (\A k \in 1..8 : codes[k] = None) => AbstractEnvelope!Code = None
         /\ \A k \in 1..8 : IsFirst(codes, k) => AbstractEnvelope!Code = codes[k]
<1> DEFINE carries(i) == AbstractEnvelope!Carries(i)
           at1(i) == seen.code[AbstractEnvelope!Precedence[i]]
<1>1. \A i \in 1..8 : carries(i) <=> codes[i] # None
  BY DEF AbstractEnvelope!Carries
<1>2. AbstractEnvelope!Code =
        IF \A i \in 1..8 : ~carries(i) THEN None
        ELSE at1(CHOOSE i \in 1..8 : carries(i) /\ \A j \in 1..i-1 : ~carries(j))
  BY DEF AbstractEnvelope!Code
<1> HIDE DEF carries, at1
<1>3. ASSUME NEW k \in 1..8, IsFirst(codes, k) PROVE AbstractEnvelope!Code = codes[k]
  <2>1. carries(k) /\ \A j \in 1..8 : j < k => ~carries(j)
    BY <1>1, <1>3 DEF IsFirst
  <2>2. \A i \in 1..8 : carries(i) /\ (\A j \in 1..i-1 : ~carries(j)) <=> i = k
    <3> TAKE i \in 1..8
    <3>1. CASE i < k
      BY <2>1, <3>1
    <3>2. CASE i = k
      BY <2>1, <3>2
    <3>3. CASE i > k
      <4>1. k \in 1..i-1
        BY <3>3
      <4> QED BY <2>1, <3>3, <4>1
    <3> QED BY <3>1, <3>2, <3>3
  <2>3. (CHOOSE i \in 1..8 : carries(i) /\ \A j \in 1..i-1 : ~carries(j)) = k
    BY <2>2
  <2>4. at1(k) = codes[k]
    BY DEF at1
  <2> QED BY <1>2, <2>1, <2>3, <2>4
<1> QED BY <1>1, <1>2, <1>3

(* The code of the payload is the code of the document. *)
LEMMA CodesAgree ==
  ASSUME NEW p, NEW content, content = Unwrap(p, Target(call)), seen = Document(call, p)
  PROVE  AbstractEnvelope!Code = ExtractResult(p, content).code
<1> DEFINE codes == CodesInOrder(p, content)
<1>1. CodesOf(seen, p, content)
  BY DocumentFields
<1>2. AbstractEnvelope!Content = ContentOf(seen)
  BY DEF AbstractEnvelope!Content, AbstractEnvelope!ContentOf, ContentOf
<1>3. \A i \in 1..8 : codes[i] = seen.code[AbstractEnvelope!Precedence[i]]
  <2>1. \A n \in Names : /\ seen.code[<<"outer", n>>] = CodeAt(p, n)
                         /\ seen.code[<<AbstractEnvelope!Content, n>>] = CodeAt(content, n)
    BY <1>1, <1>2 DEF CodesOf
  <2>2. /\ seen.code[<<"outer", "RESULT">>] = CodeAt(p, "RESULT")
        /\ seen.code[<<AbstractEnvelope!Content, "RESULT">>] = CodeAt(content, "RESULT")
        /\ seen.code[<<"outer", "errorMessage">>] = CodeAt(p, "errorMessage")
        /\ seen.code[<<AbstractEnvelope!Content, "errorMessage">>] = CodeAt(content, "errorMessage")
        /\ seen.code[<<"outer", "RESULT.CODE">>] = CodeAt(p, "RESULT.CODE")
        /\ seen.code[<<AbstractEnvelope!Content, "RESULT.CODE">>] = CodeAt(content, "RESULT.CODE")
        /\ seen.code[<<"outer", "code">>] = CodeAt(p, "code")
        /\ seen.code[<<AbstractEnvelope!Content, "code">>] = CodeAt(content, "code")
    BY <2>1 DEF Names
  <2>3. /\ codes[1] = seen.code[AbstractEnvelope!Precedence[1]]
        /\ codes[2] = seen.code[AbstractEnvelope!Precedence[2]]
        /\ codes[3] = seen.code[AbstractEnvelope!Precedence[3]]
        /\ codes[4] = seen.code[AbstractEnvelope!Precedence[4]]
        /\ codes[5] = seen.code[AbstractEnvelope!Precedence[5]]
        /\ codes[6] = seen.code[AbstractEnvelope!Precedence[6]]
        /\ codes[7] = seen.code[AbstractEnvelope!Precedence[7]]
        /\ codes[8] = seen.code[AbstractEnvelope!Precedence[8]]
    BY <2>2 DEF AbstractEnvelope!Precedence, CodesInOrder
  <2> HIDE DEF codes
  <2> QED BY <2>3
<1>4. codes = CodesInOrder(p, content)
  OBVIOUS
<1> HIDE DEF codes
<1> QED BY <1>3, <1>4, SeenCode, ExtractedCode, ThereIsAFirst

(* The names found among more names. *)
LEMMA NamesInMore ==
  ASSUME NEW v, NEW more, NEW names, names \subseteq more
  PROVE  NamesIn(v, more) \cap names = NamesIn(v, names)
BY DEF NamesIn

(* A name that stands for the same spellings finds the same value. *)
LEMMA CitydataValue ==
  ASSUME NEW p PROVE Value(p, "CITYDATA") = Value(p, "citydata")
<1>1. Spelled(p, "CITYDATA") = Spelled(p, "citydata")
  BY ParsersAssumption DEF Spelled
<1> QED BY <1>1 DEF Value

(* So are its marks. *)
LEMMA MarksAgree ==
  ASSUME NEW p \in Values, Is("object", p), NEW content, content = Unwrap(p, Target(call)),
         call \in CallShape, seen = Document(call, p)
  PROVE  /\ AbstractEnvelope!ForRows <=> ForRows(call)
         /\ AbstractEnvelope!Marked <=>
              IF ForRows(call) THEN HasEnvelopeMarker(p, content, Target(call)) ELSE HasCitydataMarker(p)
         /\ AbstractEnvelope!HasDataMarker <=> HasDataMarker(p, content)
<1>1. /\ seen.wrap \in {"service", "lone", "flat"}
      /\ seen.wrap = "service" <=> Is("object", Value(p, Target(call)))
      /\ seen.wrap = "service" => (seen.hollow <=> content.object = <<>>)
      /\ seen.fields["outer"] = NamesIn(p, Marks)
      /\ seen.fields[ContentOf(seen)] = NamesIn(content, Marks)
  BY DocumentFields
<1>2. /\ seen.fields["outer"] \cap EnvelopeMarks = NamesIn(p, EnvelopeMarks)
      /\ seen.fields["outer"] \cap CitydataMarks = NamesIn(p, CitydataMarks)
      /\ seen.fields["outer"] \cap DataMarks = NamesIn(p, DataMarks)
      /\ seen.fields[ContentOf(seen)] \cap DataMarks = NamesIn(content, DataMarks)
  <2>1. EnvelopeMarks \subseteq Marks /\ CitydataMarks \subseteq Marks /\ DataMarks \subseteq Marks
    BY DEF Marks
  <2> QED BY <1>1, <2>1, NamesInMore
<1>3. /\ AbstractEnvelope!EnvelopeMarks = EnvelopeMarks
      /\ AbstractEnvelope!CitydataMarks = CitydataMarks
      /\ AbstractEnvelope!DataMarks = DataMarks
      /\ AbstractEnvelope!Content = ContentOf(seen)
  BY DEF AbstractEnvelope!EnvelopeMarks, EnvelopeMarks, AbstractEnvelope!RowNames, RowNames,
         AbstractEnvelope!ParkingNames, ParkingNames, AbstractEnvelope!CitydataMarks, CitydataMarks,
         AbstractEnvelope!DataMarks, DataMarks, AbstractEnvelope!Content,
         AbstractEnvelope!ContentOf, ContentOf
<1>4. AbstractEnvelope!ForRows <=> ForRows(call)
  BY DEF AbstractEnvelope!ForRows, ForRows
<1>5. AbstractEnvelope!HasEnvelopeMarker <=> HasEnvelopeMarker(p, content, Target(call))
  BY <1>1, <1>2, <1>3 DEF AbstractEnvelope!HasEnvelopeMarker, HasEnvelopeMarker
<1>6. ~ForRows(call) => (AbstractEnvelope!HasCitydataMarker <=> HasCitydataMarker(p))
  <2> SUFFICES ASSUME ~ForRows(call)
               PROVE  AbstractEnvelope!HasCitydataMarker <=> HasCitydataMarker(p)
    OBVIOUS
  <2>1. Target(call) = "citydata"
    BY DEF ForRows, Target, AllStations
  <2>2. seen.wrap = "service" <=> MappingValue(p, "CITYDATA") # None
    <3>1. Is("object", Value(p, "CITYDATA")) => Value(p, "CITYDATA") # None
      <4>1. ~Is("object", Null)
        BY DEF Is, Null
      <4>2. Is("object", Value(p, "CITYDATA")) => Value(p, "CITYDATA") \in Values
        BY <4>1, ValueIsPart, WordsOfParts
      <4> QED BY <4>2, JsonValuesAssumption
    <3> QED BY <1>1, <2>1, <3>1, CitydataValue DEF MappingValue
  <2> QED BY <1>2, <1>3, <2>2 DEF AbstractEnvelope!HasCitydataMarker, HasCitydataMarker
<1>7. AbstractEnvelope!HasDataMarker <=> HasDataMarker(p, content)
  BY <1>2, <1>3 DEF AbstractEnvelope!HasDataMarker, HasDataMarker
<1> QED BY <1>1, <1>4, <1>5, <1>6, <1>7 DEF AbstractEnvelope!Marked

(* At least one row is asked for. *)
LEMMA LimitPositive ==
  ASSUME NEW c \in CallShape, ~Refused(c)
  PROVE  Limit(c) \in Nat \ {0}
<1> USE PageRequestAssumption
<1>1. First(c) \in Int /\ Last(c) \in Int /\ c.items \in Int \cup {None}
  BY DEF CallShape, First, Last
<1>2. CASE Paged(c)
  <2>1. PageSize(c) \in 1..MaxPage
    BY <1>2 DEF Refused, RangeRefused
  <2> QED BY <1>1, <1>2, <2>1
          DEF Limit, PaginatedResponseLimit, PageSize, Api, General, Subway, Services, CallShape, AllStations
<1>3. CASE ~Paged(c)
  BY <1>1, <1>3 DEF Paged, Refused, AllStationsRefused, Limit, EffectiveMaxItems
<1> QED BY <1>2, <1>3

(* And its rows: as many, within the limit, with their identifiers. *)
LEMMA RowsAgree ==
  ASSUME NEW content \in Values, Is("object", content), NEW c \in CallShape, ~Refused(c),
         NEW number, number = RowsOf(c, content), NEW rows, rows = ExtractRows(content, Limit(c))
  PROVE  /\ (number # None => number # Malformed /\ number <= Limit(c)) <=> rows # None
         /\ rows # None => /\ RowsGiven(content) = rows
                           /\ rows \in Seq(Values)
                           /\ Len(rows) = IF number = None THEN 0 ELSE number
<1> DEFINE value == FirstFound(content, AllRowNames)
<1>1. Limit(c) \in Nat \ {0}
  BY LimitPositive
<1>2. None \notin Seq(Values) /\ None \notin Int
  BY JsonValuesAssumption
<1>3. CASE RowsGiven(content) = None
  <2>1. value # Null
    BY <1>2, <1>3, RowsGivenShape
  <2>2. number = Malformed /\ rows = None
    BY <1>3, <2>1 DEF RowsOf, ExtractRows
  <2> QED BY <1>2, <2>2 DEF Malformed
<1>4. CASE RowsGiven(content) # None /\ value = Null
  <2>1. RowsGiven(content) = <<>> /\ ~Is("list", value)
    BY <1>4, RowsGivenShape DEF Is, Null
  <2>2. number = None /\ rows = <<>>
    BY <1>4, <2>1 DEF RowsOf, ExtractRows
  <2>3. rows \in Seq(Values) /\ Len(rows) = 0
    BY <2>2
  <2>4. rows # None
    BY <1>2, <2>3
  <2> QED BY <2>1, <2>2, <2>3, <2>4
<1>5. CASE RowsGiven(content) # None /\ value # Null
  <2>1. RowsGiven(content) \in Seq(Values)
    BY <1>5, RowsGivenShape
  <2>2. number = Len(RowsGiven(content)) /\ number \in Nat
    BY <1>5, <2>1 DEF RowsOf
  <2>3. rows = IF number > Limit(c) THEN None ELSE RowsGiven(content)
    <3>1. CASE Is("list", value)
      <4>1. RowsGiven(content) = value.list
        BY <1>5, <3>1, RowsGivenShape
      <4> QED BY <2>2, <3>1, <4>1 DEF ExtractRows
    <3>2. CASE ~Is("list", value)
      <4>1. number <= 1
        BY <1>5, <2>2, <3>2, RowsGivenShape
      <4> QED BY <1>1, <2>2, <3>2, <4>1 DEF ExtractRows
    <3> QED BY <3>1, <3>2
  <2> QED BY <1>1, <1>2, <1>5, <2>1, <2>2, <2>3 DEF Malformed
<1> QED BY <1>3, <1>4, <1>5

-----------------------------------------------------------------------------
(* What an object is understood as *)

(* The questions _query asks of a payload, one by one, and what it makes   *)
(* of a sound one.                                                         *)
MarkedAs(c, p, content) ==
  IF ForRows(c) THEN HasEnvelopeMarker(p, content, Target(c)) ELSE HasCitydataMarker(p)

CoherentAs(c, p, content) ==
  /\ MarkedAs(c, p, content)
  /\ ExtractResult(p, content).code # None
  /\ ForRows(c) => ExtractRows(content, Limit(c)) # None

SoundAs(c, p, content) ==
  IF ForRows(c)
  THEN /\ HasDataMarker(p, content)
       /\ \A i \in DOMAIN ExtractRows(content, Limit(c)) :
            Identified(ExtractRows(content, Limit(c))[i], Target(c))
  ELSE TextOf(Value(content, "AREA_NM")) # None

ItemsAs(c, content) ==
  IF ForRows(c)
  THEN [i \in DOMAIN ExtractRows(content, Limit(c)) |->
          Typed(ExtractRows(content, Limit(c))[i], Target(c))]
  ELSE <<CityData(content)>>

AnswerAs(p, result, content) ==
  [ParseError EXCEPT !.kind = "result", !.code = result.code, !.message = result.message,
                     !.payload = p, !.total = ListTotalCount(p, content)]

(* What an answer is understood as, case by case. *)
LEMMA UnderstoodCases ==
  ASSUME NEW c, NEW p, NEW content, content = Unwrap(p, Target(c)),
         NEW result, result = ExtractResult(p, content)
  PROVE  /\ ~CoherentAs(c, p, content) => Understood(c, p) = ParseError
         /\ CoherentAs(c, p, content) =>
              /\ result.code \notin {"INFO-000", "INFO-200"} =>
                   Understood(c, p) = UpstreamError(result)
              /\ result.code = "INFO-200" => Understood(c, p) = AnswerAs(p, result, content)
              /\ result.code = "INFO-000" /\ SoundAs(c, p, content) =>
                   Understood(c, p) = [AnswerAs(p, result, content) EXCEPT !.items = ItemsAs(c, content)]
              /\ result.code = "INFO-000" /\ ~SoundAs(c, p, content) => Understood(c, p) = ParseError
<1>1. ASSUME NEW sound \in BOOLEAN, NEW items
      PROVE  LET o == Delivered(p, result, content, sound, items) IN
             /\ result.code = "INFO-200" => o = AnswerAs(p, result, content)
             /\ result.code = "INFO-000" /\ sound =>
                  o = [AnswerAs(p, result, content) EXCEPT !.items = items]
             /\ result.code = "INFO-000" /\ ~sound => o = ParseError
  <2> DEFINE o == Delivered(p, result, content, sound, items)
  <2>1. result.code = "INFO-200" => o = AnswerAs(p, result, content)
    BY DEF Delivered, AnswerAs
  <2>2. result.code = "INFO-000" /\ sound => o = [AnswerAs(p, result, content) EXCEPT !.items = items]
    BY DEF Delivered, AnswerAs
  <2>3. result.code = "INFO-000" /\ ~sound => o = ParseError
    BY DEF Delivered
  <2> QED BY <2>1, <2>2, <2>3
<1>2. ASSUME NEW sound \in BOOLEAN, NEW items, result.code \notin {"INFO-000", "INFO-200"}
      PROVE  Delivered(p, result, content, sound, items) = UpstreamError(result)
  BY <1>2, Zenon DEF Delivered
<1> DEFINE sound == SoundAs(c, p, content)
           items == ItemsAs(c, content)
<1>3. sound \in BOOLEAN
  BY DEF SoundAs
<1>4. ~CoherentAs(c, p, content) => Understood(c, p) = ParseError
  BY DEF Understood, RowsUnderstood, CitydataUnderstood, CoherentAs, MarkedAs
<1>5. CoherentAs(c, p, content) => Understood(c, p) = Delivered(p, result, content, sound, items)
  BY DEF Understood, RowsUnderstood, CitydataUnderstood, CoherentAs, MarkedAs, SoundAs, ItemsAs
<1> HIDE DEF sound, items
<1>6. ASSUME CoherentAs(c, p, content)
      PROVE  /\ result.code \notin {"INFO-000", "INFO-200"} => Understood(c, p) = UpstreamError(result)
             /\ result.code = "INFO-200" => Understood(c, p) = AnswerAs(p, result, content)
             /\ result.code = "INFO-000" /\ sound =>
                  Understood(c, p) = [AnswerAs(p, result, content) EXCEPT !.items = items]
             /\ result.code = "INFO-000" /\ ~sound => Understood(c, p) = ParseError
  BY <1>1, <1>2, <1>3, <1>5, <1>6
<1> QED BY <1>4, <1>6 DEF sound, items

-----------------------------------------------------------------------------
(* The refinement *)

(* What the refinement needs of a state. *)
RefinementInvariant ==
  /\ call \in Calls
  /\ at \in {"start", "sent", "reading", "read", "done"}
  /\ at \in {"start", "sent", "reading"} => seen = None
  /\ at # "done" => outcome = None
  /\ at \in {"sent", "reading", "read"} => ~Refused(call)
  /\ at \in {"reading", "read"} => response \in Answers
  /\ at = "read" =>
       seen = DocumentOf(call, ParsedAs(response.content, response.form), Secrets)

(* Envelope checks and bounds a call as PageRequest does. *)
LEMMA SameRequest ==
  /\ AbstractEnvelope!Refused(call) <=> Refused(call)
  /\ AbstractEnvelope!Limit(call) = Limit(call)
<1> USE DEF AbstractEnvelope!Api, Api, AbstractEnvelope!Subway, Subway, AbstractEnvelope!AllStations,
            AllStations, AbstractEnvelope!First, First, AbstractEnvelope!Last, Last,
            AbstractEnvelope!Paged, Paged
<1>1. AbstractEnvelope!Limit(call) = Limit(call)
  BY DEF AbstractEnvelope!Limit, Limit, AbstractEnvelope!PaginatedResponseLimit,
         PaginatedResponseLimit, AbstractEnvelope!EffectiveMaxItems, EffectiveMaxItems
<1>2. AbstractEnvelope!RangeRefused(call) <=> RangeRefused(call)
  BY DEF AbstractEnvelope!RangeRefused, RangeRefused, AbstractEnvelope!PageSize, PageSize
<1>3. AbstractEnvelope!Refused(call) <=> Refused(call)
  BY <1>2 DEF AbstractEnvelope!Refused, Refused, AbstractEnvelope!Formats, Formats,
         AbstractEnvelope!AllStationsRefused, AllStationsRefused,
         AbstractEnvelope!CitydataRefused, CitydataRefused
<1> QED BY <1>1, <1>3

(* A body read is a document, and None is none. *)
LEMMA SeenTyped ==
  ASSUME NEW c, NEW r \in Answers, NEW secrets \in SUBSET {Key}
  PROVE  LET parsed == ParsedAs(r.content, r.form) IN
         /\ DocumentOf(c, parsed, secrets) \in AnyDocument
         /\ DocumentOf(c, parsed, secrets) # None
         /\ parsed # None => /\ RedactValue(parsed, secrets) \in Values
                             /\ Is("object", RedactValue(parsed, secrets))
<1> DEFINE parsed == ParsedAs(r.content, r.form)
<1>1. parsed = None \/ (parsed \in Values /\ Is("object", parsed))
  <2>1. r.content \in Contents /\ r.form \in Forms
    BY DEF Answers
  <2> QED BY <2>1, ExchangeAssumption
<1>2. Unreadable \in AnyDocument
  BY DEF Unreadable, AnyDocument, Consistent, ContentOf, Names, Parts
<1>3. CASE parsed = None
  BY <1>2, <1>3, ExchangeAssumption DEF DocumentOf
<1>4. CASE parsed # None
  <2>1. RedactValue(parsed, secrets) \in Values /\ Is("object", RedactValue(parsed, secrets))
    BY <1>1, <1>4, RedactedObject, ExchangeAssumption
  <2> QED BY <1>4, <2>1, DocumentTyped, ExchangeAssumption DEF DocumentOf
<1> QED BY <1>3, <1>4

(* It is inductive. *)
LEMMA RefinementInvariantStep ==
  ASSUME RefinementInvariant, [Next]_vars
  PROVE  RefinementInvariant'
<1> USE DEF RefinementInvariant
<1>1. CASE UNCHANGED vars
  BY <1>1 DEF vars, Answers, Secrets
<1>2. ASSUME NEW result, End(result) PROVE RefinementInvariant'
  BY <1>2 DEF End
<1>3. CASE Refuse \/ TooLong \/ TurnedAway \/ Parse \/ \E r \in Answers : DeclaredTooLong(r)
  BY <1>2, <1>3 DEF Refuse, TooLong, TurnedAway, DeclaredTooLong, Parse
<1>4. CASE Ask
  BY <1>4 DEF Ask
<1>5. ASSUME NEW r \in Answers, Headers(r) PROVE RefinementInvariant'
  BY <1>5 DEF Headers, Answers
<1>6. CASE Piece
  BY <1>6 DEF Piece, Answers
<1>7. CASE EndOfBody
  <2>1. Secrets' = Secrets
    BY <1>7 DEF EndOfBody, Secrets
  <2> QED BY <1>7, <2>1 DEF EndOfBody, Answers
<1>8. CASE Interrupted
  BY <1>2, <1>8 DEF Interrupted
<1>9. CASE Assign
  BY <1>9 DEF Assign, Answers
<1> QED BY <1>1, <1>3, <1>4, <1>5, <1>6, <1>7, <1>8, <1>9 DEF Next

(* Envelope sees of an outcome. *)
Summary(o) ==
  [kind |-> o.kind, code |-> o.code, count |-> Len(o.items), cool |-> o.cool, retry |-> o.retry]

(* An error without a result counts no items, *)
LEMMA UpstreamRecord ==
  ASSUME NEW code, NEW cool, NEW retry, NEW o,
         o = [AbstractEnvelope!ParseError EXCEPT !.kind = "upstream", !.code = code,
                                                 !.cool = cool, !.retry = retry]
  PROVE  o = [kind |-> "upstream", code |-> code, count |-> 0, cool |-> cool, retry |-> retry]
BY DEF AbstractEnvelope!ParseError

(* and a result has a code and no error. *)
LEMMA DeliveredRecord ==
  ASSUME NEW count
  PROVE  AbstractEnvelope!Delivered(count) =
           [kind |-> "result", code |-> AbstractEnvelope!Code, count |-> count,
            cool |-> FALSE, retry |-> FALSE]
<1> DEFINE code == AbstractEnvelope!Code
<1>1. AbstractEnvelope!Delivered(count) =
        [AbstractEnvelope!ParseError EXCEPT !.kind = "result", !.code = code, !.count = count]
  BY DEF AbstractEnvelope!Delivered
<1> HIDE DEF code
<1>2. AbstractEnvelope!Delivered(count) =
        [kind |-> "result", code |-> code, count |-> count, cool |-> FALSE, retry |-> FALSE]
  BY <1>1 DEF AbstractEnvelope!ParseError
<1> QED BY <1>2 DEF code

(* What Envelope sees of an answer is the code and the number of items. *)
LEMMA AnswerSummary ==
  ASSUME NEW p, NEW result, NEW content, NEW items
  PROVE  Summary([AnswerAs(p, result, content) EXCEPT !.items = items]) =
           [kind |-> "result", code |-> result.code, count |-> Len(items),
            cool |-> FALSE, retry |-> FALSE]
<1> DEFINE code == result.code
           message == result.message
           total == ListTotalCount(p, content)
           o == [AnswerAs(p, result, content) EXCEPT !.items = items]
<1>1. o = [[ParseError EXCEPT !.kind = "result", !.code = code, !.message = message,
                              !.payload = p, !.total = total] EXCEPT !.items = items]
  BY DEF AnswerAs
<1>2. Summary(o) = [kind |-> o.kind, code |-> o.code, count |-> Len(o.items),
                    cool |-> o.cool, retry |-> o.retry]
  BY DEF Summary
<1> HIDE DEF code, message, total, o
<1>3. /\ o.kind = "result" /\ o.code = code /\ o.items = items
      /\ o.cool = FALSE /\ o.retry = FALSE
  BY <1>1 DEF ParseError
<1>4. Summary(o) = [kind |-> "result", code |-> code, count |-> Len(items),
                    cool |-> FALSE, retry |-> FALSE]
  BY <1>2, <1>3
<1> QED BY <1>4 DEF o, code

(* An object is understood as Envelope says of the document it amounts to. *)
LEMMA UnderstoodAsEnvelope ==
  ASSUME NEW p \in Values, Is("object", p), call \in CallShape, ~Refused(call),
         seen = Document(call, p), concluded = None, seen # None,
         concluded' = Summary(Understood(call, p)), UNCHANGED <<call, seen>>
  PROVE  AbstractEnvelope!Parse
<1> DEFINE content == Unwrap(p, Target(call))
           result == ExtractResult(p, content)
           rows == ExtractRows(content, Limit(call))
           o == Understood(call, p)
<1>0. content = Unwrap(p, Target(call)) /\ result = ExtractResult(p, content) /\ o = Understood(call, p)
      /\ rows = ExtractRows(content, Limit(call))
  OBVIOUS
<1> HIDE DEF content, result, rows, o
<1>1. content \in Values /\ Is("object", content)
  BY <1>0, ContentIsObject
<1>2. AbstractEnvelope!Code = result.code
  BY <1>0, CodesAgree
<1>3. /\ AbstractEnvelope!ForRows <=> ForRows(call)
      /\ AbstractEnvelope!Marked <=> MarkedAs(call, p, content)
      /\ AbstractEnvelope!HasDataMarker <=> HasDataMarker(p, content)
  BY <1>0, MarksAgree DEF MarkedAs
<1>4. seen.rows = RowsOf(call, content)
  BY <1>0, DocumentFields
<1>5. seen.named <=> NamedIn(call, content)
  BY <1>0, DocumentFields
<1>6. seen.quota <=> result.message \in QuotaWords
  BY <1>0, DocumentFields
<1>7. /\ AbstractEnvelope!RowsFit <=> rows # None
      /\ rows # None => /\ RowsGiven(content) = rows /\ rows \in Seq(Values)
                        /\ Len(rows) = AbstractEnvelope!RowCount
  <2>1. AbstractEnvelope!RowsFit <=>
          (seen.rows # None => seen.rows # Malformed /\ seen.rows <= Limit(call))
    BY SameRequest DEF AbstractEnvelope!RowsFit, AbstractEnvelope!Malformed, Malformed
  <2>2. AbstractEnvelope!RowCount = IF seen.rows = None THEN 0 ELSE seen.rows
    BY DEF AbstractEnvelope!RowCount
  <2> QED BY <1>0, <1>1, <1>4, <2>1, <2>2, RowsAgree
<1>8. AbstractEnvelope!Coherent <=> CoherentAs(call, p, content)
  BY <1>0, <1>2, <1>3, <1>7 DEF AbstractEnvelope!Coherent, AbstractEnvelope!Readable, CoherentAs
<1>9. AbstractEnvelope!Coherent => (AbstractEnvelope!Sufficient <=> SoundAs(call, p, content))
  <2> SUFFICES ASSUME AbstractEnvelope!Coherent
               PROVE  AbstractEnvelope!Sufficient <=> SoundAs(call, p, content)
    OBVIOUS
  <2>1. CASE ForRows(call)
    <3>1. rows # None
      BY <1>3, <1>7, <2>1 DEF AbstractEnvelope!Coherent
    <3>2. SoundAs(call, p, content) <=>
            HasDataMarker(p, content) /\ \A i \in DOMAIN rows : Identified(rows[i], Target(call))
      BY <1>0, <2>1 DEF SoundAs
    <3>3. seen.named <=> \A i \in DOMAIN rows : Identified(rows[i], Target(call))
      BY <1>5, <1>7, <2>1, <3>1 DEF NamedIn
    <3>4. AbstractEnvelope!Sufficient <=> HasDataMarker(p, content) /\ (Len(rows) > 0 => seen.named)
      BY <1>3, <1>7, <2>1, <3>1 DEF AbstractEnvelope!Sufficient
    <3>5. rows \in Seq(Values)
      BY <1>7, <3>1
    <3>6. Len(rows) > 0 \/ DOMAIN rows = {}
      BY <3>5
    <3> QED BY <3>2, <3>3, <3>4, <3>6
  <2>2. CASE ~ForRows(call)
    BY <1>3, <1>5, <2>2 DEF AbstractEnvelope!Sufficient, SoundAs, NamedIn
  <2> QED BY <2>1, <2>2
<1>10. AbstractEnvelope!QuotaError <=> IsUpstreamQuotaError(result.code, result.message)
  BY <1>2, <1>6 DEF AbstractEnvelope!QuotaError, IsUpstreamQuotaError
<1>11. CASE ~CoherentAs(call, p, content)
  <2>1. o = ParseError
    BY <1>0, <1>11, UnderstoodCases
  <2>2. concluded' = AbstractEnvelope!ParseError
    BY <1>0, <2>1 DEF Summary, ParseError, AbstractEnvelope!ParseError
  <2>3. AbstractEnvelope!Conclude(AbstractEnvelope!ParseError)
    BY <2>2 DEF AbstractEnvelope!Conclude
  <2> QED BY <1>8, <1>11, <2>3 DEF AbstractEnvelope!Parse, AbstractEnvelope!NoEnvelope,
        AbstractEnvelope!BadRows, AbstractEnvelope!Coherent
<1>12. CASE CoherentAs(call, p, content) /\ result.code \notin {"INFO-000", "INFO-200"}
  <2> DEFINE quota == IsUpstreamQuotaError(result.code, result.message)
             again == result.code \in Transient /\ ~quota
             cool  == AbstractEnvelope!QuotaError
             retry == AbstractEnvelope!Code \in AbstractEnvelope!Transient /\ ~cool
  <2>1. o = [ParseError EXCEPT !.kind = "upstream", !.code = result.code, !.message = result.message,
                               !.cool = quota, !.retry = again]
    <3>1. o = UpstreamError(result)
      BY <1>0, <1>12, UnderstoodCases
    <3> QED BY <3>1 DEF UpstreamError
  <2>2. cool = quota
    BY <1>10 DEF AbstractEnvelope!QuotaError, IsUpstreamQuotaError
  <2>3. retry = again
    <3>1. AbstractEnvelope!Transient = Transient
      BY DEF AbstractEnvelope!Transient, Transient
    <3> QED BY <1>2, <2>2, <3>1
  <2> HIDE DEF quota, again, cool, retry
  <2>5. concluded' = [kind |-> "upstream", code |-> result.code, count |-> 0,
                      cool |-> quota, retry |-> again]
    BY <1>0, <2>1 DEF Summary, ParseError
  <2> DEFINE error == [AbstractEnvelope!ParseError EXCEPT
                         !.kind = "upstream", !.code = AbstractEnvelope!Code,
                         !.cool = cool, !.retry = retry]
  <2>7. error = [AbstractEnvelope!ParseError EXCEPT
                         !.kind = "upstream", !.code = AbstractEnvelope!Code,
                         !.cool = cool, !.retry = retry]
    OBVIOUS
  <2> HIDE DEF error
  <2>8. error = [kind |-> "upstream", code |-> AbstractEnvelope!Code, count |-> 0,
                 cool |-> cool, retry |-> retry]
    BY <2>7, UpstreamRecord
  <2>6. concluded' = error
    BY <1>2, <2>2, <2>3, <2>5, <2>8
  <2>4. AbstractEnvelope!UpstreamError
    BY <1>2, <1>8, <1>12, <2>6 DEF error, cool, retry, AbstractEnvelope!UpstreamError, AbstractEnvelope!Info,
         AbstractEnvelope!Conclude
  <2> QED BY <2>4 DEF AbstractEnvelope!Parse
<1>13. CASE CoherentAs(call, p, content) /\ result.code = "INFO-200"
  <2>1. o = AnswerAs(p, result, content)
    BY <1>0, <1>13, UnderstoodCases
  <2>2. concluded' = [kind |-> "result", code |-> result.code, count |-> 0, cool |-> FALSE, retry |-> FALSE]
    BY <1>0, <2>1 DEF Summary, AnswerAs, ParseError
  <2>4. concluded' = AbstractEnvelope!Delivered(0)
    BY <1>2, <2>2, DeliveredRecord
  <2>3. AbstractEnvelope!NoData
    BY <1>2, <1>8, <1>13, <2>4 DEF AbstractEnvelope!NoData, AbstractEnvelope!Conclude
  <2> QED BY <2>3 DEF AbstractEnvelope!Parse
<1>14. CASE CoherentAs(call, p, content) /\ result.code = "INFO-000" /\ SoundAs(call, p, content)
  <2> DEFINE items == ItemsAs(call, content)
             count == IF ForRows(call) THEN AbstractEnvelope!RowCount ELSE 1
  <2>1. o = [AnswerAs(p, result, content) EXCEPT !.items = items]
    BY <1>0, <1>14, UnderstoodCases
  <2>2. Len(items) = count
    <3>1. CASE ForRows(call)
      <4>1. rows \in Seq(Values) /\ Len(rows) = AbstractEnvelope!RowCount
        BY <1>0, <1>7, <1>14, <3>1 DEF CoherentAs
      <4>2. items = [i \in DOMAIN rows |-> Typed(rows[i], Target(call))]
        BY <1>0, <3>1 DEF ItemsAs
      <4>3. Len(items) = Len(rows)
        BY <4>1, <4>2
      <4> QED BY <3>1, <4>1, <4>3
    <3>2. CASE ~ForRows(call)
      BY <3>2 DEF ItemsAs
    <3> QED BY <3>1, <3>2
  <2> HIDE DEF items, count
  <2>3. concluded' = [kind |-> "result", code |-> result.code, count |-> count,
                      cool |-> FALSE, retry |-> FALSE]
    BY <1>0, <2>1, <2>2, AnswerSummary
  <2>4. count = IF AbstractEnvelope!ForRows THEN AbstractEnvelope!RowCount ELSE 1
    BY <1>3 DEF count
  <2>5. concluded' = AbstractEnvelope!Delivered(count)
    BY <1>2, <2>3, DeliveredRecord
  <2>6. AbstractEnvelope!Data
    BY <1>2, <1>8, <1>9, <1>14, <2>4, <2>5 DEF AbstractEnvelope!Data, AbstractEnvelope!Conclude
  <2> QED BY <2>6 DEF AbstractEnvelope!Parse
<1>15. CASE CoherentAs(call, p, content) /\ result.code = "INFO-000" /\ ~SoundAs(call, p, content)
  <2>1. o = ParseError
    BY <1>0, <1>15, UnderstoodCases
  <2>2. concluded' = AbstractEnvelope!ParseError
    BY <1>0, <2>1 DEF Summary, ParseError, AbstractEnvelope!ParseError
  <2>3. AbstractEnvelope!Insufficient
    BY <1>2, <1>8, <1>9, <1>15, <2>2 DEF AbstractEnvelope!Insufficient, AbstractEnvelope!Conclude
  <2> QED BY <2>3 DEF AbstractEnvelope!Parse
<1> QED BY <1>11, <1>12, <1>13, <1>14, <1>15

(* An outcome is one that Envelope knows, unless the body was not had. *)
LEMMA KindOfUnderstanding ==
  ASSUME NEW c, NEW parsed, NEW secrets
  PROVE  Understanding(c, parsed, secrets).kind \in {"unparsable", "upstream", "result"}
<1> DEFINE p == RedactValue(parsed, secrets)
           content == Unwrap(p, Target(c))
           result == ExtractResult(p, content)
<1>0. content = Unwrap(p, Target(c)) /\ result = ExtractResult(p, content)
  OBVIOUS
<1>1. ParseError.kind = "unparsable"
  BY DEF ParseError
<1>2. UpstreamError(result).kind = "upstream"
  BY DEF UpstreamError, ParseError
<1>3. /\ AnswerAs(p, result, content).kind = "result"
      /\ \A items : [AnswerAs(p, result, content) EXCEPT !.items = items].kind = "result"
  BY DEF AnswerAs, ParseError
<1>4. Understanding(c, parsed, secrets) = IF parsed = None THEN ParseError ELSE Understood(c, p)
  BY DEF Understanding
<1>5. \/ Understood(c, p) = ParseError
      \/ Understood(c, p) = UpstreamError(result)
      \/ Understood(c, p) = AnswerAs(p, result, content)
      \/ Understood(c, p) = [AnswerAs(p, result, content) EXCEPT !.items = ItemsAs(c, content)]
  <2> HIDE DEF p, content, result
  <2> QED BY <1>0, UnderstoodCases
<1> HIDE DEF p, content, result
<1> QED BY <1>1, <1>2, <1>3, <1>4, <1>5

(* Reading the body and understanding it is a step of Envelope. *)
LEMMA ParseRefines ==
  ASSUME RefinementInvariant, Parse
  PROVE  AbstractEnvelope!Parse
<1> DEFINE parsed == ParsedAs(response.content, response.form)
           o == Understanding(call, parsed, Secrets)
<1>1. /\ at = "read" /\ at' = "done" /\ outcome' = o /\ UNCHANGED <<call, seen>>
      /\ response \in Answers /\ call \in CallShape /\ ~Refused(call)
      /\ seen = DocumentOf(call, parsed, Secrets)
  BY ExchangeAssumption DEF Parse, End, RefinementInvariant
<1>2. concluded = None
  BY <1>1 DEF concluded
<1>3. Secrets \in SUBSET {Key}
  BY DEF Secrets
<1>4. /\ seen # None
      /\ parsed # None => /\ RedactValue(parsed, Secrets) \in Values
                          /\ Is("object", RedactValue(parsed, Secrets))
  BY <1>1, <1>3, SeenTyped
<1>5. o.kind \in {"unparsable", "upstream", "result"}
  BY KindOfUnderstanding
<1> HIDE DEF parsed, o
<1>6. concluded' = Summary(o)
  BY <1>1, <1>5 DEF concluded, Summary
<1>7. CASE parsed = None
  <2>1. o = ParseError
    BY <1>7 DEF o, Understanding
  <2>2. concluded' = AbstractEnvelope!ParseError
    BY <1>6, <2>1 DEF Summary, ParseError, AbstractEnvelope!ParseError
  <2>3. seen.wrap = "unreadable"
    BY <1>1, <1>7 DEF DocumentOf, Unreadable
  <2>4. AbstractEnvelope!NoEnvelope
    BY <1>1, <2>2, <2>3 DEF AbstractEnvelope!NoEnvelope, AbstractEnvelope!Conclude,
       AbstractEnvelope!Readable, AbstractEnvelope!Marked
  <2> QED BY <1>2, <1>4, <2>4 DEF AbstractEnvelope!Parse
<1>8. CASE parsed # None
  <2> DEFINE p == RedactValue(parsed, Secrets)
  <2>1. o = Understood(call, p)
    BY <1>8 DEF o, Understanding
  <2>2. seen = Document(call, p)
    BY <1>1, <1>8 DEF DocumentOf
  <2>3. p \in Values /\ Is("object", p)
    BY <1>4, <1>8
  <2> HIDE DEF p
  <2> QED BY <1>1, <1>2, <1>4, <1>6, <2>1, <2>2, <2>3, UnderstoodAsEnvelope
<1> QED BY <1>7, <1>8

(* Every step is one of Envelope, or none. *)
LEMMA StepRefines ==
  ASSUME RefinementInvariant, [Next]_vars
  PROVE  [AbstractEnvelope!Next]_(AbstractEnvelope!vars)
<1> USE DEF AbstractEnvelope!vars
<1>1. CASE UNCHANGED vars
  BY <1>1 DEF vars, concluded
<1>2. ASSUME at # "done", End(Failure("http")) PROVE UNCHANGED AbstractEnvelope!vars
  BY <1>2 DEF End, Failure, ParseError, concluded
<1>3. CASE TooLong \/ TurnedAway \/ (\E r \in Answers : DeclaredTooLong(r))
  BY <1>2, <1>3 DEF TooLong, TurnedAway, DeclaredTooLong
<1>4. CASE Refuse
  <2>1. at = "start" /\ at' = "done" /\ outcome' = Failure("refused") /\ UNCHANGED <<call, seen>>
        /\ Refused(call) /\ seen = None
    BY <1>4 DEF Refuse, End, RefinementInvariant
  <2>2. concluded = None
    BY <2>1 DEF concluded
  <2>3. concluded' = [kind |-> "refused", code |-> None, count |-> 0, cool |-> FALSE, retry |-> FALSE]
    BY <2>1 DEF concluded, Failure, ParseError
  <2>4. AbstractEnvelope!Refusal =
          [kind |-> "refused", code |-> None, count |-> 0, cool |-> FALSE, retry |-> FALSE]
    <3> DEFINE refusal == AbstractEnvelope!Refusal
    <3>1. refusal = [AbstractEnvelope!ParseError EXCEPT !.kind = "refused"]
      BY DEF AbstractEnvelope!Refusal
    <3> HIDE DEF refusal
    <3>2. refusal = [kind |-> "refused", code |-> None, count |-> 0, cool |-> FALSE, retry |-> FALSE]
      BY <3>1 DEF AbstractEnvelope!ParseError
    <3> QED BY <3>2 DEF refusal
  <2>5. AbstractEnvelope!Refuse
    BY <2>1, <2>2, <2>3, <2>4, SameRequest DEF AbstractEnvelope!Refuse, AbstractEnvelope!Conclude
  <2> QED BY <2>5 DEF AbstractEnvelope!Next
<1>5. CASE Ask \/ Piece \/ Assign \/ \E r \in Answers : Headers(r)
  BY <1>5 DEF Ask, Piece, Assign, Headers, concluded
<1>6. CASE Interrupted
  BY <1>2, <1>6 DEF Interrupted, concluded
<1>7. CASE EndOfBody
  <2>1. /\ at = "reading" /\ at' = "read" /\ UNCHANGED <<call, outcome>> /\ seen = None
        /\ seen' = DocumentOf(call, ParsedAs(response.content, response.form), Secrets)
        /\ response \in Answers /\ ~Refused(call)
    BY <1>7 DEF EndOfBody, RefinementInvariant
  <2>2. Secrets \in SUBSET {Key}
    BY DEF Secrets
  <2>3. seen' \in AnyDocument
    BY <2>1, <2>2, SeenTyped
  <2>4. concluded = None /\ concluded' = None
    BY <2>1 DEF concluded
  <2>5. AbstractEnvelope!Answer
    BY <2>1, <2>3, <2>4, SameRequest DEF AbstractEnvelope!Answer
  <2> QED BY <2>5 DEF AbstractEnvelope!Next
<1>8. CASE Parse
  BY <1>8, ParseRefines DEF AbstractEnvelope!Next
<1> QED BY <1>1, <1>3, <1>4, <1>5, <1>6, <1>7, <1>8 DEF Next

(* Parsers recognise on the values what Envelope says of their shape, in    *)
(* whatever answer, and however it was received.                           *)
THEOREM ExchangeImplementsEnvelope == Spec => ImplementsEnvelope
<1>1. Init => RefinementInvariant
  BY DEF Init, RefinementInvariant
<1>2. Init => AbstractEnvelope!Init
  BY DEF Init, AbstractEnvelope!Init, concluded
<1>3. RefinementInvariant /\ [Next]_vars => RefinementInvariant'
  BY RefinementInvariantStep
<1>4. RefinementInvariant /\ [Next]_vars => [AbstractEnvelope!Next]_(AbstractEnvelope!vars)
  BY StepRefines
<1> QED BY <1>1, <1>2, <1>3, <1>4, PTL DEF Spec, ImplementsEnvelope, AbstractEnvelope!Spec

-----------------------------------------------------------------------------
(* The key *)

(* A value, or none, in which the key is nowhere. *)
Clean(v) == v = Null \/ (v \in Values /\ Key \notin Words(v))

(* No text read from it is the key. *)
LEMMA CleanText ==
  ASSUME KeyIsText, NEW v, Clean(v)
  PROVE  TextOf(v) # Key
<1>1. v \in Values \cup {Null} /\ JsonValue(v) /\ None # Key
  BY ShapeOfValue, JsonValuesAssumption DEF Clean, KeyIsText
<1>2. TextOf(v) \in {None, Printed(v)}
  BY DEF TextOf
<1>3. CASE v = Null
  BY <1>1, <1>3, TextIsWord
<1>4. CASE DOMAIN v = {"text", "padded"}
  <2>1. Is("text", v) /\ v # Null
    BY <1>4 DEF Is, Null
  <2>2. TextOf(v) # None => TextOf(v) \in Words(v)
    <3>1. v \in Values
      BY <1>1, <2>1
    <3> QED BY <2>1, <3>1, TextIsWord, WordsEquation
  <2> QED BY <1>1, <2>1, <2>2 DEF Clean
<1>5. CASE DOMAIN v = {"number"}
  <2>1. ~Is("text", v) /\ Is("number", v) /\ ~Is("bool", v) /\ v # Null
    BY <1>5 DEF Is, Null
  <2> QED BY <1>1, <1>2, <2>1, PrintedKinds DEF KeyIsText
<1>6. CASE DOMAIN v = {"bool"}
  <2>1. ~Is("text", v) /\ ~Is("number", v) /\ Is("bool", v)
    BY <1>6 DEF Is
  <2> QED BY <1>1, <1>2, <2>1, PrintedKinds DEF KeyIsText
<1>7. CASE DOMAIN v = {"list"} \/ DOMAIN v = {"object"}
  <2>1. ~Is("text", v) /\ ~Is("number", v) /\ ~Is("bool", v)
    BY <1>7 DEF Is
  <2> QED BY <1>1, <1>2, <2>1, PrintedKinds DEF KeyIsText
<1> QED BY <1>1, <1>3, <1>4, <1>5, <1>6, <1>7 DEF JsonValue

(* What is found in a value without the key is without it, too. *)
LEMMA CleanParts ==
  ASSUME NEW v \in Values, Is("object", v), Clean(v)
  PROVE  /\ \A x \in Children(v) : Clean(x)
         /\ \A name : Clean(Value(v, name))
         /\ \A names : Clean(FirstValue(v, names))
<1>1. v # Null
  BY DEF Is, Null
<1>2. \A x \in Children(v) : Clean(x)
  BY <1>1, WordsOfParts DEF Clean
<1>3. Clean(Null)
  BY DEF Clean
<1> QED BY <1>2, <1>3, ValueIsPart, FirstValueIsPart

(* Nor is it in the result code and its message. *)
LEMMA CleanResult ==
  ASSUME KeyIsText, NEW p \in Values, Is("object", p), Clean(p),
         NEW content \in Values, Is("object", content), Clean(content)
  PROVE  ExtractResult(p, content).code # Key /\ ExtractResult(p, content).message # Key
<1> DEFINE results == <<MappingValue(content, "RESULT"), MappingValue(p, "RESULT"),
                        MappingValue(content, "errorMessage"), MappingValue(p, "errorMessage")>>
           coded == {i \in 1..4 : results[i] # None /\ TextValue(results[i], CodeNames) # None}
           first == results[Min(coded)]
           either(name) == Either(TextOf(Value(content, name)), TextOf(Value(p, name)))
           result == ExtractResult(p, content)
<1>1. \A name : either(name) # Key
  BY CleanParts, CleanText DEF Either
<1>2. CASE coded # {}
  <2>1. result = CodeAndMessage(TextValue(first, CodeNames), TextValue(first, MessageNames))
    BY <1>2 DEF ExtractResult
  <2>2. Min(coded) \in coded
    BY <1>2, MinOfPlaces
  <2>3. \A i \in 1..4 : results[i] # None => \E x \in {p, content} : \E name :
          results[i] = Value(x, name) /\ Is("object", Value(x, name))
    <3>1. \A x, name : MappingValue(x, name) # None =>
            MappingValue(x, name) = Value(x, name) /\ Is("object", Value(x, name))
      BY DEF MappingValue
    <3>2. \A i \in 1..4 : \E x \in {p, content} : \E name : results[i] = MappingValue(x, name)
      <4>1. /\ results[1] = MappingValue(content, "RESULT") /\ results[2] = MappingValue(p, "RESULT")
            /\ results[3] = MappingValue(content, "errorMessage")
            /\ results[4] = MappingValue(p, "errorMessage")
        OBVIOUS
      <4> HIDE DEF results
      <4> QED BY <4>1
    <3> HIDE DEF results
    <3> QED BY <3>1, <3>2
  <2>4. PICK x \in {p, content} : \E name : first = Value(x, name) /\ Is("object", first)
    <3> HIDE DEF results
    <3> QED BY <2>2, <2>3
  <2>5. Clean(first) /\ first \in Values
    <3>1. Clean(first)
      BY <2>4, CleanParts
    <3>2. ~Is("object", Null)
      BY DEF Is, Null
    <3> QED BY <2>4, <3>1, <3>2 DEF Clean
  <2> HIDE DEF first
  <2>6. \A names : TextValue(first, names) # Key
    BY <2>4, <2>5, CleanParts, CleanText DEF TextValue
  <2> QED BY <2>1, <2>6 DEF CodeAndMessage
<1>3. CASE coded = {} /\ either("RESULT.CODE") # None
  <2>1. result = CodeAndMessage(either("RESULT.CODE"), either("RESULT.MESSAGE"))
    BY <1>3 DEF ExtractResult
  <2> HIDE DEF either
  <2> QED BY <1>1, <2>1 DEF CodeAndMessage
<1>4. CASE coded = {} /\ either("RESULT.CODE") = None
  <2>1. result = CodeAndMessage(either("code"), either("message"))
    BY <1>4 DEF ExtractResult
  <2> HIDE DEF either
  <2> QED BY <1>1, <2>1 DEF CodeAndMessage
<1> QED BY <1>2, <1>3, <1>4

(* A field is of one type. *)
LEMMA TextFields ==
  ASSUME NEW service \in {"TrafficInfo", "realtimePosition", "realtimeStationArrival",
                          "GetParkingInfo", "GetParkInfo", "citydata"},
         NEW f \in Fields(service).text
  PROVE  /\ f \notin Fields(service).int /\ f \notin Fields(service).float
         /\ f \notin Fields(service).bool /\ f \notin Fields(service).moment
         /\ f \in UNION {Fields(service)[kind] : kind \in DOMAIN Fields(service)}
<1> DEFINE fields == Fields(service)
<1>1. CASE service = "TrafficInfo"
  <2>1. /\ fields.int = Each({"prcs_trv_time"})
        /\ fields.float = Each({"prcs_spd"})
        /\ fields.bool = {}
        /\ fields.moment = {}
        /\ "text" \in DOMAIN fields
    BY <1>1 DEF Fields, NoFields
  <2>2. fields.text = Each({"link_id"})
    BY <1>1 DEF Fields, NoFields
  <2> HIDE DEF fields
  <2>3. f \in fields.text
    BY DEF fields
  <2>4. /\ f \notin Each({"prcs_trv_time"})
        /\ f \notin Each({"prcs_spd"})
    BY <2>2, <2>3 DEF Each
  <2> QED BY <2>1, <2>3, <2>4 DEF fields
<1>2. CASE service = "realtimePosition"
  <2>1. /\ fields.int = {}
        /\ fields.float = {}
        /\ fields.bool = Each({"directAt", "lstcarAt"})
        /\ fields.moment = Each({"recptnDt"})
        /\ "text" \in DOMAIN fields
    BY <1>2 DEF Fields, NoFields
  <2>2. fields.text = Each({"subwayId", "subwayNm", "statnId", "statnNm", "trainNo",
                      "lastRecptnDt", "updnLine", "statnTid", "statnTnm", "trainSttus"})
    BY <1>2 DEF Fields, NoFields
  <2> HIDE DEF fields
  <2>3. f \in fields.text
    BY DEF fields
  <2>4. /\ f \notin Each({"directAt", "lstcarAt"})
        /\ f \notin Each({"recptnDt"})
    BY <2>2, <2>3 DEF Each
  <2> QED BY <2>1, <2>3, <2>4 DEF fields
<1>3. CASE service = "realtimeStationArrival"
  <2>1. /\ fields.int = Each({"barvlDt"})
        /\ fields.float = {}
        /\ fields.bool = Each({"lstcarAt"})
        /\ fields.moment = Each({"recptnDt"})
        /\ "text" \in DOMAIN fields
    BY <1>3 DEF Fields, NoFields
  <2>2. fields.text = Each({"subwayId", "subwayNm", "updnLine", "trainLineNm", "statnId",
                      "statnNm", "statnFid", "statnTid", "arvlMsg2", "arvlMsg3", "arvlCd"})
                      \cup {<<"bstatnNm", "statnTnm">>, <<"btrainNo", "trainNo">>,
                      <<"arvlMsg1", "arvlMsg2">>}
    BY <1>3 DEF Fields, NoFields
  <2> HIDE DEF fields
  <2>3. f \in fields.text
    BY DEF fields
  <2>4. /\ f \notin Each({"barvlDt"})
        /\ f \notin Each({"lstcarAt"})
        /\ f \notin Each({"recptnDt"})
    BY <2>2, <2>3 DEF Each
  <2> QED BY <2>1, <2>3, <2>4 DEF fields
<1>4. CASE service = "GetParkingInfo"
  <2>1. /\ fields.int = Each({"TPKCT", "NOW_PRK_VHCL_CNT"})
        /\ fields.float = {<<"LAT", "Y">>, <<"LNG", "X">>}
        /\ fields.bool = {}
        /\ fields.moment = {}
        /\ "text" \in DOMAIN fields
    BY <1>4 DEF Fields, NoFields
  <2>2. fields.text = Each({"PKLT_CD", "PKLT_NM", "ADDR", "NOW_PRK_VHCL_UPDT_TM"})
    BY <1>4 DEF Fields, NoFields
  <2> HIDE DEF fields
  <2>3. f \in fields.text
    BY DEF fields
  <2>4. /\ f \notin Each({"TPKCT", "NOW_PRK_VHCL_CNT"})
        /\ f \notin {<<"LAT", "Y">>, <<"LNG", "X">>}
    BY <2>2, <2>3 DEF Each
  <2> QED BY <2>1, <2>3, <2>4 DEF fields
<1>5. CASE service = "GetParkInfo"
  <2>1. /\ fields.int = Each({"TPKCT"})
        /\ fields.float = {<<"LAT">>, <<"LNG", "LOT">>}
        /\ fields.bool = {}
        /\ fields.moment = {}
        /\ "text" \in DOMAIN fields
    BY <1>5 DEF Fields, NoFields
  <2>2. fields.text = Each({"PKLT_CD", "PKLT_NM", "ADDR", "LAST_DATA_SYNC_TM"}) \cup
                      {<<"OPRT_STTS", "OPRT_TYPE", "OPER_SE_NM">>, <<"WD_OPR_STRT_TM",
                      "WD_OPER_BGNG_TM">>, <<"WD_OPR_END_TM", "WD_OPER_END_TM">>,
                      <<"SAT_OPR_STRT_TM", "WE_OPER_BGNG_TM">>, <<"SAT_OPR_END_TM",
                      "WE_OPER_END_TM">>, <<"LH_OPR_STRT_TM", "LHLDY_OPER_BGNG_TM",
                      "LHLDY_BGNG", "holiday_open_time">>, <<"LH_OPR_END_TM",
                      "LHLDY_OPER_END_TM", "LHLDY", "holiday_close_time">>}
    BY <1>5 DEF Fields, NoFields
  <2> HIDE DEF fields
  <2>3. f \in fields.text
    BY DEF fields
  <2>4. /\ f \notin Each({"TPKCT"})
        /\ f \notin {<<"LAT">>, <<"LNG", "LOT">>}
    BY <2>2, <2>3 DEF Each
  <2> QED BY <2>1, <2>3, <2>4 DEF fields
<1>6. CASE service = "citydata"
  <2>1. /\ fields.int = {}
        /\ fields.float = {}
        /\ fields.bool = {}
        /\ fields.moment = {}
        /\ "text" \in DOMAIN fields
    BY <1>6 DEF Fields, NoFields
  <2>2. fields.text = Each({"AREA_NM", "AREA_CD", "AREA_CONGEST_MSG"}) \cup
                      {<<"AREA_CONGEST_LV", "AREA_CONGEST_LVL">>}
    BY <1>6 DEF Fields, NoFields
  <2> HIDE DEF fields
  <2>3. f \in fields.text
    BY DEF fields
  <2> QED BY <2>1, <2>3 DEF fields
<1> QED BY <1>1, <1>2, <1>3, <1>4, <1>5, <1>6

(* The services with typed items. *)
ServiceNames == {"TrafficInfo", "realtimePosition", "realtimeStationArrival",
                 "GetParkingInfo", "GetParkInfo", "citydata"}

(* A text field is the text of what is found under its names. *)
LEMMA TypedText ==
  ASSUME NEW row, NEW service \in ServiceNames, NEW f \in Fields(service).text
  PROVE  f \in DOMAIN Typed(row, service) /\ Typed(row, service)[f] = TextOf(FirstValue(row, f))
<1> DEFINE fields == Fields(service)
<1>1. /\ f \notin fields.int /\ f \notin fields.float /\ f \notin fields.bool /\ f \notin fields.moment
      /\ f \in UNION {fields[kind] : kind \in DOMAIN fields}
  BY TextFields DEF ServiceNames
<1>2. f \in fields.text
  OBVIOUS
<1>3. Typed(row, service) =
        [g \in UNION {fields[kind] : kind \in DOMAIN fields} |->
           CASE g \in fields.text   -> TextOf(FirstValue(row, g))
             [] g \in fields.int    -> IntOf(FirstValue(row, g))
             [] g \in fields.float  -> FloatOf(FirstValue(row, g))
             [] g \in fields.bool   -> BoolOf(FirstValue(row, g))
             [] g \in fields.moment -> DatetimeOf(FirstValue(row, g))]
  BY DEF Typed
<1> HIDE DEF fields
<1> QED BY <1>1, <1>2, <1>3

(* No text field of a row without the key is the key. *)
LEMMA CleanTyped ==
  ASSUME KeyIsText, NEW row \in Values, Is("object", row), Clean(row),
         NEW service \in ServiceNames, NEW f \in Fields(service).text
  PROVE  Typed(row, service)[f] # Key
BY TypedText, CleanParts, CleanText

(* The fields of citydata, and those of its population block. *)
LEMMA CleanCityData ==
  ASSUME KeyIsText, NEW data \in Values, Is("object", data), Clean(data),
         NEW f \in Fields("citydata").text
  PROVE  CityData(data)[f] # Key
<1> DEFINE live == LivePopulation(data)
           stts == Value(data, "LIVE_PPLTN_STTS")
<1>1. Clean(stts) /\ (Is("object", stts) \/ Is("list", stts) => stts \in Values)
  <2>1. Clean(stts)
    BY CleanParts
  <2>2. ~Is("object", Null) /\ ~Is("list", Null)
    BY DEF Is, Null
  <2> QED BY <2>1, <2>2 DEF Clean
<1>2. Typed(live, "citydata")[f] # Key
  <2>1. CASE Is("object", stts)
    <3>1. ~Is("list", stts)
      BY <1>1, <2>1, ShapeOfValue DEF Is
    <3>2. live = stts
      BY <2>1, <3>1 DEF LivePopulation
    <3> HIDE DEF live, stts
    <3> QED BY <1>1, <2>1, <3>2, CleanTyped DEF ServiceNames
  <2>2. CASE ~Is("object", stts) /\ Is("list", stts) /\ stts.list # <<>> /\ Is("object", Head(stts.list))
    <3>1. live = Head(stts.list)
      BY <2>2 DEF LivePopulation
    <3>2. stts.list \in Seq(Values) /\ Children(stts) = {stts.list[i] : i \in DOMAIN stts.list}
      BY <1>1, <2>2, ShapeOfValue
    <3> HIDE DEF live, stts
    <3>3. live = stts.list[1] /\ 1 \in DOMAIN stts.list /\ Is("object", live)
      BY <2>2, <3>1, <3>2
    <3>4. live \in Children(stts)
      BY <3>2, <3>3
    <3>5. stts # Null
      BY <2>2 DEF Is, Null
    <3>6. live \in Values /\ Clean(live)
      BY <1>1, <2>2, <3>4, <3>5, WordsOfParts DEF Clean
    <3> QED BY <3>3, <3>6, CleanTyped DEF ServiceNames
  <2>3. CASE ~Is("object", stts) /\ ~(Is("list", stts) /\ stts.list # <<>> /\ Is("object", Head(stts.list)))
    <3>1. live = Object(<<>>)
      BY <2>3 DEF LivePopulation
    <3>2. FirstValue(live, f) = Null
      BY <3>1 DEF FirstValue, Spelled, Object
    <3>3. Clean(Null)
      BY DEF Clean
    <3> HIDE DEF live, stts
    <3> QED BY <3>2, <3>3, CleanText, TypedText DEF ServiceNames
  <2> QED BY <2>1, <2>2, <2>3
<1>3. Typed(data, "citydata")[f] # Key /\ f \in DOMAIN Typed(data, "citydata")
  BY CleanTyped, TypedText DEF ServiceNames
<1> HIDE DEF live
<1> QED BY <1>2, <1>3 DEF CityData, Either, live

(* What a clean payload is understood as is clean. *)
EchoFree(c, o) ==
  /\ Key \notin {o.code, o.message}
  /\ \A i \in DOMAIN o.items, f \in Fields(Target(c)).text : o.items[i][f] # Key
  /\ o.payload # None => Key \notin Words(o.payload)

(* Nor is one of any item. *)
LEMMA CleanItems ==
  ASSUME KeyIsText, NEW c \in CallShape, ~Refused(c), NEW content \in Values,
         Is("object", content), Clean(content),
         ForRows(c) => ExtractRows(content, Limit(c)) # None,
         NEW i \in DOMAIN ItemsAs(c, content), NEW f \in Fields(Target(c)).text
  PROVE  ItemsAs(c, content)[i][f] # Key
<1> DEFINE rows == ExtractRows(content, Limit(c))
<1>1. content # Null /\ Target(c) \in ServiceNames
  <2>1. content # Null
    BY DEF Is, Null
  <2> QED BY <2>1 DEF ServiceNames, CallShape, Services, General, Subway, Target, AllStations
<1>2. CASE ForRows(c)
  <2>1. RowsGiven(content) = rows /\ rows # None /\ rows \in Seq(Values)
    BY <1>2, RowsAgree
  <2>2. ItemsAs(c, content) = [k \in DOMAIN rows |-> Typed(rows[k], Target(c))]
    BY <1>2 DEF ItemsAs
  <2> HIDE DEF rows
  <2>3. /\ i \in DOMAIN rows /\ rows[i] \in Values
        /\ ItemsAs(c, content)[i] = Typed(rows[i], Target(c))
    BY <2>1, <2>2
  <2>4. Is("object", rows[i]) /\ Words(rows[i]) \subseteq Words(content)
    BY <2>1, <2>3, RowsGivenShape
  <2>5. Clean(rows[i])
    BY <1>1, <2>3, <2>4 DEF Clean
  <2> QED BY <1>1, <2>3, <2>4, <2>5, CleanTyped
<1>3. CASE ~ForRows(c)
  <2>1. ItemsAs(c, content) = <<CityData(content)>> /\ Target(c) = "citydata"
    BY <1>3 DEF ItemsAs, ForRows, Target, AllStations
  <2>2. ItemsAs(c, content)[i] = CityData(content)
    BY <2>1
  <2> QED BY <2>1, <2>2, CleanCityData
<1> QED BY <1>2, <1>3

(* So is the outcome. *)
LEMMA CleanOutcome ==
  ASSUME KeyIsText, NEW c \in CallShape, ~Refused(c), NEW p \in Values, Is("object", p), Clean(p)
  PROVE  EchoFree(c, Understood(c, p))
<1> DEFINE content == Unwrap(p, Target(c))
           result == ExtractResult(p, content)
           total == ListTotalCount(p, content)
           o == Understood(c, p)
<1>0. content = Unwrap(p, Target(c)) /\ result = ExtractResult(p, content) /\ o = Understood(c, p)
  OBVIOUS
<1>1. content \in Values /\ Is("object", content) /\ Clean(content)
  BY ContentIsObject, CleanParts
<1>2. result.code # Key /\ result.message # Key
  BY <1>1, CleanResult
<1>3. Key # None /\ p # Null
  <2>1. p # Null
    BY DEF Is, Null
  <2> QED BY <2>1, JsonValuesAssumption DEF KeyIsText
<1> HIDE DEF content, result, o
<1>4. CASE o = ParseError
  BY <1>3, <1>4 DEF EchoFree, ParseError, o
<1>5. CASE o = UpstreamError(result)
  BY <1>0, <1>2, <1>3, <1>5 DEF EchoFree, ParseError, UpstreamError
<1>6. CASE o = AnswerAs(p, result, content)
  BY <1>0, <1>2, <1>3, <1>6 DEF EchoFree, ParseError, AnswerAs, Clean
<1>7. CASE CoherentAs(c, p, content) /\ o = [AnswerAs(p, result, content) EXCEPT !.items = ItemsAs(c, content)]
  <2>1. o.code = result.code /\ o.message = result.message /\ o.items = ItemsAs(c, content) /\ o.payload = p
    BY <1>7 DEF AnswerAs, ParseError
  <2>2. \A i \in DOMAIN o.items, f \in Fields(Target(c)).text : o.items[i][f] # Key
    BY <1>1, <1>7, <2>1, CleanItems DEF CoherentAs
  <2> QED BY <1>0, <1>2, <1>3, <2>1, <2>2 DEF EchoFree, Clean
<1> QED BY <1>0, <1>4, <1>5, <1>6, <1>7, UnderstoodCases

(* A key echoed by the provider in whatever place of an answer is in no    *)
(* result and no error, unless it was replaced during the request.         *)
THEOREM NothingEverEchoed == KeyIsText => (Spec => []NothingEchoed)
<1> SUFFICES ASSUME KeyIsText PROVE Spec => []NothingEchoed
  OBVIOUS
<1>1. Init => RefinementInvariant /\ NothingEchoed
  BY DEF Init, RefinementInvariant, NothingEchoed, Parsed
<1>2. RefinementInvariant /\ NothingEchoed /\ [Next]_vars => RefinementInvariant' /\ NothingEchoed'
  <2> SUFFICES ASSUME RefinementInvariant, NothingEchoed, [Next]_vars PROVE NothingEchoed'
    BY RefinementInvariantStep
  <2>1. CASE UNCHANGED vars
    BY <2>1 DEF vars, NothingEchoed, Parsed
  <2>2. ASSUME NEW kind \in {"refused", "http"}, End(Failure(kind)) PROVE NothingEchoed'
    BY <2>2 DEF End, Failure, ParseError, NothingEchoed, Parsed
  <2>3. CASE Refuse \/ TooLong \/ TurnedAway \/ (\E r \in Answers : DeclaredTooLong(r))
    BY <2>2, <2>3 DEF Refuse, TooLong, TurnedAway, DeclaredTooLong
  <2>4. CASE Ask \/ Piece \/ EndOfBody \/ Assign \/ \E r \in Answers : Headers(r)
    BY <2>4 DEF Ask, Piece, EndOfBody, Assign, Headers, NothingEchoed, Parsed
  <2>5. CASE Interrupted
    BY <2>2, <2>5 DEF Interrupted, NothingEchoed, Parsed
  <2>6. CASE Parse
    <3> SUFFICES ASSUME ~replaced PROVE EchoFree(call, outcome)'
      BY <2>6 DEF Parse, End, NothingEchoed, EchoFree
    <3> DEFINE parsed == ParsedAs(response.content, response.form)
               p == RedactValue(parsed, {Key})
    <3>1. /\ outcome' = Understanding(call, parsed, {Key}) /\ call' = call
          /\ call \in CallShape /\ ~Refused(call) /\ response \in Answers
      BY <2>6, ExchangeAssumption DEF Parse, End, Secrets, RefinementInvariant
    <3>2. Key # None /\ Key # Redacted
      BY JsonValuesAssumption DEF KeyIsText
    <3> SUFFICES EchoFree(call, outcome')
      BY <3>1 DEF EchoFree
    <3>3. CASE parsed = None
      BY <3>1, <3>2, <3>3 DEF Understanding, ParseError, EchoFree
    <3>4. CASE parsed # None
      <4>1. p \in Values /\ Is("object", p)
        BY <3>1, <3>4, SeenTyped
      <4>2. parsed \in Values
        BY <3>1, <3>4, ExchangeAssumption DEF Answers
      <4>3. Clean(p)
        BY <3>2, <4>1, <4>2, RedactedWords DEF Clean
      <4>4. outcome' = Understood(call, p)
        BY <3>1, <3>4 DEF Understanding
      <4> QED BY <3>1, <4>1, <4>3, <4>4, CleanOutcome
    <3> QED BY <3>3, <3>4
  <2> QED BY <2>1, <2>3, <2>4, <2>5, <2>6 DEF Next
<1> QED BY <1>1, <1>2, PTL DEF Spec
=============================================================================
