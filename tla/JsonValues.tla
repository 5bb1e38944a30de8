----------------------------- MODULE JsonValues -----------------------------
(***************************************************************************)
(* Values as json.loads gives them, their redaction (redaction.py), and    *)
(* what is read from them: the lookup and the conversions of               *)
(* parsers/common.py.                                                      *)
(*                                                                         *)
(* A value has one field that says its kind: text (and whether it is       *)
(* padded with blanks), number (the text Python prints for it), bool,      *)
(* null, object (a sequence of names and values) or list.  Texts and names *)
(* are words of a small set.                                               *)
(***************************************************************************)
EXTENDS Python, Integers, Sequences, FiniteSetsExt

CONSTANTS
  Values,    \* the values there are, with all the values they are made of
  Depth,     \* how deep each of them is nested
  Synonyms,  \* sets of names that differ in case and punctuation only
  Numeral,   \* the words that are numbers, as tenths
  Moment,    \* the words that are dates in one of the formats
  Truths,    \* the words for true
  Redacted   \* what stands for a key

Null       == [null |-> TRUE]
Text(word) == [text |-> word, padded |-> FALSE]
Number(n)  == [number |-> n]
Bool(b)    == [bool |-> b]
Object(fs) == [object |-> fs]
List(vs)   == [list |-> vs]

Is(kind, v) == kind \in DOMAIN v

(* The values a value is directly made of, and its own words. *)
Children(v) ==
  (IF Is("list", v) THEN {v.list[i] : i \in DOMAIN v.list} ELSE {})
    \cup (IF Is("object", v) THEN {v.object[i][2] : i \in DOMAIN v.object} ELSE {})

OwnWords(v) ==
  (IF Is("text", v) THEN {v.text} ELSE {})
    \cup (IF Is("object", v) THEN {v.object[i][1] : i \in DOMAIN v.object} ELSE {})

JsonValue(v) ==
  \/ v = Null
  \/ v \in [text : STRING, padded : BOOLEAN]
  \/ v \in [number : STRING]
  \/ v \in [bool : BOOLEAN]
  \/ v \in [list : Seq(Values)]
  \/ v \in [object : Seq(STRING \X Values)]

(* Values are JSON values, and nested finitely; Python's None is none, and *)
(* no text, as what is printed of values is.                               *)
ASSUME JsonValuesAssumption ==
  /\ Depth \in [Values -> Nat]
  /\ \A v \in Values : JsonValue(v) /\ \A x \in Children(v) : Depth[x] < Depth[v]
  /\ None \notin STRING \cup Int \cup Values \cup Seq(Values)
  /\ {"True", "False", "{...}"} \subseteq STRING

(* All words of a value, names included. *)
Words(v) ==
  LET words[x \in Values] == OwnWords(x) \cup UNION {words[y] : y \in Children(x)}
  IN words[v]

-----------------------------------------------------------------------------
(* redact_text and redact_value. *)
RedactText(word, secrets) == IF word \in secrets THEN Redacted ELSE word

(* Fault: names of fields are left as they are. *)
RedactLevelValues(v, below, secrets) ==
  CASE Is("text", v)   -> [v EXCEPT !.text = RedactText(@, secrets)]
    [] Is("list", v)   -> List([i \in DOMAIN v.list |-> below[v.list[i]]])
    [] Is("object", v) -> Object([i \in DOMAIN v.object |->
                            <<v.object[i][1], below[v.object[i][2]]>>])
    [] OTHER           -> v

(* A value, once the values it is made of are redacted. *)
RedactLevel(v, below, secrets) ==
  CASE Is("text", v)   -> [v EXCEPT !.text = RedactText(@, secrets)]
    [] Is("list", v)   -> List([i \in DOMAIN v.list |-> below[v.list[i]]])
    [] Is("object", v) -> Object([i \in DOMAIN v.object |->
                            <<RedactText(v.object[i][1], secrets), below[v.object[i][2]]>>])
    [] OTHER           -> v

RedactedBy(secrets) ==
  LET redacted[v \in Values] == RedactLevel(v, redacted, secrets) IN redacted

RedactValue(v, secrets) == RedactedBy(secrets)[v]

-----------------------------------------------------------------------------
(* Lookup by names: the first name that is there counts, even with a null, *)
(* and of its spellings the last.                                          *)
NormalizeKey(name) == UNION {s \in Synonyms : name \in s} \cup {name}

Spelled(v, name) ==
  {i \in DOMAIN v.object : NormalizeKey(v.object[i][1]) = NormalizeKey(name)}

Value(v, name) ==
  IF Spelled(v, name) = {} THEN Null ELSE v.object[Max(Spelled(v, name))][2]

FirstValue(v, names) ==
  LET known == {k \in DOMAIN names : Spelled(v, names[k]) # {}} IN
  IF known = {} THEN Null ELSE Value(v, names[Min(known)])

(* The names of a set under which there is a value that is not null, and   *)
(* the value under the first one of a sequence.                            *)
NamesIn(v, names) == {n \in names : Value(v, n) # Null}

FirstFound(v, names) ==
  LET found == {k \in DOMAIN names : Value(v, names[k]) # Null} IN
  IF found = {} THEN Null ELSE Value(v, names[Min(found)])

MappingValue(v, name) == IF Is("object", Value(v, name)) THEN Value(v, name) ELSE None

(* str(), here of anything but objects and lists. *)
Printed(v) ==
  CASE Is("text", v)   -> v.text
    [] Is("number", v) -> v.number
    [] Is("bool", v)   -> IF v.bool THEN "True" ELSE "False"
    [] OTHER           -> "{...}"

Blank(v) == Is("null", v) \/ (Is("text", v) /\ v.text = "")

TextOf(v)     == IF Blank(v) THEN None ELSE Printed(v)
FloatOf(v)    == IF ~Blank(v) /\ Printed(v) \in DOMAIN Numeral THEN Numeral[Printed(v)] ELSE None
DatetimeOf(v) == IF ~Blank(v) /\ Printed(v) \in DOMAIN Moment THEN Moment[Printed(v)] ELSE None

(* int() cuts off towards zero. *)
IntOf(v) ==
  LET tenths == FloatOf(v) IN
  IF tenths = None THEN None
  ELSE IF tenths < 0 THEN -((-tenths) \div 10) ELSE tenths \div 10

(* No text is none, but blanks are false. *)
BoolOf(v) ==
  CASE v \in {Null, Text("")} -> None
    [] Is("bool", v)          -> v.bool
    [] OTHER                  -> Printed(v) \in Truths

TextValue(v, names) == TextOf(FirstValue(v, names))

Either(one, other) == IF one # None THEN one ELSE other
=============================================================================
