--------------------------- MODULE EnvelopeProofs ---------------------------
(***************************************************************************)
(* Theorems of Envelope for any calls, any documents and any limits of the *)
(* provider: what is sent stays within the limits, an error is never taken *)
(* for data, and a documented answer is understood by its code.            *)
(***************************************************************************)
EXTENDS Envelope, FiniteSetTheorems, TLAPS

-----------------------------------------------------------------------------
(* The range of a sent call, its limit and the rows it asks for agree.     *)
LEMMA LimitIsPage ==
  ASSUME NEW c \in CallShape, ~Refused(c)
  PROVE  /\ Asked(c) = Limit(c) /\ Limit(c) \in Nat \ {0}
         /\ Paged(c) => Limit(c) \in 1..MaxPage
         /\ c.key = "sample" => Paged(c) /\ Limit(c) <= SamplePage
<1> USE PageRequestAssumption
<1>1. /\ First(c) \in Int /\ Last(c) \in Int /\ c.items \in Int \cup {None}
      /\ c.service \in Services /\ c.key \in {None, "sample", "own"}
  BY DEF CallShape, First, Last
<1>2. CASE Paged(c)
  <2>1. ~RangeRefused(c)
    BY <1>2 DEF Refused
  <2>2. Limit(c) = PageSize(c) /\ PageSize(c) \in 1..MaxPage
    BY <1>1, <1>2, <2>1
    DEF Limit, PaginatedResponseLimit, PageSize, RangeRefused, Api
  <2>3. Asked(c) = PageSize(c)
    <3>1. CASE Api(c) = "general"
      <4>1. Asked(c) = Cardinality(First(c)..Last(c))
        BY <1>2, <3>1 DEF Asked
      <4>2. Cardinality(First(c)..Last(c)) = Last(c) - First(c) + 1
        BY <1>1, <2>1, FS_Interval DEF RangeRefused
      <4> QED BY <3>1, <4>1, <4>2 DEF PageSize
    <3>2. CASE Api(c) = "subway"
      <4>1. Asked(c) = Cardinality((First(c) + 1)..Last(c))
        BY <1>2, <3>2 DEF Asked
      <4>2. First(c) + 1 <= Last(c)
        BY <1>1, <2>2, <3>2 DEF PageSize
      <4>3. Cardinality((First(c) + 1)..Last(c)) = Last(c) - (First(c) + 1) + 1
        BY <1>1, <4>2, FS_Interval
      <4> QED BY <1>1, <3>2, <4>1, <4>3 DEF PageSize
    <3> QED BY <3>1, <3>2 DEF Api
  <2>4. c.key = "sample" => PageSize(c) <= SamplePage
    BY <1>1, <2>1 DEF RangeRefused, PageSize, Api
  <2> QED BY <1>2, <2>2, <2>3, <2>4
<1>3. CASE ~Paged(c)
  <2>1. c.service = AllStations /\ ~AllStationsRefused(c)
    BY <1>3 DEF Paged, Refused
  <2> QED BY <1>1, <1>3, <2>1
          DEF AllStationsRefused, Asked, Limit, EffectiveMaxItems
<1> QED BY <1>2, <1>3

-----------------------------------------------------------------------------
(* The code found is one of those given. *)
LEMMA CodeIsGiven == Code # None => Code \in Given
<1> SUFFICES ASSUME Code # None PROVE Code \in Given
  OBVIOUS
<1>1. PICK k \in 1..8 : Carries(k)
  BY DEF Code
<1>2. \E i \in 1..8 : Carries(i) /\ \A j \in 1..i-1 : ~Carries(j)
  BY <1>1
<1>3. PICK i \in 1..8 : Carries(i) /\ Code = doc.code[Precedence[i]]
  BY <1>1, <1>2 DEF Code
<1>4. Precedence[i] \in Parts \X Names
  BY <1>3 DEF Precedence, Parts, Names, Content, ContentOf
<1> QED BY <1>3, <1>4 DEF Carries, Given

-----------------------------------------------------------------------------
(* A document is there only for a call that was not refused. *)
SentOnly ==
  /\ call \in CallShape
  /\ doc # None => ~Refused(call) /\ doc \in Documents

EnvelopeInvariant == SentOnly /\ ErrorNeverData

(* No step but the sending of a call brings a document. *)
LEMMA SentOnlyStep == SentOnly /\ [Next]_vars => SentOnly'
BY EnvelopeAssumption
DEF SentOnly, Next, Refuse, Answer, Parse, NoEnvelope, BadRows, UpstreamError, NoData,
    Insufficient, Data, Conclude, vars

(* What the outcomes are made of. *)
LEMMA OutcomeFields ==
  ASSUME NEW count
  PROVE  /\ ParseError.kind = "unparsable" /\ Refusal.kind = "refused"
         /\ Delivered(count).kind = "result" /\ Delivered(count).count = count
BY DEF ParseError, Refusal, Delivered

(* The properties of an outcome concern the call and document it is for. *)
LEMMA SameSubject ==
  ASSUME UNCHANGED <<call, doc>>
  PROVE  /\ ForRows' = ForRows /\ Given' = Given /\ Asked(call)' = Asked(call)
         /\ doc' = doc /\ call' = call
BY DEF ForRows, Given, Asked, Paged, Api, First, Last, EffectiveMaxItems

(* Only NoData and Data deliver, the one nothing, the other rows that are  *)
(* identified and not too many.                                            *)
LEMMA ErrorStep ==
  ASSUME SentOnly, ErrorNeverData, [Next]_vars
  PROVE  ErrorNeverData'
<1>1. CASE UNCHANGED vars
  BY <1>1, SameSubject DEF vars, ErrorNeverData, Understood
<1>2. CASE Refuse
  BY <1>2, OutcomeFields DEF Refuse, Conclude, ErrorNeverData, Understood
<1>3. CASE Answer
  BY <1>3 DEF Answer, ErrorNeverData, Understood
<1>4. CASE Parse /\ (NoEnvelope \/ BadRows \/ Insufficient)
  BY <1>4, OutcomeFields
  DEF NoEnvelope, BadRows, Insufficient, Conclude, ErrorNeverData
<1>5. CASE UpstreamError
  <2>1. outcome'.kind = "upstream"
    BY <1>5 DEF UpstreamError, Conclude, ParseError
  <2> QED BY <2>1 DEF ErrorNeverData
<1>6. CASE Parse /\ NoData
  <2>1. Code = "INFO-200" /\ outcome' = Delivered(0) /\ UNCHANGED <<call, doc>>
    BY <1>6 DEF NoData, Conclude
  <2>2. "INFO-200" \in Given \cap Info
    <3>1. Code # None
      BY <1>6 DEF NoData, Coherent, Readable
    <3> QED BY <2>1, <3>1, CodeIsGiven DEF Info
  <2>3. Asked(call) \in Nat
    BY <1>6, LimitIsPage DEF Parse, SentOnly
  <2> QED BY <2>1, <2>2, <2>3, OutcomeFields, SameSubject DEF ErrorNeverData
<1>7. CASE Parse /\ Data
  <2>1. /\ Code = "INFO-000" /\ Code # None /\ Sufficient
        /\ ForRows => RowsFit
        /\ outcome' = Delivered(IF ForRows THEN RowCount ELSE 1)
        /\ UNCHANGED <<call, doc>>
    BY <1>7 DEF Data, Coherent, Readable, Conclude
  <2>2. "INFO-000" \in Given \cap Info
    BY <2>1, CodeIsGiven DEF Info
  <2>3. Asked(call) = Limit(call) /\ Limit(call) \in Nat \ {0}
    BY <1>7, LimitIsPage DEF Parse, SentOnly
  <2>4. ForRows => RowCount <= Asked(call) /\ (RowCount > 0 => doc.named)
    BY <2>1, <2>3 DEF RowsFit, RowCount, Sufficient
  <2>5. ~ForRows => doc.named
    BY <2>1 DEF Sufficient
  <2> QED BY <2>1, <2>2, <2>4, <2>5, OutcomeFields, SameSubject DEF ErrorNeverData
<1> QED BY <1>1, <1>2, <1>3, <1>4, <1>5, <1>6, <1>7 DEF Next, Parse

(* What is sent and what is delivered is so in every state. *)
THEOREM EnvelopeInvariantHolds == Spec => []EnvelopeInvariant
<1>1. Init => EnvelopeInvariant
  BY EnvelopeAssumption
  DEF Init, EnvelopeInvariant, SentOnly, ErrorNeverData, Understood
<1>2. EnvelopeInvariant /\ [Next]_vars => EnvelopeInvariant'
  BY SentOnlyStep, ErrorStep DEF EnvelopeInvariant
<1> QED BY <1>1, <1>2, PTL DEF Spec

(* An error never becomes data, whatever the document: a result has a good *)
(* code, identified rows, and no more of them than were asked for.         *)
THEOREM ErrorsNeverData == Spec => []ErrorNeverData
<1>1. EnvelopeInvariant => ErrorNeverData
  BY DEF EnvelopeInvariant
<1> QED BY <1>1, EnvelopeInvariantHolds, PTL

(* No page is requested that the provider would turn down for its range. *)
THEOREM LimitsAlwaysKept == Spec => []ProviderLimitsKept
<1>1. EnvelopeInvariant => ProviderLimitsKept
  BY LimitIsPage, PageRequestAssumption DEF EnvelopeInvariant, SentOnly, ProviderLimitsKept
<1> QED BY <1>1, EnvelopeInvariantHolds, PTL

-----------------------------------------------------------------------------
(* The codes of a document are finitely many: one at most at each place. *)
LEMMA GivenFinite == IsFiniteSet(Given)
<1> DEFINE Places == <<<<"inner", "RESULT">>, <<"inner", "errorMessage">>,
                       <<"inner", "RESULT.CODE">>, <<"inner", "code">>,
                       <<"outer", "RESULT">>, <<"outer", "errorMessage">>,
                       <<"outer", "RESULT.CODE">>, <<"outer", "code">>>>
           Codes == {doc.code[p] : p \in Parts \X Names}
           At(i) == doc.code[Places[i]]
           f == [i \in 1..8 |-> At(i)]
<1>1. \A i \in 1..8 : Places[i] \in Parts \X Names
  BY DEF Parts, Names
<1>2. \A p \in Parts \X Names : \E i \in 1..8 : p = Places[i]
  BY DEF Parts, Names
<1> HIDE DEF Places
<1>3. f \in [1..8 -> Codes]
  BY <1>1
<1>4. \A c \in Codes : \E i \in 1..8 : f[i] = c
  BY <1>2
<1>5. f \in Surjection(1..8, Codes)
  BY <1>3, <1>4 DEF Surjection
<1>6. IsFiniteSet(1..8)
  <2>1. \A n \in Nat : IsFiniteSet(1..n)
    BY FS_Interval
  <2> QED BY <2>1
<1>7. IsFiniteSet(Codes)
  BY <1>5, <1>6, FS_Surjection
<1>8. Given \subseteq Codes
  BY DEF Given
<1> QED BY <1>7, <1>8, FS_Subset

(* Of a document with one code this is the code found, if it is anywhere   *)
(* in the content or at the top.                                           *)
LEMMA OnlyCode ==
  ASSUME Documented
  PROVE  Code # None /\ Given = {Code}
<1>1. \E c : Given = {c}
  BY GivenFinite, FS_Singleton DEF Documented
<1>2. PICK c : Given = {c}
  BY <1>1
<1>3. \E i \in 1..8 : doc.code[Precedence[i]] = c
  <2>1. CASE doc.wrap = "flat"
    <3>1. PICK n \in {"RESULT", "errorMessage"} : doc.code[<<"outer", n>>] # None
      BY <2>1 DEF Documented
    <3>2. doc.code[<<"outer", n>>] = c
      <4>1. <<"outer", n>> \in Parts \X Names
        BY DEF Parts, Names
      <4> QED BY <1>2, <3>1, <4>1 DEF Given
    <3>3. Content = "outer"
      BY <2>1 DEF Content, ContentOf
    <3>4. \E i \in 1..8 : Precedence[i] = <<"outer", n>>
      <4>1. Precedence[1] = <<"outer", "RESULT">> /\ Precedence[3] = <<"outer", "errorMessage">>
        BY <3>3 DEF Precedence
      <4>2. 1 \in 1..8 /\ 3 \in 1..8
        OBVIOUS
      <4>3. n = "RESULT" \/ n = "errorMessage"
        BY <3>1
      <4> QED BY <4>1, <4>2, <4>3
    <3> QED BY <3>2, <3>4
  <2>2. CASE doc.wrap # "flat"
    <3>1. Content = "inner"
      BY <2>2 DEF Content, ContentOf
    <3>2. \A p \in Parts \X Names : \E i \in 1..8 : Precedence[i] = p
      BY <3>1 DEF Precedence, Parts, Names
    <3>3. \E p \in Parts \X Names : doc.code[p] = c
      BY <1>2 DEF Given
    <3> QED BY <3>2, <3>3
  <2> QED BY <2>1, <2>2
<1>4. c # None
  BY <1>2 DEF Given
<1>5. PICK i \in 1..8 : Carries(i)
  BY <1>3, <1>4 DEF Carries
<1>6. Code # None
  <2>1. PICK j \in 1..8 : Carries(j) /\ \A k \in 1..j-1 : ~Carries(k)
    BY <1>5
  <2>2. Code = doc.code[Precedence[CHOOSE j2 \in 1..8 : Carries(j2) /\ \A k \in 1..j2-1 : ~Carries(k)]]
    BY <1>5 DEF Code
  <2>3. \E j2 \in 1..8 : Carries(j2) /\ Code = doc.code[Precedence[j2]]
    BY <2>1, <2>2
  <2> QED BY <2>3 DEF Carries
<1> QED BY <1>2, <1>6, CodeIsGiven

(* A document of a documented shape gets past all checks that come before  *)
(* its code is looked at.                                                  *)
LEMMA DocumentedCoherent ==
  ASSUME SentOnly, doc # None, Documented
  PROVE  Coherent
<1>1. Consistent(doc)
  BY EnvelopeAssumption DEF SentOnly, AnyDocument
<1>2. Marked
  <2>1. CASE doc.wrap = "service"
    BY <1>1, <2>1 DEF Marked, HasEnvelopeMarker, HasCitydataMarker, Documented, Consistent
  <2>2. CASE doc.wrap # "service"
    <3>1. PICK n \in {"RESULT", "errorMessage"} : doc.code[<<"outer", n>>] # None
      BY <2>2 DEF Documented
    <3>2. n \in doc.fields["outer"]
      BY <1>1, <3>1 DEF Consistent
    <3>3. n \in EnvelopeMarks /\ n \in CitydataMarks
      BY DEF EnvelopeMarks, CitydataMarks
    <3> QED BY <2>2, <3>2, <3>3 DEF Marked, HasEnvelopeMarker, HasCitydataMarker, Documented
  <2> QED BY <2>1, <2>2
<1>3. ForRows => RowsFit
  <2>1. Asked(call) = Limit(call)
    BY LimitIsPage DEF SentOnly
  <2> QED BY <2>1 DEF Documented, RowsFit
<1> QED BY <1>2, <1>3, OnlyCode DEF Coherent, Readable

(* Each step of the parser keeps to the code of the document. *)
LEMMA CodeStep ==
  ASSUME SentOnly, CodeDecides, [Next]_vars
  PROVE  CodeDecides'
<1>1. CASE UNCHANGED vars
  BY <1>1 DEF vars, CodeDecides, Understood, Documented, Given, Content, ForRows, Asked,
     Paged, Api, First, Last, EffectiveMaxItems
<1>2. CASE Refuse \/ Answer
  BY <1>2 DEF Refuse, Answer, Conclude, CodeDecides, Understood
<1>3. CASE Parse
  <2>1. UNCHANGED <<call, doc>> /\ doc # None
    BY <1>3 DEF Parse, NoEnvelope, BadRows, UpstreamError, NoData, Insufficient, Data, Conclude
  <2>2. Documented' = Documented /\ Given' = Given /\ ForRows' = ForRows
    BY <2>1 DEF Documented, Given, Content, ForRows, Asked,
       Paged, Api, First, Last, EffectiveMaxItems
  <2> SUFFICES ASSUME Documented
               PROVE  /\ Code \notin Info =>
                           /\ outcome'.kind = "upstream" /\ outcome'.code = Code
                           /\ outcome'.cool = (Code = "ERROR-337" \/ doc.quota)
                           /\ outcome'.retry = (Code \in Transient /\ ~doc.quota)
                      /\ Code = "INFO-200" => outcome'.kind = "result" /\ outcome'.count = 0
                      /\ Code = "INFO-000" /\ ForRows /\ doc.named /\ doc.rows # None =>
                           outcome'.kind = "result" /\ outcome'.count = doc.rows
    BY <2>1, <2>2, OnlyCode DEF CodeDecides
  <2>3. Coherent
    BY <2>1, DocumentedCoherent
  <2>4. UpstreamError \/ NoData \/ Insufficient \/ Data
    BY <1>3, <2>3 DEF Parse, NoEnvelope, BadRows, Coherent
  <2>5. CASE UpstreamError
    BY <2>5 DEF UpstreamError, Conclude, ParseError, Info, QuotaError, Transient
  <2>6. CASE NoData
    BY <2>6, OutcomeFields DEF NoData, Conclude, Info
  <2>7. CASE Insufficient
    <3>1. Code = "INFO-000" /\ ~Sufficient
      BY <2>7 DEF Insufficient
    <3>2. doc.rows # None => HasDataMarker
      <4>1. Consistent(doc)
        BY <2>1, EnvelopeAssumption DEF SentOnly, AnyDocument
      <4> QED BY <4>1 DEF Consistent, HasDataMarker, Documented, Content, DataMarks
    <3>3. ForRows /\ doc.named /\ doc.rows # None => Sufficient
      BY <3>2 DEF Sufficient
    <3> QED BY <3>1, <3>3 DEF Info
  <2>8. CASE Data
    <3>1. Code = "INFO-000" /\ outcome' = Delivered(IF ForRows THEN RowCount ELSE 1)
      BY <2>8 DEF Data, Conclude
    <3>2. doc.rows # None => RowCount = doc.rows
      BY DEF RowCount
    <3> QED BY <3>1, <3>2, OutcomeFields DEF Info
  <2> QED BY <2>4, <2>5, <2>6, <2>7, <2>8
<1> QED BY <1>1, <1>2, <1>3 DEF Next

(* A document of a documented shape is understood by its code alone, with  *)
(* whatever rows and for whatever call.                                    *)
THEOREM CodeAlwaysDecides == Spec => []CodeDecides
<1>1. Init => CodeDecides
  BY DEF Init, CodeDecides, Understood
<1>2. EnvelopeInvariant /\ CodeDecides /\ [Next]_vars => CodeDecides'
  BY CodeStep DEF EnvelopeInvariant
<1> QED BY <1>1, <1>2, EnvelopeInvariantHolds, PTL DEF Spec
=============================================================================
