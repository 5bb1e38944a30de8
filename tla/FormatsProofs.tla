---------------------------- MODULE FormatsProofs ----------------------------
(***************************************************************************)
(* Proof that an answer means the same in JSON and in XML, for any values  *)
(* and any documented contents (ItemsAgree of Exchange): what is read of   *)
(* an XML body is, field by field, what was written (RegularRead), also    *)
(* when both are redacted (RedactedAlike); the same code, message, rows    *)
(* and typed fields are found in both (ResultAgain, RowsAlike, TypedAlike) *)
(* and the same verdict is passed on them (UnderstoodAlike).               *)
(***************************************************************************)
EXTENDS Formats, ExchangeProofs

-----------------------------------------------------------------------------
(* Writing and reading: the recursions of Payload                          *)

(* What is written of a value, and read of an element, by what is written  *)
(* and read of their parts, as Recursion takes them.                       *)
WritingLevel(v, below, nothing) == WrittenLevel(v, below)
ReadingLevel(e, below, nothing) == XmlLevel(e, below)

Writing == INSTANCE Recursion WITH Nodes <- Values, Below <- Children, Level <- WritingLevel
Reading == INSTANCE Recursion
  WITH Nodes <- Markup, Depth <- Nesting, Below <- ElementsIn, Level <- ReadingLevel

(* Merged is recursive over the number of fields taken in. *)
Before(n) == IF n = 0 THEN {} ELSE {n - 1}

(* The fields joined one by one. *)
MergeLevel(n, below, fields) ==
  IF n = 0 THEN <<>> ELSE Joined(below[n - 1], fields[n][1], fields[n][2])

Merging == INSTANCE Recursion
  WITH Nodes <- Nat, Depth <- [n \in Nat |-> n], Below <- Before, Level <- MergeLevel

(* What is written of a value, by what is written of its parts, *)
LEMMA WrittenEquation ==
  ASSUME NEW v \in Values
  PROVE  Written[v] = WrittenLevel(v, Written)
<1>1. Writing!Local({})
  <2> SUFFICES ASSUME NEW x \in Values, NEW g, NEW h, \A y \in Children(x) : g[y] = h[y]
               PROVE  WrittenLevel(x, g) = WrittenLevel(x, h)
    BY DEF Writing!Local, WritingLevel
  <2>1. CASE Is("object", x)
    <3>1. [i \in DOMAIN x.object |-> Tagged(x.object[i][1], g[x.object[i][2]])]
            = [i \in DOMAIN x.object |-> Tagged(x.object[i][1], h[x.object[i][2]])]
      <4>1. \A i \in DOMAIN x.object : g[x.object[i][2]] = h[x.object[i][2]]
        BY <2>1, ShapeOfValue
      <4>2. \A i \in DOMAIN x.object :
              Tagged(x.object[i][1], g[x.object[i][2]]) = Tagged(x.object[i][1], h[x.object[i][2]])
        BY <4>1
      <4> QED BY <4>2
    <3> QED BY <2>1, <3>1, ShapeOfValue DEF WrittenLevel, Is
  <2>2. CASE Is("list", x)
    <3>1. [i \in DOMAIN x.list |-> g[x.list[i]]] = [i \in DOMAIN x.list |-> h[x.list[i]]]
      BY <2>2, ShapeOfValue
    <3> QED BY <2>2, <3>1, ShapeOfValue DEF WrittenLevel, Is
  <2>3. CASE ~Is("object", x) /\ ~Is("list", x)
    BY <2>3 DEF WrittenLevel
  <2> QED BY <2>1, <2>2, <2>3
<1> DEFINE W == CHOOSE f : f = [x \in Values |-> WritingLevel(x, f, {})]
<1>2. W = [x \in Values |-> WritingLevel(x, W, {})]
  BY <1>1, ValuesGrounded, Writing!RecursiveFunction DEF Writing!Grounded, Collecting!Grounded
<1>3. Written = W
  BY DEF Written, WritingLevel
<1>4. W[v] = WrittenLevel(v, W)
  <2> HIDE DEF W
  <2> QED BY <1>2 DEF WritingLevel
<1> HIDE DEF W
<1> QED BY <1>3, <1>4

(* and what is read of an element, by what is read of the elements in it.  *)
LEMMA XmlEquation ==
  ASSUME NEW e \in Markup
  PROVE  XmlValue[e] = XmlLevel(e, XmlValue)
<1>1. Reading!Local({})
  <2> SUFFICES ASSUME NEW x \in Markup, NEW g, NEW h, \A y \in ElementsIn(x) : g[y] = h[y]
               PROVE  XmlLevel(x, g) = XmlLevel(x, h)
    BY DEF Reading!Local, ReadingLevel
  <2>1. [i \in DOMAIN x.children |-> <<x.children[i][1], g[x.children[i][2]]>>]
          = [i \in DOMAIN x.children |-> <<x.children[i][1], h[x.children[i][2]]>>]
    <3>1. \A i \in DOMAIN x.children : g[x.children[i][2]] = h[x.children[i][2]]
      BY DEF ElementsIn
    <3> QED BY <3>1
  <2> QED BY <2>1 DEF XmlLevel
<1>2. Reading!Grounded
  <2>1. \A x \in Markup : ElementsIn(x) \subseteq Markup
    BY PayloadAssumption DEF ElementsIn
  <2> QED BY <2>1, PayloadAssumption DEF Reading!Grounded
<1> DEFINE W == CHOOSE f : f = [x \in Markup |-> ReadingLevel(x, f, {})]
<1>3. W = [x \in Markup |-> ReadingLevel(x, W, {})]
  BY <1>1, <1>2, Reading!RecursiveFunction
<1>4. XmlValue = W
  BY DEF XmlValue, ReadingLevel
<1>5. W[e] = XmlLevel(e, W)
  <2> HIDE DEF W
  <2> QED BY <1>3 DEF ReadingLevel
<1> HIDE DEF W
<1> QED BY <1>4, <1>5

(* Fields are merged one after the other. *)
LEMMA MergedStepwise ==
  ASSUME NEW fields
  PROVE  \E M : /\ M[0] = <<>>
                /\ \A n \in Nat : M[n + 1] = Joined(M[n], fields[n + 1][1], fields[n + 1][2])
                /\ Merged(fields) = M[Len(fields)]
<1> DEFINE merged[n \in Nat] ==
             IF n = 0 THEN <<>> ELSE Joined(merged[n - 1], fields[n][1], fields[n][2])
           walk[n \in Nat] == MergeLevel(n, walk, fields)
<1>1. walk = [n \in Nat |-> MergeLevel(n, walk, fields)]
  <2>1. Merging!Grounded
    BY DEF Merging!Grounded, Before
  <2>2. Merging!Local(fields)
    BY DEF Merging!Local, Before, MergeLevel
  <2> QED BY <2>1, <2>2, Merging!RecursiveFunction
<1>2. merged = walk
  BY DEF MergeLevel
<1>3. Merged(fields) = walk[Len(fields)]
  BY <1>2 DEF Merged
<1> HIDE DEF walk, merged
<1>4. walk[0] = <<>>
  BY <1>1 DEF MergeLevel
<1>5. \A n \in Nat : walk[n + 1] = Joined(walk[n], fields[n + 1][1], fields[n + 1][2])
  <2> TAKE n \in Nat
  <2>1. n + 1 \in Nat /\ n + 1 # 0 /\ (n + 1) - 1 = n
    OBVIOUS
  <2>2. walk[n + 1] = MergeLevel(n + 1, walk, fields)
    BY <1>1, <2>1
  <2> QED BY <2>1, <2>2 DEF MergeLevel
<1> QED BY <1>3, <1>4, <1>5

(* So are sequences put together. *)
FlattenLevel(i, below, seqs) == IF i = 1 THEN seqs[i] ELSE below[i - 1] \o seqs[i]

(* They are there for every number of sequences, *)
LEMMA FlattenExists ==
  ASSUME NEW seqs
  PROVE  \A n \in Nat : \E f : f = [i \in 1..n |-> FlattenLevel(i, f, seqs)]
<1> DEFINE S == {n \in Nat : \E f : f = [i \in 1..n |-> FlattenLevel(i, f, seqs)]}
<1>1. 0 \in S
  <2> DEFINE f == [i \in 1..0 |-> {}]
  <2>1. f = [i \in 1..0 |-> FlattenLevel(i, f, seqs)]
    OBVIOUS
  <2> HIDE DEF f
  <2> QED BY <2>1
<1>2. ASSUME NEW n \in Nat, n \in S PROVE n + 1 \in S
  <2>1. PICK f : f = [i \in 1..n |-> FlattenLevel(i, f, seqs)]
    BY <1>2
  <2> DEFINE g == [i \in 1..n + 1 |-> FlattenLevel(i, f, seqs)]
  <2>2. \A i \in 1..n : g[i] = f[i]
    <3> TAKE i \in 1..n
    <3>1. f[i] = FlattenLevel(i, f, seqs)
      BY <2>1
    <3> QED BY <3>1
  <2>3. \A i \in 1..n + 1 : FlattenLevel(i, f, seqs) = FlattenLevel(i, g, seqs)
    <3> TAKE i \in 1..n + 1
    <3>1. CASE i = 1
      BY <3>1 DEF FlattenLevel
    <3>2. CASE i # 1
      <4>1. i - 1 \in 1..n
        BY <3>2
      <4>2. f[i - 1] = g[i - 1]
        BY <2>2, <4>1
      <4> HIDE DEF g
      <4> QED BY <4>2 DEF FlattenLevel
    <3> QED BY <3>1, <3>2
  <2>4. g = [i \in 1..n + 1 |-> FlattenLevel(i, g, seqs)]
    <3>1. \A h : (\A i \in 1..n + 1 : FlattenLevel(i, f, seqs) = FlattenLevel(i, h, seqs))
                  => g = [i \in 1..n + 1 |-> FlattenLevel(i, h, seqs)]
      OBVIOUS
    <3> HIDE DEF g
    <3> QED BY <2>3, <3>1
  <2> HIDE DEF g
  <2>5. n + 1 \in Nat
    OBVIOUS
  <2> QED BY <2>4, <2>5
<1> HIDE DEF S
<1>3. Nat \subseteq S
  BY <1>1, <1>2, Collecting!SetInduction
<1> QED BY <1>3 DEF S

(* and put together one after the other. *)
LEMMA FlattenStepwise ==
  ASSUME NEW S, NEW seqs \in Seq(Seq(S))
  PROVE  \E F : /\ F[0] = <<>>
                /\ \A i \in 1..Len(seqs) : F[i] = F[i - 1] \o seqs[i]
                /\ Sequence!FlattenSeq(seqs) = F[Len(seqs)]
<1> DEFINE n == Len(seqs)
           G == CHOOSE f : f = [i \in 1..n |-> FlattenLevel(i, f, seqs)]
           F == [i \in 0..n |-> IF i = 0 THEN <<>> ELSE G[i]]
<1>1. n \in Nat
  OBVIOUS
<1>2. G = [i \in 1..n |-> FlattenLevel(i, G, seqs)]
  <2>1. \E f : f = [i \in 1..n |-> FlattenLevel(i, f, seqs)]
    BY <1>1, FlattenExists
  <2> HIDE DEF n
  <2> QED BY <2>1
<1>3. Sequence!FlattenSeq(seqs) = IF n = 0 THEN seqs ELSE G[n]
  BY DEF Sequence!FlattenSeq, FlattenLevel
<1> HIDE DEF G
<1>4. \A i \in 1..n : G[i] = FlattenLevel(i, G, seqs)
  BY <1>2
<1>5. \A i \in 1..n : F[i] = F[i - 1] \o seqs[i]
  <2> TAKE i \in 1..n
  <2>1. seqs[i] \in Seq(S)
    OBVIOUS
  <2>2. CASE i = 1
    <3>1. F[i] = seqs[i] /\ F[i - 1] = <<>>
      BY <1>4, <2>2 DEF FlattenLevel
    <3>2. <<>> \o seqs[i] = seqs[i]
      BY <2>1
    <3> QED BY <3>1, <3>2
  <2>3. CASE i # 1
    <3>1. F[i] = G[i] /\ F[i - 1] = G[i - 1]
      BY <2>3
    <3> HIDE DEF F
    <3> QED BY <1>4, <2>3, <3>1 DEF FlattenLevel
  <2> QED BY <2>2, <2>3
<1>6. Sequence!FlattenSeq(seqs) = F[n]
  <2>1. CASE n = 0
    BY <1>3, <2>1
  <2>2. CASE n # 0
    BY <1>1, <1>3, <2>2
  <2> QED BY <2>1, <2>2
<1>7. F[0] = <<>>
  BY <1>1
<1> HIDE DEF F
<1> QED BY <1>5, <1>6, <1>7

-----------------------------------------------------------------------------
(* Reading: fields are joined by their names                               *)

(* A field whose name is new comes last, *)
LEMMA JoinedFresh ==
  ASSUME NEW fields, NEW name, NEW v, Places(fields, name) = {}
  PROVE  Joined(fields, name, v) = Append(fields, <<name, v>>)
BY DEF Joined

(* (a name for Append, for the provers to leave it as it is)               *)
With(fields, name, v) == Append(fields, <<name, v>>)

(* and one with the name of the last joins that in a list. *)
LEMMA JoinedAgain ==
  ASSUME NEW U, NEW A \in Seq(U), NEW name, NEW w, NEW v,
         Places(A, name) = {},
         NEW u, u = IF Is("list", w) THEN List(Append(w.list, v)) ELSE List(<<w, v>>)
  PROVE  Joined(With(A, name, w), name, v) = With(A, name, u)
<1> DEFINE n == Len(A) + 1
           B == Append(A, <<name, w>>)
<1>1. n \in Nat /\ n \in DOMAIN B /\ B[n] = <<name, w>> /\ \A i \in DOMAIN B \ {n} : i \in DOMAIN A /\ B[i] = A[i]
  <2> DEFINE V == U \cup {<<name, w>>}
  <2>1. A \in Seq(V) /\ <<name, w>> \in V
    OBVIOUS
  <2> HIDE DEF V
  <2> QED BY <2>1
<1>2. Places(B, name) = {n}
  BY <1>1 DEF Places
<1>3. (CHOOSE i \in Places(B, name) : TRUE) = n
  BY <1>2
<1>4. Joined(B, name, v) = [B EXCEPT ![n][2] = u]
  <2>1. B[n][2] = w
    BY <1>1
  <2> HIDE DEF B, n
  <2> QED BY <1>2, <1>3, <2>1 DEF Joined
<1>5. [B EXCEPT ![n][2] = u] = [B EXCEPT ![n] = <<name, u>>]
  <2> HIDE DEF B, n
  <2>1. [<<name, w>> EXCEPT ![2] = u] = <<name, u>>
    OBVIOUS
  <2>2. [B EXCEPT ![n][2] = u] = [B EXCEPT ![n] = [B[n] EXCEPT ![2] = u]]
    OBVIOUS
  <2> QED BY <1>1, <2>1, <2>2
<1>6. [B EXCEPT ![n] = <<name, u>>] = Append(A, <<name, u>>)
  <2>1. \A x : Append(A, x) = [i \in 1..n |-> IF i = n THEN x ELSE A[i]]
    <3> SUFFICES ASSUME NEW x PROVE Append(A, x) = [i \in 1..n |-> IF i = n THEN x ELSE A[i]]
      OBVIOUS
    <3> DEFINE V == U \cup {x}
    <3>1. A \in Seq(V) /\ x \in V
      OBVIOUS
    <3> HIDE DEF V
    <3>2. Append(A, x) \in Seq(V) /\ DOMAIN Append(A, x) = 1..n
      BY <3>1
    <3>3. \A i \in 1..n : Append(A, x)[i] = IF i = n THEN x ELSE A[i]
      BY <3>1
    <3>4. \A C \in Seq(V) : C = [i \in 1..Len(C) |-> C[i]]
      OBVIOUS
    <3>5. Len(Append(A, x)) = n
      BY <3>1
    <3> HIDE DEF n
    <3> QED BY <3>2, <3>3, <3>4, <3>5
  <2>2. B = [i \in 1..n |-> IF i = n THEN <<name, w>> ELSE A[i]]
    BY <2>1
  <2>3. Append(A, <<name, u>>) = [i \in 1..n |-> IF i = n THEN <<name, u>> ELSE A[i]]
    BY <2>1
  <2> HIDE DEF B
  <2> QED BY <2>2, <2>3, <1>1
<1> QED BY <1>4, <1>5, <1>6 DEF With

(* Names that are all different stay as they are. *)
LEMMA MergedDistinct ==
  ASSUME NEW S, NEW T, NEW fields \in Seq(S \X T),
         \A i, j \in DOMAIN fields : i # j => fields[i][1] # fields[j][1]
  PROVE  Merged(fields) = fields
<1>1. PICK M : /\ M[0] = <<>>
               /\ \A n \in Nat : M[n + 1] = Joined(M[n], fields[n + 1][1], fields[n + 1][2])
               /\ Merged(fields) = M[Len(fields)]
  BY MergedStepwise
<1> DEFINE N == {n \in Nat : n <= Len(fields) => M[n] = SubSeq(fields, 1, n)}
<1>2. 0 \in N
  <2>1. SubSeq(fields, 1, 0) = <<>>
    OBVIOUS
  <2> QED BY <1>1, <2>1
<1>3. ASSUME NEW n \in Nat, n \in N PROVE n + 1 \in N
  <2> SUFFICES ASSUME n + 1 <= Len(fields) PROVE M[n + 1] = SubSeq(fields, 1, n + 1)
    OBVIOUS
  <2>1. M[n] = SubSeq(fields, 1, n)
    BY <1>3
  <2>2. n + 1 \in DOMAIN fields /\ fields[n + 1] = <<fields[n + 1][1], fields[n + 1][2]>>
    OBVIOUS
  <2>3. \A i \in DOMAIN M[n] : i \in DOMAIN fields /\ i # n + 1 /\ M[n][i] = fields[i]
    BY <2>1
  <2>4. Places(M[n], fields[n + 1][1]) = {}
    BY <2>2, <2>3 DEF Places
  <2>5. M[n + 1] = Append(SubSeq(fields, 1, n), fields[n + 1])
    <3>1. M[n + 1] = Joined(M[n], fields[n + 1][1], fields[n + 1][2])
      BY <1>1
    <3>2. Joined(M[n], fields[n + 1][1], fields[n + 1][2])
            = Append(M[n], <<fields[n + 1][1], fields[n + 1][2]>>)
      BY <2>4, JoinedFresh
    <3> QED BY <2>1, <2>2, <3>1, <3>2
  <2>6. Append(SubSeq(fields, 1, n), fields[n + 1]) = SubSeq(fields, 1, n + 1)
    BY <2>2
  <2> QED BY <2>5, <2>6
<1> HIDE DEF N
<1>4. Nat \subseteq N
  BY <1>2, <1>3, Collecting!SetInduction
<1>5. M[Len(fields)] = SubSeq(fields, 1, Len(fields))
  BY <1>4 DEF N
<1> QED BY <1>1, <1>5

(* Sequences of one put together. *)
LEMMA FlattenSingles ==
  ASSUME NEW S, NEW n \in Nat, NEW x \in [1..n -> S],
         NEW seqs \in [1..n -> Seq(S)], \A i \in 1..n : seqs[i] = <<x[i]>>
  PROVE  Sequence!FlattenSeq(seqs) = x
<1>1. seqs \in Seq(Seq(S)) /\ Len(seqs) = n
  OBVIOUS
<1>2. PICK F : /\ F[0] = <<>>
               /\ \A i \in 1..Len(seqs) : F[i] = F[i - 1] \o seqs[i]
               /\ Sequence!FlattenSeq(seqs) = F[Len(seqs)]
  BY <1>1, FlattenStepwise
<1> DEFINE N == {k \in Nat : k <= n => F[k] = [i \in 1..k |-> x[i]]}
<1>3. 0 \in N
  BY <1>2
<1>4. ASSUME NEW k \in Nat, k \in N PROVE k + 1 \in N
  <2> SUFFICES ASSUME k + 1 <= n PROVE F[k + 1] = [i \in 1..k + 1 |-> x[i]]
    OBVIOUS
  <2>1. F[k + 1] = F[k] \o <<x[k + 1]>>
    <3>1. k + 1 \in 1..Len(seqs) /\ (k + 1) - 1 = k /\ seqs[k + 1] = <<x[k + 1]>>
      BY <1>1
    <3> QED BY <1>2, <3>1
  <2>2. F[k] = [i \in 1..k |-> x[i]]
    BY <1>4
  <2>3. [i \in 1..k |-> x[i]] \o <<x[k + 1]>> = [i \in 1..k + 1 |-> x[i]]
    OBVIOUS
  <2> QED BY <2>1, <2>2, <2>3
<1> HIDE DEF N
<1>5. Nat \subseteq N
  BY <1>3, <1>4, Collecting!SetInduction
<1>6. F[n] = [i \in 1..n |-> x[i]]
  BY <1>5 DEF N
<1>7. x = [i \in 1..n |-> x[i]]
  OBVIOUS
<1> QED BY ONLY <1>1, <1>2, <1>6, <1>7

(* L says where the sequences are that flat is put together of. *)
Placed(S, n, seqs, flat, L) ==
  /\ L[0] = 0
  /\ \A i \in 1..n : L[i - 1] \in Nat /\ L[i] = L[i - 1] + Len(seqs[i])
  /\ flat \in Seq(S) /\ Len(flat) = L[n]
  /\ \A i \in 1..n : \A k \in 1..Len(seqs[i]) :
       L[i - 1] + k \in DOMAIN flat /\ flat[L[i - 1] + k] = seqs[i][k]

(* Each of them has its place. *)
LEMMA FlattenPlaces ==
  ASSUME NEW S, NEW seqs \in Seq(Seq(S))
  PROVE  \E L : Placed(S, Len(seqs), seqs, Sequence!FlattenSeq(seqs), L)
<1> DEFINE n == Len(seqs)
           flat == Sequence!FlattenSeq(seqs)
<1>0. n \in Nat /\ \A i \in 1..n : seqs[i] \in Seq(S)
  OBVIOUS
<1>1. PICK F : /\ F[0] = <<>>
               /\ \A i \in 1..n : F[i] = F[i - 1] \o seqs[i]
               /\ flat = F[n]
  BY FlattenStepwise
<1> HIDE DEF n, flat
<1> DEFINE L == [i \in 0..n |-> Len(F[i])]
           Good(i) == /\ F[i] \in Seq(S)
                      /\ \A j \in 1..i : \A k \in 1..Len(seqs[j]) :
                           /\ Len(F[j - 1]) + k \in 1..Len(F[i])
                           /\ F[i][Len(F[j - 1]) + k] = seqs[j][k]
           N == {i \in Nat : i <= n => Good(i)}
<1>2. Good(0)
  <2>1. <<>> \in Seq(S) /\ 1..0 = {}
    OBVIOUS
  <2> QED BY <1>1, <2>1
<1>3. ASSUME NEW i \in Nat, i + 1 <= n, Good(i) PROVE Good(i + 1)
  <2>1. Good(i) /\ i + 1 \in 1..n /\ (i + 1) - 1 = i
    BY <1>0, <1>3
  <2> DEFINE s == seqs[i + 1]
             A == F[i]
  <2>2. F[i + 1] = A \o s /\ s \in Seq(S) /\ A \in Seq(S)
    BY <1>0, <1>1, <2>1
  <2> HIDE DEF s, A
  <2>3. /\ A \o s \in Seq(S) /\ Len(A \o s) = Len(A) + Len(s) /\ Len(A) \in Nat /\ Len(s) \in Nat
        /\ \A k \in 1..Len(A) : (A \o s)[k] = A[k]
        /\ \A k \in 1..Len(s) : (A \o s)[Len(A) + k] = s[k]
    BY <2>2
  <2>4. ASSUME NEW j \in 1..i + 1, NEW k \in 1..Len(seqs[j])
        PROVE  /\ Len(F[j - 1]) + k \in 1..Len(F[i + 1])
               /\ F[i + 1][Len(F[j - 1]) + k] = seqs[j][k]
    <3>1. CASE j = i + 1
      <4>1. F[j - 1] = A /\ seqs[j] = s
        BY <2>1, <3>1 DEF A, s
      <4>2. k \in 1..Len(s)
        BY <4>1
      <4> QED BY <2>2, <2>3, <4>1, <4>2
    <3>2. CASE j # i + 1
      <4>1. j \in 1..i
        BY <3>2
      <4>2. /\ Len(F[j - 1]) + k \in 1..Len(A)
            /\ A[Len(F[j - 1]) + k] = seqs[j][k]
        BY <2>1, <4>1 DEF A
      <4> QED BY <2>2, <2>3, <4>2
    <3> QED BY <3>1, <3>2
  <2> QED BY <2>2, <2>3, <2>4
<1>4. Nat \subseteq N
  <2> HIDE DEF Good
  <2>1. 0 \in N
    BY <1>2
  <2>2. ASSUME NEW i \in Nat, i \in N PROVE i + 1 \in N
    BY <1>0, <1>3, <2>2
  <2> HIDE DEF N
  <2> QED BY <2>1, <2>2, Collecting!SetInduction
<1>5. \A i \in 0..n : Good(i)
  <2> HIDE DEF Good
  <2> QED BY <1>0, <1>4
<1>6. L[0] = 0 /\ \A i \in 1..n : L[i - 1] = Len(F[i - 1]) /\ L[i] = Len(F[i]) /\ L[i - 1] \in Nat
  <2>1. L[0] = 0
    BY <1>0, <1>1
  <2>2. \A i \in 0..n : L[i] = Len(F[i]) /\ L[i] \in Nat
    BY <1>5
  <2> HIDE DEF L
  <2> QED BY <1>0, <2>1, <2>2
<1>7. L[n] = Len(F[n])
  BY <1>0
<1> HIDE DEF L
<1>8. \A i \in 1..n : L[i] = L[i - 1] + Len(seqs[i])
  <2> TAKE i \in 1..n
  <2>1. F[i] = F[i - 1] \o seqs[i] /\ seqs[i] \in Seq(S)
    BY <1>0, <1>1
  <2>3. Good(i - 1)
    BY <1>0, <1>5
  <2>2. Len(F[i]) = Len(F[i - 1]) + Len(seqs[i])
    BY <2>1, <2>3
  <2> QED BY <1>6, <2>2
<1>9. flat \in Seq(S) /\ Len(flat) = L[n]
  BY <1>0, <1>1, <1>5, <1>7
<1>10. \A i \in 1..n : \A k \in 1..Len(seqs[i]) :
         L[i - 1] + k \in DOMAIN flat /\ flat[L[i - 1] + k] = seqs[i][k]
  <2>1. Good(n)
    BY <1>0, <1>5
  <2>2. DOMAIN flat = 1..Len(F[n])
    BY <1>1, <1>9
  <2> QED BY <1>1, <1>6, <2>1, <2>2
<1>11. Placed(S, n, seqs, flat, L)
  BY <1>6, <1>8, <1>9, <1>10 DEF Placed
<1> QED BY <1>11 DEF n, flat

-----------------------------------------------------------------------------
(* What values of one name are read as. *)
Combined(values) == IF Len(values) = 1 THEN values[1] ELSE List(values)

(* The fields there are, in whatever order. *)
Entries(fields) == {fields[i] : i \in DOMAIN fields}

(* A name that is not there yet. *)
Fresh(fields, name) == Places(fields, name) = {}

(* Values of one name join A one after the other. *)
Joining(J, A, name, values) ==
  J[0] = A /\ \A k \in 1..Len(values) : J[k] = Joined(J[k - 1], name, values[k])

(* Fields grouped by their names are joined group by group. *)
LEMMA MergedGroup ==
  ASSUME NEW T, NEW U, NEW A \in Seq(U), NEW name, Fresh(A, name),
         NEW r \in Seq(T), \A k \in 1..Len(r) : ~Is("list", r[k]),
         NEW J, Joining(J, A, name, r)
  PROVE  /\ r = <<>> => J[Len(r)] = A
         /\ r # <<>> => J[Len(r)] = With(A, name, Combined(r))
<1> DEFINE Part(k) == IF k = 1 THEN r[1] ELSE List(SubSeq(r, 1, k))
           N == {k \in Nat : 1 <= k /\ k <= Len(r) => J[k] = With(A, name, Part(k))}
<1>0. J[0] = A /\ \A k \in 1..Len(r) : J[k] = Joined(J[k - 1], name, r[k])
  BY DEF Joining
<1>9. Places(A, name) = {}
  BY DEF Fresh
<1>1. 0 \in N
  OBVIOUS
<1>2. ASSUME NEW k \in Nat, k \in N PROVE k + 1 \in N
  <2> SUFFICES ASSUME k + 1 <= Len(r) PROVE J[k + 1] = With(A, name, Part(k + 1))
    OBVIOUS
  <2>1. k + 1 \in 1..Len(r) /\ (k + 1) - 1 = k /\ r[k + 1] \in T
    OBVIOUS
  <2>2. J[k + 1] = Joined(J[k], name, r[k + 1])
    BY <1>0, <2>1
  <2>3. CASE k = 0
    <3>1. Joined(A, name, r[k + 1]) = With(A, name, r[k + 1])
      BY <1>9, JoinedFresh DEF With
    <3> QED BY <1>0, <2>2, <2>3, <3>1
  <2>4. CASE k # 0
    <3>1. J[k] = With(A, name, Part(k))
      BY <1>2, <2>4
    <3>2. SubSeq(r, 1, k) \in Seq(T) /\ Append(SubSeq(r, 1, k), r[k + 1]) = SubSeq(r, 1, k + 1)
      BY <2>1
    <3>4. (IF Is("list", Part(k)) THEN List(Append(Part(k).list, r[k + 1])) ELSE List(<<Part(k), r[k + 1]>>))
            = List(SubSeq(r, 1, k + 1))
      <4>1. CASE k = 1
        <5>1. Part(k) = r[1] /\ r[1] \in T /\ ~Is("list", r[1])
          BY <4>1, <2>1
        <5>2. <<r[1], r[k + 1]>> = SubSeq(r, 1, k + 1)
          BY <4>1, <2>1
        <5> QED BY <5>1, <5>2
      <4>2. CASE k # 1
        <5>1. Is("list", Part(k)) /\ Part(k).list = SubSeq(r, 1, k)
          BY <4>2 DEF Is, List
        <5> HIDE DEF Part
        <5> QED BY <3>2, <5>1
      <4> QED BY <4>1, <4>2
    <3>5. Part(k + 1) = List(SubSeq(r, 1, k + 1))
      BY <2>4
    <3> HIDE DEF Part
    <3>6. Joined(With(A, name, Part(k)), name, r[k + 1]) = With(A, name, List(SubSeq(r, 1, k + 1)))
      <4> DEFINE w == Part(k)
                 v == r[k + 1]
                 u == List(SubSeq(r, 1, k + 1))
      <4>1. u = IF Is("list", w) THEN List(Append(w.list, v)) ELSE List(<<w, v>>)
        BY <3>4
      <4> HIDE DEF w, v, u
      <4>2. Joined(With(A, name, w), name, v) = With(A, name, u)
        BY <1>9, <4>1, JoinedAgain
      <4> QED BY <4>2 DEF w, v, u
    <3> QED BY <2>2, <3>1, <3>5, <3>6
  <2> QED BY <2>3, <2>4
<1> HIDE DEF N
<1>3. Nat \subseteq N
  BY <1>1, <1>2, Collecting!SetInduction
<1>4. CASE r = <<>>
  BY <1>0, <1>4
<1>5. CASE r # <<>>
  <2>1. Len(r) \in Nat /\ 1 <= Len(r) /\ SubSeq(r, 1, Len(r)) = r
    BY <1>5
  <2>2. J[Len(r)] = With(A, name, Part(Len(r)))
    BY <1>3, <2>1 DEF N
  <2>3. Part(Len(r)) = Combined(r)
    BY <2>1 DEF Combined
  <2> QED BY <1>5, <2>2, <2>3
<1> QED BY <1>4, <1>5

(* Fields with the names, and the values r[i] of the i-th from L[i - 1] on. *)
Grouped(T, fields, n, names, r, L) ==
  /\ names \in [1..n -> STRING] /\ r \in [1..n -> Seq(T)]
  /\ \A i, j \in 1..n : i # j => names[i] # names[j]
  /\ L[0] = 0 /\ \A i \in 1..n : L[i - 1] \in Nat /\ L[i] = L[i - 1] + Len(r[i])
  /\ Len(fields) = L[n]
  /\ \A i \in 1..n : \A k \in 1..Len(r[i]) : fields[L[i - 1] + k] = <<names[i], r[i][k]>>

(* The fields that they become. *)
Groups(n, names, r) == {<<names[i], Combined(r[i])>> : i \in {i \in 1..n : r[i] # <<>>}}

(* Fields in groups of one name each become one field for each group: its  *)
(* values, or the list of them.                                            *)
LEMMA MergedGroups ==
  ASSUME NEW T, \A x \in T : ~Is("list", x),
         NEW n \in Nat, NEW names, NEW r, NEW L, NEW fields, Grouped(T, fields, n, names, r, L)
  PROVE  Entries(Merged(fields)) = Groups(n, names, r)
<1> DEFINE W == T \cup {List(s) : s \in Seq(T)}
<1>7. names \in [1..n -> STRING] /\ r \in [1..n -> Seq(T)]
  BY DEF Grouped
<1>6. /\ \A i, j \in 1..n : i # j => names[i] # names[j]
      /\ L[0] = 0 /\ \A i \in 1..n : L[i - 1] \in Nat /\ L[i] = L[i - 1] + Len(r[i])
      /\ Len(fields) = L[n]
      /\ \A i \in 1..n : \A k \in 1..Len(r[i]) : fields[L[i - 1] + k] = <<names[i], r[i][k]>>
  BY DEF Grouped
<1>1. PICK M : /\ M[0] = <<>>
               /\ \A k \in Nat : M[k + 1] = Joined(M[k], fields[k + 1][1], fields[k + 1][2])
               /\ Merged(fields) = M[Len(fields)]
  BY MergedStepwise
<1> DEFINE E(i) == {<<names[j], Combined(r[j])>> : j \in {j \in 1..i : r[j] # <<>>}}
           Good(i) == M[L[i]] \in Seq(STRING \X W) /\ Entries(M[L[i]]) = E(i)
           N == {i \in Nat : i <= n => Good(i)}
<1>2. Good(0)
  <2>1. <<>> \in Seq(STRING \X W) /\ Entries(<<>>) = {} /\ E(0) = {}
    BY DEF Entries
  <2> HIDE DEF E, W
  <2> QED BY <1>1, <1>6, <2>1
<1>3. ASSUME NEW i \in Nat, i + 1 <= n, Good(i) PROVE Good(i + 1)
  <2> DEFINE A == M[L[i]]
             name == names[i + 1]
  <2>11. PICK s : s = r[i + 1]
    OBVIOUS
  <2>12. PICK J : J = [k \in 0..Len(s) |-> M[L[i] + k]]
    OBVIOUS
  <2>1. /\ i + 1 \in 1..n /\ (i + 1) - 1 = i /\ L[i] \in Nat /\ L[i + 1] = L[i] + Len(s)
        /\ s \in Seq(T) /\ name \in STRING /\ Good(i)
    <3>1. i + 1 \in 1..n /\ (i + 1) - 1 = i
      BY <1>3
    <3>2. L[i] \in Nat /\ L[i + 1] = L[i] + Len(r[i + 1])
      BY <1>6, <3>1
    <3> HIDE DEF Good
    <3> QED BY <1>3, <1>7, <2>11, <3>1, <3>2
  <2>2. Fresh(A, name)
    <3>1. \A x \in E(i) : x[1] # name
      BY <1>6, <2>1
    <3>2. \A k \in DOMAIN A : A[k] \in E(i)
      BY <2>1 DEF Entries
    <3> QED BY <3>1, <3>2 DEF Fresh, Places
  <2>3. \A k \in 1..Len(s) : J[k] = Joined(J[k - 1], name, s[k])
    <3> SUFFICES ASSUME NEW k \in 1..Len(s) PROVE J[k] = Joined(J[k - 1], name, s[k])
      OBVIOUS
    <3>0. Len(s) \in Nat /\ L[i] \in Nat
      BY <2>1
    <3>1. J[k] = M[L[i] + k] /\ J[k - 1] = M[L[i] + k - 1] /\ L[i] + k - 1 \in Nat
      <4>1. k \in 0..Len(s) /\ k - 1 \in 0..Len(s) /\ L[i] + (k - 1) = L[i] + k - 1
        BY <3>0
      <4> QED BY <2>12, <3>0, <4>1
    <3>2. (L[i] + k - 1) + 1 = L[i] + k
      BY <2>1
    <3>3. fields[L[i] + k] = <<name, s[k]>>
      BY <1>6, <2>1, <2>11
    <3> HIDE DEF name, A
    <3>4. M[L[i] + k] = Joined(M[L[i] + k - 1], fields[L[i] + k][1], fields[L[i] + k][2])
      BY <1>1, <3>1, <3>2
    <3> QED BY <3>1, <3>3, <3>4
  <2>4. J[0] = A /\ J[Len(s)] = M[L[i + 1]]
    BY <2>1, <2>12
  <2>10. \A k \in 1..Len(s) : ~Is("list", s[k])
    BY <2>1
  <2>5. A \in Seq(STRING \X W)
    BY <2>1
  <2> HIDE DEF name, A
  <2>6. M[L[i + 1]] = IF s = <<>> THEN A ELSE With(A, name, Combined(s))
    <3>1. /\ s = <<>> => J[Len(s)] = A
          /\ s # <<>> => J[Len(s)] = With(A, name, Combined(s))
      <4> DEFINE V == STRING \X W
      <4>1. A \in Seq(V)
        BY <2>5
      <4>2. Joining(J, A, name, s)
        BY <2>3, <2>4 DEF Joining
      <4>3. s \in Seq(T)
        BY <2>1
      <4> HIDE DEF V, W, Good, E
      <4> QED BY <2>2, <2>10, <4>1, <4>2, <4>3, MergedGroup
    <3> QED BY <2>4, <3>1
  <2>7. E(i + 1) = IF s = <<>> THEN E(i) ELSE E(i) \cup {<<name, Combined(s)>>}
    <3>1. 1..i + 1 = (1..i) \cup {i + 1}
      OBVIOUS
    <3> DEFINE x(j) == <<names[j], Combined(r[j])>>
    <3>2. E(i + 1) = {x(j) : j \in {j \in 1..i : r[j] # <<>>}} \cup {x(j) : j \in {j \in {i + 1} : r[j] # <<>>}}
      BY <3>1
    <3> HIDE DEF x
    <3>3. {x(j) : j \in {j \in {i + 1} : r[j] # <<>>}} = IF r[i + 1] = <<>> THEN {} ELSE {x(i + 1)}
      OBVIOUS
    <3>4. E(i) = {x(j) : j \in {j \in 1..i : r[j] # <<>>}}
      BY DEF x
    <3>5. x(i + 1) = <<name, Combined(s)>>
      BY <2>11 DEF name, x
    <3> HIDE DEF E
    <3> QED BY <2>11, <3>2, <3>3, <3>4, <3>5
  <2>8. CASE s = <<>>
    BY <2>1, <2>6, <2>7, <2>8 DEF A
  <2>9. CASE s # <<>>
    <3>1. Combined(s) \in W
      BY <2>1, <2>9 DEF Combined
    <3> DEFINE x == <<name, Combined(s)>>
    <3>2. x \in STRING \X W
      BY <2>1, <3>1
    <3> HIDE DEF x, W
    <3>3. Append(A, x) \in Seq(STRING \X W) /\ Entries(Append(A, x)) = Entries(A) \cup {x}
      <4>1. /\ Append(A, x) \in Seq(STRING \X W) /\ DOMAIN Append(A, x) = DOMAIN A \cup {Len(A) + 1}
            /\ \A k \in DOMAIN A : Append(A, x)[k] = A[k]
            /\ Append(A, x)[Len(A) + 1] = x
        BY <2>5, <3>2
      <4> QED BY <4>1 DEF Entries
    <3> HIDE DEF E
    <3> QED BY <2>1, <2>6, <2>7, <2>9, <3>3 DEF A, x, With
  <2> QED BY <2>8, <2>9
<1>4. Nat \subseteq N
  <2> HIDE DEF Good
  <2>1. 0 \in N
    BY <1>2
  <2>2. ASSUME NEW i \in Nat, i \in N PROVE i + 1 \in N
    BY <1>3, <2>2
  <2> HIDE DEF N
  <2> QED BY <2>1, <2>2, Collecting!SetInduction
<1>5. Good(n)
  <2> HIDE DEF Good
  <2> QED BY <1>4
<1> QED BY <1>1, <1>5, <1>6 DEF Groups

-----------------------------------------------------------------------------
(* What is read of what is written                                         *)

(* The text that is written of a value that is no object and no list. *)
Said(v) ==
  CASE Is("text", v)   -> v.text
    [] Is("number", v) -> v.number
    [] Is("bool", v)   -> IF v.bool THEN "true" ELSE "false"
    [] OTHER           -> ""

(* What a row, or a value in it, and what a field of an answer is read as. *)
ItemOf(v) ==
  IF Is("object", v)
  THEN Object([i \in DOMAIN v.object |-> <<v.object[i][1], Text(Said(v.object[i][2]))>>])
  ELSE Text(Said(v))

FieldOf(v) ==
  IF Is("list", v) THEN Combined([k \in DOMAIN v.list |-> ItemOf(v.list[k])]) ELSE ItemOf(v)

(* Names that are different, a value without lists, and one with lists of  *)
(* these.                                                                  *)
Named(v) == \A i, j \in DOMAIN v.object : i # j => v.object[i][1] # v.object[j][1]

Flat(v) ==
  /\ Is("object", v) /\ v.object # <<>> /\ Named(v)
  /\ \A i \in DOMAIN v.object : Scalar(v.object[i][2])

Item(v) == Scalar(v) \/ Flat(v)

Field(v) == Item(v) \/ (Is("list", v) /\ \A k \in DOMAIN v.list : Item(v.list[k]))

(* A list without values is not written at all. *)
EmptyList == List(<<>>)

Filled(v) == {i \in DOMAIN v.object : v.object[i][2] # EmptyList}

(* What an answer must be to be read as it was written. *)
Regular(v) ==
  /\ Is("object", v) /\ Named(v)
  /\ \A i \in DOMAIN v.object : Field(v.object[i][2])
  /\ \E i \in DOMAIN v.object : i \in Filled(v)

(* The one element that is written of a value without lists. *)
One(v) == Written[v][1]

(* A value has one kind. *)
LEMMA KindsApart ==
  ASSUME NEW v \in Values \cup {Null}
  PROVE  /\ Is("text", v) => /\ ~Is("number", v) /\ ~Is("bool", v) /\ ~Is("null", v)
                             /\ ~Is("list", v) /\ ~Is("object", v)
         /\ Is("number", v) => ~Is("bool", v) /\ ~Is("null", v) /\ ~Is("list", v) /\ ~Is("object", v)
         /\ Is("bool", v) => ~Is("null", v) /\ ~Is("list", v) /\ ~Is("object", v)
         /\ Is("null", v) => v = Null /\ ~Is("list", v) /\ ~Is("object", v)
         /\ Is("list", v) => ~Is("object", v)
         /\ \/ Is("text", v) \/ Is("number", v) \/ Is("bool", v) \/ Is("null", v)
            \/ Is("list", v) \/ Is("object", v)
<1>1. JsonValue(v)
  BY ShapeOfValue
<1>2. CASE v = Null
  BY <1>2 DEF Null, Is
<1>3. CASE DOMAIN v = {"text", "padded"} /\ v.text \in STRING
  BY <1>3 DEF Is
<1>4. CASE DOMAIN v = {"number"} /\ v.number \in STRING
  BY <1>4 DEF Is
<1>5. CASE DOMAIN v = {"bool"} /\ v.bool \in BOOLEAN
  BY <1>5 DEF Is
<1>6. CASE DOMAIN v = {"list"} /\ v.list \in Seq(Values)
  BY <1>6 DEF Is
<1>7. CASE DOMAIN v = {"object"} /\ v.object \in Seq(STRING \X Values)
  BY <1>7 DEF Is
<1> QED BY <1>1, <1>2, <1>3, <1>4, <1>5, <1>6, <1>7 DEF JsonValue

(* There is nothing more to it than that. *)
LEMMA ValueOfKind ==
  ASSUME NEW v \in Values \cup {Null}
  PROVE  /\ Is("text", v)   => v = [text |-> v.text, padded |-> v.padded] /\ v.padded \in BOOLEAN
         /\ Is("number", v) => v = Number(v.number)
         /\ Is("bool", v)   => v = Bool(v.bool) /\ v.bool \in BOOLEAN
         /\ Is("null", v)   => v = Null
         /\ Is("list", v)   => v = List(v.list)
         /\ Is("object", v) => v = Object(v.object)
<1>1. JsonValue(v)
  BY ShapeOfValue
<1>2. CASE v = Null
  BY <1>2, KindsApart DEF Null, Is
<1>3. CASE v \in [text : STRING, padded : BOOLEAN]
  BY <1>3 DEF Is
<1>4. CASE v \in [number : STRING]
  BY <1>4 DEF Is, Number
<1>5. CASE v \in [bool : BOOLEAN]
  BY <1>5 DEF Is, Bool
<1>6. CASE v \in [list : Seq(Values)]
  BY <1>6 DEF Is, List
<1>7. CASE v \in [object : Seq(STRING \X Values)]
  BY <1>7 DEF Is, Object
<1> QED BY <1>1, <1>2, <1>3, <1>4, <1>5, <1>6, <1>7 DEF JsonValue

(* One element is written of a scalar, and its text is read. *)
LEMMA ScalarRead ==
  ASSUME NEW v \in Values, Scalar(v)
  PROVE  Written[v] = <<One(v)>> /\ One(v) \in Markup /\ XmlValue[One(v)] = Text(Said(v))
<1> DEFINE leaf(text) == [text |-> text, children |-> <<>>]
<1>1. PICK text : Written[v] = <<leaf(text)>> /\ text.text = Said(v)
  <2>1. Written[v] = WrittenLevel(v, Written)
    BY WrittenEquation
  <2>6. \A word : Text(word).text = word
    BY DEF Text
  <2> HIDE DEF leaf
  <2>2. CASE Is("text", v)
    <3>1. WrittenLevel(v, Written) = <<leaf(v)>> /\ Said(v) = v.text
      BY <2>2, KindsApart DEF WrittenLevel, Said, leaf
    <3> QED BY <2>1, <3>1
  <2>3. CASE Is("number", v)
    <3>1. WrittenLevel(v, Written) = <<leaf(Text(v.number))>> /\ Said(v) = v.number
      BY <2>3, KindsApart DEF WrittenLevel, Said, leaf
    <3> QED BY <2>1, <2>6, <3>1
  <2>4. CASE Is("bool", v)
    <3>1. WrittenLevel(v, Written) = <<leaf(Text(Said(v)))>>
      BY <2>4, KindsApart DEF WrittenLevel, Said, leaf
    <3> QED BY <2>1, <2>6, <3>1
  <2>5. CASE Is("null", v)
    <3>1. WrittenLevel(v, Written) = <<leaf(Text(""))>> /\ Said(v) = ""
      BY <2>5, KindsApart DEF WrittenLevel, Said, leaf
    <3> QED BY <2>1, <2>6, <3>1
  <2> QED BY <2>2, <2>3, <2>4, <2>5, KindsApart DEF Scalar
<1>2. One(v) = leaf(text)
  BY <1>1 DEF One
<1>3. One(v) \in Markup
  BY <1>1, PayloadAssumption DEF One
<1>4. XmlValue[One(v)] = XmlLevel(One(v), XmlValue)
  BY <1>3, XmlEquation
<1>5. XmlLevel(One(v), XmlValue) = Text(Said(v))
  BY <1>1, <1>2 DEF XmlLevel
<1> QED BY <1>1, <1>2, <1>3, <1>4, <1>5

(* So is one of an object, with the elements of its fields in it. *)
LEMMA ObjectWritten ==
  ASSUME NEW v \in Values, Is("object", v)
  PROVE  /\ Written[v] = <<One(v)>> /\ One(v) \in Markup
         /\ One(v).children = Sequence!FlattenSeq(
              [i \in DOMAIN v.object |-> Tagged(v.object[i][1], Written[v.object[i][2]])])
<1> DEFINE children == Sequence!FlattenSeq(
                         [i \in DOMAIN v.object |-> Tagged(v.object[i][1], Written[v.object[i][2]])])
<1>1. Written[v] = WrittenLevel(v, Written)
  BY WrittenEquation
<1> DEFINE e == [text |-> Text(""), children |-> children]
<1>2. WrittenLevel(v, Written) = <<e>>
  BY KindsApart DEF WrittenLevel
<1> HIDE DEF children
<1>3. e.children = children
  OBVIOUS
<1> HIDE DEF e
<1>4. One(v) = e
  BY <1>1, <1>2 DEF One
<1>5. One(v) \in Markup
  <2>1. 1 \in DOMAIN Written[v]
    BY <1>1, <1>2
  <2> QED BY <2>1, PayloadAssumption DEF One
<1>6. One(v).children = children /\ Written[v] = <<One(v)>>
  BY <1>1, <1>2, <1>3, <1>4
<1> QED BY <1>5, <1>6 DEF children

(* An object with elements in it is read as an object. *)
LEMMA ElementRead ==
  ASSUME NEW e \in Markup, e.children # <<>>
  PROVE  XmlValue[e] =
           Object(Merged([i \in DOMAIN e.children |-> <<e.children[i][1], XmlValue[e.children[i][2]]>>]))
BY XmlEquation DEF XmlLevel

(* Of an object without lists the same fields are read, as texts. *)
LEMMA FlatRead ==
  ASSUME NEW v \in Values, Flat(v)
  PROVE  Written[v] = <<One(v)>> /\ One(v) \in Markup /\ XmlValue[One(v)] = ItemOf(v)
<1> DEFINE n == Len(v.object)
           name(i) == v.object[i][1]
           below(i) == v.object[i][2]
           x == [i \in 1..n |-> <<name(i), One(below(i))>>]
<1>1. /\ v.object \in Seq(STRING \X Values) /\ n \in Nat \ {0} /\ DOMAIN v.object = 1..n
      /\ \A i \in 1..n : name(i) \in STRING /\ below(i) \in Values /\ Scalar(below(i))
      /\ \A i, j \in 1..n : i # j => name(i) # name(j)
  <2>1. v.object \in Seq(STRING \X Values) /\ v.object # <<>>
    BY ShapeOfValue DEF Flat
  <2> QED BY <2>1 DEF Flat, Named
<1>2. \A i \in 1..n : /\ Written[below(i)] = <<One(below(i))>> /\ One(below(i)) \in Markup
                      /\ XmlValue[One(below(i))] = Text(Said(below(i)))
  BY <1>1, ScalarRead
<1>3. Written[v] = <<One(v)>> /\ One(v) \in Markup
  BY ObjectWritten DEF Flat
<1>4. One(v).children = Sequence!FlattenSeq([i \in 1..n |-> Tagged(name(i), Written[below(i)])])
  BY <1>1, ObjectWritten DEF Flat
<1>5. \A i \in 1..n : Tagged(name(i), Written[below(i)]) = <<x[i]>>
  <2> TAKE i \in 1..n
  <2>1. Tagged(name(i), <<One(below(i))>>) = <<<<name(i), One(below(i))>>>>
    BY DEF Tagged
  <2> QED BY <1>2, <2>1
<1>6. x \in [1..n -> STRING \X Markup]
  BY <1>1, <1>2
<1>7. \A i \in 1..n : x[i] = <<name(i), One(below(i))>>
  OBVIOUS
<1>13. ItemOf(v) = Object([i \in 1..n |-> <<name(i), Text(Said(below(i)))>>])
  BY <1>1 DEF ItemOf, Flat
<1> HIDE DEF name, below, x, n
<1>8. [i \in 1..n |-> Tagged(name(i), Written[below(i)])] = [i \in 1..n |-> <<x[i]>>]
  BY <1>5
<1>9. One(v).children = [i \in 1..n |-> x[i]] /\ DOMAIN One(v).children = 1..n
  <2>1. One(v).children = Sequence!FlattenSeq([i \in 1..n |-> <<x[i]>>])
    BY <1>4, <1>8
  <2>2. n \in Nat
    BY <1>1
  <2> DEFINE S == STRING \X Markup
             singles == [i \in 1..n |-> <<x[i]>>]
  <2>3. x \in [1..n -> S]
    BY <1>6
  <2>4. x = [i \in 1..n |-> x[i]]
    BY ONLY <2>3
  <2> HIDE DEF S
  <2>5. singles \in [1..n -> Seq(S)] /\ \A i \in 1..n : singles[i] = <<x[i]>>
    BY ONLY <2>3
  <2> HIDE DEF singles
  <2>6. Sequence!FlattenSeq(singles) = x
    BY ONLY <2>2, <2>3, <2>5, FlattenSingles
  <2> QED BY <2>1, <2>4, <2>6 DEF singles
<1> DEFINE fields == [i \in 1..n |-> <<name(i), Text(Said(below(i)))>>]
<1>10. [i \in DOMAIN One(v).children |-> <<One(v).children[i][1], XmlValue[One(v).children[i][2]]>>] = fields
  BY <1>2, <1>7, <1>9
<1>11. Merged(fields) = fields
  <2> DEFINE text == [i \in 1..n |-> Text(Said(below(i)))]
             T == {text[i] : i \in 1..n}
  <2>1. fields = [i \in 1..n |-> <<name(i), text[i]>>] /\ \A i \in 1..n : text[i] \in T
    OBVIOUS
  <2>2. \A i, j \in DOMAIN fields : i # j => fields[i][1] # fields[j][1]
    BY <1>1
  <2> HIDE DEF text, T
  <2>3. fields \in Seq(STRING \X T)
    <3>1. \A i \in 1..n : <<name(i), text[i]>> \in STRING \X T
      BY <1>1, <2>1
    <3>2. n \in Nat
      BY <1>1
    <3>3. fields \in [1..n -> STRING \X T]
      BY ONLY <2>1, <3>1
    <3> QED BY ONLY <3>2, <3>3
  <2> HIDE DEF fields
  <2> QED BY <2>2, <2>3, MergedDistinct
<1>12. One(v).children # <<>>
  <2>1. 1 \in 1..n
    BY <1>1
  <2> QED BY <1>9, <2>1
<1> QED BY <1>3, <1>10, <1>11, <1>12, <1>13, ElementRead

(* Both of an item. *)
LEMMA ItemRead ==
  ASSUME NEW v \in Values, Item(v)
  PROVE  /\ Written[v] = <<One(v)>> /\ One(v) \in Markup
         /\ XmlValue[One(v)] = ItemOf(v) /\ ~Is("list", ItemOf(v))
<1>1. CASE Scalar(v)
  <2>1. ItemOf(v) = Text(Said(v))
    BY <1>1 DEF ItemOf, Scalar
  <2> QED BY <1>1, <2>1, ScalarRead DEF Is, Text
<1>2. CASE Flat(v)
  <2>1. Is("object", v)
    BY <1>2 DEF Flat
  <2>2. \A fields : ~Is("list", Object(fields))
    BY DEF Is, Object
  <2>3. ~Is("list", ItemOf(v))
    BY <2>1, <2>2 DEF ItemOf
  <2> QED BY <1>2, <2>3, FlatRead
<1> QED BY <1>1, <1>2 DEF Item

(* What is read of the elements of a field. *)
ReadIn(v) == [k \in DOMAIN Written[v] |-> XmlValue[Written[v][k]]]

(* (what is read is no list: lists come of repeated elements only) *)
Readings == {x \in {XmlValue[e] : e \in Markup} : ~Is("list", x)}

(* Elements under a tag are as many, in the same order. *)
LEMMA TaggedElements ==
  ASSUME NEW S, NEW tag \in STRING, NEW w \in Seq(S)
  PROVE  /\ Tagged(tag, w) \in Seq(STRING \X S) /\ Len(Tagged(tag, w)) = Len(w)
         /\ \A k \in 1..Len(w) : Tagged(tag, w)[k] = <<tag, w[k]>>
<1>1. Tagged(tag, w) = [k \in 1..Len(w) |-> <<tag, w[k]>>]
  BY DEF Tagged
<1> DEFINE P == STRING \X S
<1>5. Len(w) \in Nat /\ \A k \in 1..Len(w) : w[k] \in S
  OBVIOUS
<1>2. \A k \in 1..Len(w) : <<tag, w[k]>> \in P
  <2>1. \A x \in S : <<tag, x>> \in STRING \X S
    OBVIOUS
  <2> QED BY <1>5, <2>1
<1> HIDE DEF P
<1>3. [k \in 1..Len(w) |-> <<tag, w[k]>>] \in Seq(P)
  <2>1. \A m \in Nat : \A f \in [1..m -> P] : f \in Seq(P)
    OBVIOUS
  <2>2. [k \in 1..Len(w) |-> <<tag, w[k]>>] \in [1..Len(w) -> P]
    BY <1>2
  <2> QED BY ONLY <1>5, <2>1, <2>2
<1>4. Len(Tagged(tag, w)) = Len(w)
  BY <1>1, <1>5
<1> QED BY <1>1, <1>3, <1>4 DEF P

(* What is read of a field is a value or a list of them, whatever its kind. *)
LEMMA FieldRead ==
  ASSUME NEW v \in Values, Field(v)
  PROVE  /\ Written[v] \in Seq(Markup) /\ ReadIn(v) \in Seq(Readings)
         /\ Len(ReadIn(v)) = Len(Written[v])
         /\ \A k \in 1..Len(Written[v]) : ReadIn(v)[k] = XmlValue[Written[v][k]]
         /\ ReadIn(v) # <<>> <=> v # EmptyList
         /\ v # EmptyList => Combined(ReadIn(v)) = FieldOf(v)
<1>1. CASE Item(v)
  <2>1. Written[v] = <<One(v)>> /\ One(v) \in Markup /\ XmlValue[One(v)] = ItemOf(v) /\ ~Is("list", ItemOf(v))
    BY <1>1, ItemRead
  <2>2. ReadIn(v) = <<ItemOf(v)>>
    BY <2>1 DEF ReadIn
  <2>3. v # EmptyList /\ FieldOf(v) = ItemOf(v)
    <3>1. ~Is("list", v)
      BY <1>1, KindsApart DEF Item, Scalar, Flat
    <3> QED BY <3>1 DEF FieldOf, EmptyList, List, Is
  <2>4. Combined(<<ItemOf(v)>>) = ItemOf(v)
    BY DEF Combined
  <2>5. ItemOf(v) \in Readings
    BY <2>1 DEF Readings
  <2>6. \A k \in 1..Len(Written[v]) : ReadIn(v)[k] = XmlValue[Written[v][k]]
    BY <2>1 DEF ReadIn
  <2> QED BY <2>1, <2>2, <2>3, <2>4, <2>5, <2>6
<1>2. CASE Is("list", v) /\ \A k \in DOMAIN v.list : Item(v.list[k])
  <2> DEFINE n == Len(v.list)
             x == [i \in 1..n |-> One(v.list[i])]
  <2>1. n \in Nat /\ DOMAIN v.list = 1..n /\ v.list \in Seq(Values) /\ v = List(v.list)
    BY <1>2, ShapeOfValue, ValueOfKind
  <2>2. \A i \in 1..n : /\ Written[v.list[i]] = <<x[i]>> /\ x[i] \in Markup
                        /\ XmlValue[x[i]] = ItemOf(v.list[i]) /\ ~Is("list", ItemOf(v.list[i]))
    BY <1>2, <2>1, ItemRead
  <2>3. Written[v] = Sequence!FlattenSeq([i \in 1..n |-> Written[v.list[i]]])
    <3>1. Written[v] = WrittenLevel(v, Written)
      BY WrittenEquation
    <3>2. WrittenLevel(v, Written) = Sequence!FlattenSeq([i \in DOMAIN v.list |-> Written[v.list[i]]])
      BY <1>2, KindsApart DEF WrittenLevel
    <3> QED BY <2>1, <3>1, <3>2
  <2>4. x \in [1..n -> Markup]
    BY <2>2
  <2>5. v # EmptyList <=> n # 0
    BY <2>1 DEF EmptyList, List
  <2> HIDE DEF x, n
  <2>6. [i \in 1..n |-> Written[v.list[i]]] = [i \in 1..n |-> <<x[i]>>]
    BY <2>2
  <2>7. Sequence!FlattenSeq([i \in 1..n |-> <<x[i]>>]) = [i \in 1..n |-> x[i]]
    <3> DEFINE singles == [i \in 1..n |-> <<x[i]>>]
    <3>1. singles \in [1..n -> Seq(Markup)] /\ \A i \in 1..n : singles[i] = <<x[i]>>
      BY ONLY <2>4
    <3>2. x = [i \in 1..n |-> x[i]]
      BY ONLY <2>4
    <3> HIDE DEF singles
    <3>3. Sequence!FlattenSeq(singles) = x
      BY ONLY <2>1, <2>4, <3>1, FlattenSingles
    <3> QED BY ONLY <3>2, <3>3 DEF singles
  <2>8. Written[v] = [i \in 1..n |-> x[i]]
    BY <2>3, <2>6, <2>7
  <2>9. ReadIn(v) = [i \in 1..n |-> ItemOf(v.list[i])]
    BY <2>2, <2>8 DEF ReadIn
  <2>10. \A i \in 1..n : ItemOf(v.list[i]) \in Readings
    BY <2>2 DEF Readings
  <2>11. FieldOf(v) = Combined(ReadIn(v))
    BY <1>2, <2>1, <2>9 DEF FieldOf
  <2>12. \A k \in 1..Len(Written[v]) : ReadIn(v)[k] = XmlValue[Written[v][k]]
    BY <2>1, <2>8 DEF ReadIn
  <2> QED BY <2>1, <2>4, <2>5, <2>8, <2>9, <2>10, <2>11, <2>12
<1> QED BY <1>1, <1>2 DEF Field

(* What is read of an answer: its fields, but for empty lists. *)
Kept(v) == {<<v.object[i][1], FieldOf(v.object[i][2])>> : i \in Filled(v)}

(* What is written of a value in XML, and parsed by _xml_value, is the     *)
(* value: the same fields, with texts for scalars, one value for a list of *)
(* one, and none for an empty one.                                         *)
THEOREM RegularRead ==
  ASSUME NEW v \in Values, Regular(v)
  PROVE  /\ Is("object", XmlValue[One(v)])
         /\ Entries(XmlValue[One(v)].object) = Kept(v)
<1> DEFINE n == Len(v.object)
           names == [i \in 1..n |-> v.object[i][1]]
           below(i) == v.object[i][2]
           seqs == [i \in 1..n |-> Tagged(v.object[i][1], Written[below(i)])]
           children == One(v).children
           r == [i \in 1..n |-> ReadIn(below(i))]
           P == STRING \X Markup
<1>1. /\ v.object \in Seq(STRING \X Values) /\ n \in Nat /\ DOMAIN v.object = 1..n
      /\ names \in [1..n -> STRING]
      /\ \A i \in 1..n : below(i) \in Values /\ Field(below(i))
      /\ \A i, j \in 1..n : i # j => names[i] # names[j]
  <2>1. v.object \in Seq(STRING \X Values)
    BY ShapeOfValue DEF Regular
  <2> QED BY <2>1 DEF Regular, Named
<1>20. \A i \in 1..n : r[i] = ReadIn(below(i)) /\ seqs[i] = Tagged(names[i], Written[below(i)])
  OBVIOUS
<1>2. \A i \in 1..n : /\ Written[below(i)] \in Seq(Markup) /\ r[i] \in Seq(Readings)
                      /\ Len(r[i]) = Len(Written[below(i)])
                      /\ r[i] # <<>> <=> below(i) # EmptyList
                      /\ below(i) # EmptyList => Combined(r[i]) = FieldOf(below(i))
  BY <1>1, FieldRead
<1>3. children = Sequence!FlattenSeq(seqs) /\ One(v) \in Markup
  BY <1>1, ObjectWritten DEF Regular
<1>4. \A i \in 1..n : /\ seqs[i] \in Seq(P) /\ Len(seqs[i]) = Len(r[i])
                      /\ \A k \in 1..Len(r[i]) : seqs[i][k] = <<names[i], Written[below(i)][k]>>
  <2> SUFFICES ASSUME NEW i \in 1..n
               PROVE  /\ seqs[i] \in Seq(P) /\ Len(seqs[i]) = Len(r[i])
                      /\ \A k \in 1..Len(r[i]) : seqs[i][k] = <<names[i], Written[below(i)][k]>>
    OBVIOUS
  <2>1. /\ Written[below(i)] \in Seq(Markup) /\ Len(r[i]) = Len(Written[below(i)])
        /\ seqs[i] = Tagged(names[i], Written[below(i)]) /\ names[i] \in STRING
    BY <1>1, <1>2, <1>20
  <2> DEFINE w == Written[below(i)]
             t == names[i]
  <2>2. w \in Seq(Markup) /\ t \in STRING
    BY <2>1
  <2> HIDE DEF w, t
  <2>3. /\ Tagged(t, w) \in Seq(STRING \X Markup) /\ Len(Tagged(t, w)) = Len(w)
        /\ \A k \in 1..Len(w) : Tagged(t, w)[k] = <<t, w[k]>>
    BY <2>2, TaggedElements
  <2>4. Len(r[i]) = Len(w) /\ seqs[i] = Tagged(t, w)
    BY <2>1 DEF w, t
  <2> HIDE DEF seqs, r
  <2>5. seqs[i] \in Seq(P) /\ Len(seqs[i]) = Len(r[i]) /\ \A k \in 1..Len(r[i]) : seqs[i][k] = <<t, w[k]>>
    BY <2>3, <2>4
  <2> QED BY <2>5 DEF w, t
<1>5. \A i \in 1..n : \A k \in 1..Len(r[i]) : r[i][k] = XmlValue[Written[below(i)][k]]
  BY <1>1, <1>2, FieldRead
<1>6. seqs \in Seq(Seq(P)) /\ Len(seqs) = n
  <2>1. seqs \in [1..n -> Seq(P)]
    BY <1>4
  <2> HIDE DEF seqs, P, n
  <2> QED BY <1>1, <2>1
<1>7. Kept(v) = {<<names[i], FieldOf(below(i))>> : i \in {i \in 1..n : below(i) # EmptyList}}
  BY <1>1 DEF Kept, Filled
<1>8. PICK i \in 1..n : below(i) # EmptyList
  BY <1>1 DEF Regular, Filled
<1>9. r \in [1..n -> Seq(Readings)]
  BY <1>2
<1> HIDE DEF n, names, below, seqs, r, P
<1>16. PICK L : Placed(P, n, seqs, children, L)
  <2>1. \E L : Placed(P, Len(seqs), seqs, Sequence!FlattenSeq(seqs), L)
    BY <1>6, FlattenPlaces
  <2>2. children = Sequence!FlattenSeq(seqs)
    BY <1>3
  <2> QED BY <1>6, <2>1, <2>2
<1>10. /\ L[0] = 0
       /\ \A j \in 1..n : L[j - 1] \in Nat /\ L[j] = L[j - 1] + Len(seqs[j])
       /\ children \in Seq(P) /\ Len(children) = L[n]
       /\ \A j \in 1..n : \A k \in 1..Len(seqs[j]) :
            /\ L[j - 1] + k \in DOMAIN children
            /\ children[L[j - 1] + k] = seqs[j][k]
  BY <1>16 DEF Placed
<1> DEFINE fields == [j \in DOMAIN children |-> <<children[j][1], XmlValue[children[j][2]]>>]
<1>11. Grouped(Readings, fields, n, names, r, L)
  <2>1. Len(fields) = L[n]
    BY <1>10
  <2>2. ASSUME NEW j \in 1..n, NEW k \in 1..Len(r[j])
        PROVE  fields[L[j - 1] + k] = <<names[j], r[j][k]>>
    <3>1. L[j - 1] + k \in DOMAIN children /\ children[L[j - 1] + k] = <<names[j], Written[below(j)][k]>>
      BY <1>4, <1>10
    <3> QED BY <1>5, <3>1
  <2> HIDE DEF fields
  <2> QED BY <1>1, <1>4, <1>9, <1>10, <2>1, <2>2 DEF Grouped
<1>12. children # <<>>
  <2>1. 1 \in 1..Len(r[i])
    BY <1>2, <1>8
  <2> QED BY <1>4, <1>8, <1>10, <2>1
<1>13. XmlValue[One(v)] = Object(Merged(fields))
  BY <1>3, <1>12, ElementRead
<1>14. Entries(Merged(fields)) = Groups(n, names, r)
  <2> HIDE DEF fields
  <2>1. \A x \in Readings : ~Is("list", x)
    BY DEF Readings
  <2> QED BY <1>1, <1>11, <2>1, MergedGroups
<1>15. Groups(n, names, r) = Kept(v)
  BY <1>2, <1>7 DEF Groups
<1> HIDE DEF fields
<1>17. Is("object", XmlValue[One(v)]) /\ XmlValue[One(v)].object = Merged(fields)
  BY <1>13 DEF Object, Is
<1> QED BY <1>14, <1>15, <1>17

-----------------------------------------------------------------------------
(* Redaction *)

(* A key that is a text, and written as no other value. *)
KeyApart ==
  /\ Key \notin {"", "true", "false"}
  /\ \A v \in Values : Is("number", v) => v.number # Key

(* Redaction leaves a value of the kind it is, but for the words in it. *)
LEMMA RedactedKinds ==
  ASSUME NEW v \in Values, NEW secrets
  PROVE  LET r == RedactValue(v, secrets) IN
         /\ Is("text", v) => r = [v EXCEPT !.text = RedactText(@, secrets)]
         /\ Is("list", v) => r = List([i \in DOMAIN v.list |-> RedactValue(v.list[i], secrets)])
         /\ Is("object", v) =>
              r = Object([i \in DOMAIN v.object |->
                    <<RedactText(v.object[i][1], secrets), RedactValue(v.object[i][2], secrets)>>])
         /\ ~Is("text", v) /\ ~Is("list", v) /\ ~Is("object", v) => r = v
         /\ \A kind \in {"text", "number", "bool", "null", "list", "object"} : Is(kind, r) <=> Is(kind, v)
<1> DEFINE r == RedactValue(v, secrets)
<1>1. r = RedactLevel(v, RedactedBy(secrets), secrets)
  BY RedactEquation
<1>2. CASE Is("text", v)
  <2>1. ~Is("list", v) /\ ~Is("object", v)
    BY <1>2, KindsApart
  <2>2. r = [v EXCEPT !.text = RedactText(@, secrets)]
    BY <1>1, <1>2, <2>1 DEF RedactLevel
  <2>3. DOMAIN r = DOMAIN v
    BY <2>2
  <2> HIDE DEF r
  <2> QED BY <1>2, <2>1, <2>2, <2>3 DEF Is, r
<1>3. CASE Is("list", v)
  <2>1. ~Is("text", v) /\ ~Is("object", v) /\ DOMAIN v = {"list"}
    BY <1>3, KindsApart, ShapeOfValue
  <2>2. r = List([i \in DOMAIN v.list |-> RedactValue(v.list[i], secrets)])
    BY <1>3, RedactedList
  <2>3. DOMAIN r = {"list"}
    BY <2>2 DEF List
  <2> HIDE DEF r
  <2> QED BY <1>3, <2>1, <2>2, <2>3 DEF Is, r
<1>4. CASE Is("object", v)
  <2>1. ~Is("text", v) /\ ~Is("list", v) /\ DOMAIN v = {"object"}
    BY <1>4, KindsApart, ShapeOfValue
  <2>2. r = Object([i \in DOMAIN v.object |->
                    <<RedactText(v.object[i][1], secrets), RedactValue(v.object[i][2], secrets)>>])
    BY <1>1, <1>4, <2>1 DEF RedactLevel, RedactValue
  <2>3. DOMAIN r = {"object"}
    BY <2>2 DEF Object
  <2> HIDE DEF r
  <2> QED BY <1>4, <2>1, <2>2, <2>3 DEF Is, r
<1>5. CASE ~Is("text", v) /\ ~Is("list", v) /\ ~Is("object", v)
  <2>1. r = v
    BY <1>1, <1>5 DEF RedactLevel
  <2> HIDE DEF r
  <2> QED BY <1>5, <2>1 DEF r
<1> QED BY <1>2, <1>3, <1>4, <1>5

(* The text of a scalar, by its kind. *)
LEMMA SaidOfKind ==
  ASSUME NEW w \in Values
  PROVE  /\ Is("text", w) => Said(w) = w.text
         /\ Is("number", w) => Said(w) = w.number
         /\ Is("bool", w) => Said(w) = IF w.bool THEN "true" ELSE "false"
         /\ ~Is("text", w) /\ ~Is("number", w) /\ ~Is("bool", w) => Said(w) = ""
BY KindsApart DEF Said

(* What is written of a scalar is redacted as it is. *)
LEMMA RedactedScalar ==
  ASSUME KeyApart, NEW secrets \in SUBSET {Key}, NEW w \in Values, Scalar(w)
  PROVE  /\ Scalar(RedactValue(w, secrets))
         /\ Said(RedactValue(w, secrets)) = RedactText(Said(w), secrets)
<1> DEFINE r == RedactValue(w, secrets)
<1>1. Scalar(r)
  BY RedactedKinds DEF Scalar
<1>2. CASE Is("text", w)
  <2>1. r = [w EXCEPT !.text = RedactText(@, secrets)] /\ Is("text", r)
    BY <1>2, RedactedKinds
  <2>2. r.text = RedactText(w.text, secrets)
    BY <1>2, <2>1 DEF Is
  <2>3. Said(r) = r.text /\ Said(w) = w.text
    <3>1. r \in Values
      BY ExchangeAssumption
    <3> HIDE DEF r
    <3> QED BY <1>2, <2>1, <3>1, SaidOfKind
  <2> QED BY <1>1, <2>2, <2>3
<1>3. CASE ~Is("text", w)
  <2>1. r = w
    BY <1>3, RedactedKinds DEF Scalar
  <2>2. Said(w) \in {"", "true", "false"} \/ (Is("number", w) /\ Said(w) = w.number)
    BY <1>3, SaidOfKind
  <2>3. Said(w) # Key
    BY <2>2 DEF KeyApart
  <2>4. RedactText(Said(w), secrets) = Said(w)
    BY <2>3 DEF RedactText
  <2> QED BY <1>1, <2>1, <2>4
<1> QED BY <1>2, <1>3

(* So is a text that is read. *)
LEMMA RedactedReading ==
  ASSUME NEW word, Text(word) \in Values, NEW secrets
  PROVE  RedactValue(Text(word), secrets) = Text(RedactText(word, secrets))
<1>1. Is("text", Text(word))
  BY DEF Is, Text
<1>2. RedactValue(Text(word), secrets) = [Text(word) EXCEPT !.text = RedactText(@, secrets)]
  BY <1>1, RedactedKinds
<1> QED BY <1>2 DEF Text

(* So is what is written of an object of scalars. *)
LEMMA RedactedItem ==
  ASSUME KeyApart, NEW secrets \in SUBSET {Key}, NEW w \in Values, ItemOf(w) \in Values,
         Scalar(w) \/ (Is("object", w) /\ \A i \in DOMAIN w.object : Scalar(w.object[i][2]))
  PROVE  RedactValue(ItemOf(w), secrets) = ItemOf(RedactValue(w, secrets))
<1> DEFINE R(x) == RedactValue(x, secrets)
           r == R(w)
<1>1. CASE Scalar(w)
  <2>1. ItemOf(w) = Text(Said(w)) /\ ItemOf(r) = Text(Said(r))
    BY <1>1, RedactedScalar DEF ItemOf, Scalar
  <2>2. Said(r) = RedactText(Said(w), secrets)
    BY <1>1, RedactedScalar
  <2>3. RedactValue(Text(Said(w)), secrets) = Text(RedactText(Said(w), secrets))
    BY <2>1, RedactedReading
  <2> QED BY <2>1, <2>2, <2>3
<1>2. CASE Is("object", w) /\ \A i \in DOMAIN w.object : Scalar(w.object[i][2])
  <2> DEFINE D == DOMAIN w.object
             read == ItemOf(w)
             said(i) == Said(w.object[i][2])
             name(i) == w.object[i][1]
  <2>1. w.object \in Seq(STRING \X Values) /\ \A i \in D : w.object[i][2] \in Values
    BY <1>2, ShapeOfValue
  <2>2. read = Object([i \in D |-> <<name(i), Text(said(i))>>])
    BY <1>2 DEF ItemOf
  <2>3. Is("object", read) /\ read.object = [i \in D |-> <<name(i), Text(said(i))>>] /\ DOMAIN read.object = D
    BY <2>2 DEF Object, Is
  <2>4. \A i \in D : Text(said(i)) \in Values
    <3>1. read.object \in Seq(STRING \X Values)
      BY <2>3, ShapeOfValue
    <3>2. \A i \in DOMAIN read.object : read.object[i][2] \in Values
      BY <3>1
    <3>3. \A i \in D : read.object[i][2] = Text(said(i))
      BY <2>3
    <3> HIDE DEF read, said, D
    <3> QED BY <2>3, <3>2, <3>3
  <2>5. \A i \in D : R(Text(said(i))) = Text(RedactText(said(i), secrets))
    BY <2>4, RedactedReading
  <2>6. R(read) = Object([i \in D |-> <<RedactText(read.object[i][1], secrets), R(read.object[i][2])>>])
    BY <2>3, RedactedKinds
  <2>7. \A i \in D : read.object[i][1] = name(i) /\ read.object[i][2] = Text(said(i))
    BY <2>3
  <2>8. R(read) = Object([i \in D |-> <<RedactText(name(i), secrets), Text(RedactText(said(i), secrets))>>])
    <3> HIDE DEF read, said, name, D
    <3> QED BY <2>5, <2>6, <2>7
  <2>9. r = Object([i \in D |-> <<RedactText(name(i), secrets), R(w.object[i][2])>>])
    BY <1>2, RedactedKinds
  <2>10. /\ Is("object", r) /\ DOMAIN r.object = D
         /\ \A i \in D : r.object[i][1] = RedactText(name(i), secrets) /\ r.object[i][2] = R(w.object[i][2])
    BY <2>9 DEF Object, Is
  <2>11. \A i \in D : Said(R(w.object[i][2])) = RedactText(said(i), secrets)
    BY <1>2, <2>1, RedactedScalar
  <2>12. ItemOf(r) = Object([i \in D |-> <<r.object[i][1], Text(Said(r.object[i][2]))>>])
    BY <2>10 DEF ItemOf
  <2>13. ItemOf(r) = Object([i \in D |-> <<RedactText(name(i), secrets), Text(RedactText(said(i), secrets))>>])
    <3> HIDE DEF r, said, name, D, R
    <3> QED BY <2>10, <2>11, <2>12
  <2> QED BY <2>8, <2>13
<1> QED BY <1>1, <1>2

(* A list is empty if and only if it is redacted. *)
LEMMA RedactedEmpty ==
  ASSUME NEW w \in Values, NEW secrets
  PROVE  RedactValue(w, secrets) = EmptyList <=> w = EmptyList
<1> DEFINE r == RedactValue(w, secrets)
<1>1. Is("list", EmptyList) /\ EmptyList.list = <<>>
  BY DEF EmptyList, List, Is
<1>2. CASE ~Is("list", w)
  <2>1. ~Is("list", r)
    BY <1>2, RedactedKinds
  <2> QED BY <1>1, <1>2, <2>1
<1>3. CASE Is("list", w)
  <2>1. r = List([i \in DOMAIN w.list |-> RedactValue(w.list[i], secrets)])
    BY <1>3, RedactedKinds
  <2>2. w = List(w.list) /\ w.list \in Seq(Values)
    BY <1>3, ValueOfKind, ShapeOfValue
  <2>3. w = EmptyList <=> w.list = <<>>
    BY <1>1, <2>2 DEF EmptyList
  <2>4. r.list = [i \in DOMAIN w.list |-> RedactValue(w.list[i], secrets)]
    BY <2>1 DEF List
  <2>5. DOMAIN r.list = DOMAIN w.list
    BY <2>4
  <2>6. w.list # <<>> <=> 1 \in DOMAIN w.list
    BY <2>2
  <2>7. CASE w.list = <<>>
    <3>1. [i \in DOMAIN w.list |-> RedactValue(w.list[i], secrets)] = <<>>
      BY <2>7
    <3> QED BY <2>1, <2>3, <2>7, <3>1 DEF EmptyList
  <2>8. CASE w.list # <<>>
    <3>1. 1 \in DOMAIN r.list
      BY <2>5, <2>6, <2>8
    <3>2. r.list # <<>>
      BY <3>1
    <3>3. r # EmptyList
      BY <1>1, <3>2
    <3> QED BY <2>3, <2>8, <3>3
  <2> QED BY <2>7, <2>8
<1> QED BY <1>2, <1>3

(* What a field is made of: no lists of lists, and no objects in objects. *)
Shallow(w) ==
  \/ Scalar(w)
  \/ Is("object", w) /\ \A i \in DOMAIN w.object : Scalar(w.object[i][2])

(* An item read and redacted is the item redacted and read. *)
LEMMA ItemOfRedacted ==
  ASSUME KeyApart, NEW secrets \in SUBSET {Key}, NEW w \in Values, ItemOf(w) \in Values, Shallow(w)
  PROVE  RedactValue(ItemOf(w), secrets) = ItemOf(RedactValue(w, secrets))
BY RedactedItem DEF Shallow

(* Fields that are redacted are read as the fields that are read, redacted. *)
LEMMA FieldOfRedacted ==
  ASSUME KeyApart, NEW secrets \in SUBSET {Key}, NEW w \in Values,
         FieldOf(w) \in Values, w # EmptyList,
         Shallow(w) \/ (Is("list", w) /\ \A k \in DOMAIN w.list : Shallow(w.list[k]))
  PROVE  RedactValue(FieldOf(w), secrets) = FieldOf(RedactValue(w, secrets))
<1> DEFINE R(x) == RedactValue(x, secrets)
<1>1. CASE ~Is("list", w)
  <2>1. FieldOf(w) = ItemOf(w)
    BY <1>1 DEF FieldOf
  <2>2. ~Is("list", R(w))
    BY <1>1, RedactedKinds
  <2>3. FieldOf(R(w)) = ItemOf(R(w))
    BY <2>2 DEF FieldOf
  <2> QED BY <1>1, <2>1, <2>3, ItemOfRedacted
<1>2. CASE Is("list", w)
  <2> DEFINE n == Len(w.list)
             items == [k \in 1..n |-> ItemOf(w.list[k])]
  <2>1. /\ w.list \in Seq(Values) /\ n \in Nat /\ DOMAIN w.list = 1..n /\ w = List(w.list)
        /\ \A k \in 1..n : w.list[k] \in Values
    BY <1>2, ShapeOfValue, ValueOfKind
  <2>2. FieldOf(w) = Combined(items)
    BY <1>2, <2>1 DEF FieldOf
  <2>3. Len(items) = n
    BY <2>1
  <2>4. \A k \in 1..n : Shallow(w.list[k])
    <3>1. ~Shallow(w)
      BY <1>2, KindsApart DEF Shallow, Scalar
    <3> QED BY <2>1, <3>1
  <2>5. R(w) = List([k \in 1..n |-> R(w.list[k])])
    <3>1. R(w) = List([k \in DOMAIN w.list |-> R(w.list[k])])
      BY <1>2, RedactedList
    <3> QED BY <2>1, <3>1
  <2>6. Is("list", R(w)) /\ R(w).list = [k \in 1..n |-> R(w.list[k])] /\ DOMAIN R(w).list = 1..n
    BY <2>5 DEF List, Is
  <2>7. FieldOf(R(w)) = Combined([k \in 1..n |-> ItemOf(R(w).list[k])])
    BY <2>6 DEF FieldOf
  <2>8. FieldOf(R(w)) = Combined([k \in 1..n |-> ItemOf(R(w.list[k]))])
    <3>1. [k \in 1..n |-> ItemOf(R(w).list[k])] = [k \in 1..n |-> ItemOf(R(w.list[k]))]
      <4>1. \A k \in 1..n : R(w).list[k] = R(w.list[k])
        BY <2>6
      <4> HIDE DEF n, R
      <4> QED BY <4>1
    <3> QED BY <2>7, <3>1
  <2>9. CASE n = 1
    <3>1. Combined(items) = ItemOf(w.list[1])
      BY <2>3, <2>9 DEF Combined
    <3>2. Combined([k \in 1..n |-> ItemOf(R(w.list[k]))]) = ItemOf(R(w.list[1]))
      <4> DEFINE f == [k \in 1..n |-> ItemOf(R(w.list[k]))]
      <4>1. Len(f) = n /\ f[1] = ItemOf(R(w.list[1]))
        BY <2>9
      <4> HIDE DEF f
      <4>2. Combined(f) = f[1]
        BY <2>9, <4>1 DEF Combined
      <4> QED BY <4>1, <4>2 DEF f
    <3>3. R(ItemOf(w.list[1])) = ItemOf(R(w.list[1]))
      BY <2>1, <2>2, <2>4, <2>9, <3>1, ItemOfRedacted
    <3> QED BY <2>2, <2>8, <3>1, <3>2, <3>3
  <2>10. CASE n # 1
    <3>1. FieldOf(w) = List(items)
      BY <2>2, <2>3, <2>10 DEF Combined
    <3>2. Is("list", FieldOf(w)) /\ FieldOf(w).list = items
      BY <3>1 DEF List, Is
    <3>3. \A k \in 1..n : items[k] \in Values
      <4>1. items \in Seq(Values)
        BY <3>2, ShapeOfValue
      <4> QED BY <2>3, <4>1
    <3>4. \A k \in 1..n : R(ItemOf(w.list[k])) = ItemOf(R(w.list[k]))
      BY <2>1, <2>4, <3>3, ItemOfRedacted
    <3>5. R(FieldOf(w)) = List([k \in DOMAIN items |-> R(items[k])])
      <4> DEFINE q == FieldOf(w)
      <4>1. R(q) = List([k \in DOMAIN q.list |-> R(q.list[k])])
        BY <3>2, RedactedList
      <4> QED BY <3>2, <4>1
    <3>6. [k \in DOMAIN items |-> R(items[k])] = [k \in 1..n |-> ItemOf(R(w.list[k]))]
      <4> HIDE DEF R, n
      <4> QED BY <3>4
    <3>7. Combined([k \in 1..n |-> ItemOf(R(w.list[k]))]) = List([k \in 1..n |-> ItemOf(R(w.list[k]))])
      <4> DEFINE f == [k \in 1..n |-> ItemOf(R(w.list[k]))]
      <4>1. Len(f) = n
        BY <2>1
      <4> HIDE DEF f
      <4> QED BY <2>10, <4>1 DEF Combined, f
    <3> QED BY <2>8, <3>5, <3>6, <3>7
  <2> QED BY <2>9, <2>10
<1> QED BY <1>1, <1>2

(* What a value is made of, but for its names. *)
Shaped(w) == Shallow(w) \/ (Is("list", w) /\ \A k \in DOMAIN w.list : Shallow(w.list[k]))

(* So it is with all the fields of an answer. *)
LEMMA RedactedEntries ==
  ASSUME KeyApart, NEW secrets \in SUBSET {Key},
         NEW u \in Values, Is("object", u), \A i \in DOMAIN u.object : Shaped(u.object[i][2]),
         NEW y \in Values, Is("object", y), Entries(y.object) = Kept(u)
  PROVE  Entries(RedactValue(y, secrets).object) = Kept(RedactValue(u, secrets))
<1> DEFINE R(x) == RedactValue(x, secrets)
           T(name) == RedactText(name, secrets)
           D == DOMAIN u.object
           v == R(u)
           x == R(y)
<1>1. /\ DOMAIN v.object = D
      /\ \A i \in D : v.object[i][1] = T(u.object[i][1]) /\ v.object[i][2] = R(u.object[i][2])
  <2>1. v.object = [i \in D |-> <<T(u.object[i][1]), R(u.object[i][2])>>]
    BY RedactedObject
  <2> HIDE DEF v, T, R
  <2> QED BY <2>1
<1>2. /\ DOMAIN x.object = DOMAIN y.object
      /\ \A j \in DOMAIN y.object : x.object[j] = <<T(y.object[j][1]), R(y.object[j][2])>>
  <2>1. x.object = [i \in DOMAIN y.object |-> <<T(y.object[i][1]), R(y.object[i][2])>>]
    BY RedactedObject
  <2> HIDE DEF x, T, R
  <2> QED BY <2>1
<1>3. \A i \in D : u.object[i][2] \in Values
  <2>1. u.object \in Seq(STRING \X Values)
    BY ShapeOfValue
  <2> QED BY <2>1
<1>4. \A j \in DOMAIN y.object : y.object[j][2] \in Values
  <2>1. y.object \in Seq(STRING \X Values)
    BY ShapeOfValue
  <2> QED BY <2>1
<1>5. Filled(v) = Filled(u)
  <2>1. \A i \in D : v.object[i][2] # EmptyList <=> u.object[i][2] # EmptyList
    BY <1>1, <1>3, RedactedEmpty
  <2> HIDE DEF v
  <2> QED BY <1>1, <2>1 DEF Filled
<1>6. \A i \in Filled(u) : FieldOf(u.object[i][2]) \in Values
  <2> SUFFICES ASSUME NEW i \in Filled(u) PROVE FieldOf(u.object[i][2]) \in Values
    OBVIOUS
  <2>1. <<u.object[i][1], FieldOf(u.object[i][2])>> \in Entries(y.object)
    BY DEF Kept
  <2>2. PICK j \in DOMAIN y.object : y.object[j] = <<u.object[i][1], FieldOf(u.object[i][2])>>
    BY <2>1 DEF Entries
  <2> QED BY <1>4, <2>2
<1>7. \A i \in Filled(u) : R(FieldOf(u.object[i][2])) = FieldOf(v.object[i][2])
  <2> SUFFICES ASSUME NEW i \in Filled(u) PROVE R(FieldOf(u.object[i][2])) = FieldOf(v.object[i][2])
    OBVIOUS
  <2> DEFINE w == u.object[i][2]
  <2>1. w \in Values /\ w # EmptyList /\ FieldOf(w) \in Values /\ Shaped(w) /\ v.object[i][2] = R(w)
    BY <1>1, <1>3, <1>6 DEF Filled
  <2> HIDE DEF w
  <2>2. R(FieldOf(w)) = FieldOf(R(w))
    BY <2>1, FieldOfRedacted DEF Shaped
  <2> QED BY <2>1, <2>2 DEF w
<1>8. Filled(u) \subseteq D
  BY DEF Filled
<1> HIDE DEF R, T, D, v, x
<1>9. Kept(v) = {<<T(u.object[i][1]), R(FieldOf(u.object[i][2]))>> : i \in Filled(u)}
  <2>1. \A i \in Filled(u) : <<v.object[i][1], FieldOf(v.object[i][2])>> =
                              <<T(u.object[i][1]), R(FieldOf(u.object[i][2]))>>
    BY <1>1, <1>7, <1>8
  <2> QED BY <1>5, <2>1 DEF Kept
<1>10. Entries(x.object) = {<<T(e[1]), R(e[2])>> : e \in Entries(y.object)}
  <2>1. Entries(x.object) = {<<T(y.object[j][1]), R(y.object[j][2])>> : j \in DOMAIN y.object}
    <3>1. DOMAIN x.object = DOMAIN y.object
      BY ONLY <1>2
    <3>2. \A j \in DOMAIN y.object : x.object[j] = <<T(y.object[j][1]), R(y.object[j][2])>>
      BY ONLY <1>2
    <3>3. Entries(x.object) = {x.object[j] : j \in DOMAIN y.object}
      BY ONLY <3>1, Zenon DEF Entries
    <3>4. \A e : e \in {x.object[j] : j \in DOMAIN y.object}
                 <=> \E j \in DOMAIN y.object : e = <<T(y.object[j][1]), R(y.object[j][2])>>
      BY ONLY <3>2
    <3> QED BY ONLY <3>3, <3>4
  <2> QED BY <2>1 DEF Entries
<1> DEFINE mapped(e) == <<T(e[1]), R(e[2])>>
<1>11. \A i \in Filled(u) : mapped(<<u.object[i][1], FieldOf(u.object[i][2])>>) =
                              <<T(u.object[i][1]), R(FieldOf(u.object[i][2]))>>
  OBVIOUS
<1>13. Entries(x.object) = {mapped(e) : e \in Entries(y.object)}
  BY <1>10
<1>14. Entries(y.object) = {<<u.object[i][1], FieldOf(u.object[i][2])>> : i \in Filled(u)}
  BY DEF Kept
<1> HIDE DEF mapped
<1>15. {mapped(e) : e \in Entries(y.object)} =
         {mapped(<<u.object[i][1], FieldOf(u.object[i][2])>>) : i \in Filled(u)}
  BY ONLY <1>14
<1>12. Entries(x.object) = Kept(v)
  BY <1>9, <1>11, <1>13, <1>15
<1> QED BY <1>12 DEF R, v, x

(* A documented answer, before it is redacted. *)
LEMMA RawShape ==
  ASSUME NEW secrets \in SUBSET {Key}, NEW u \in Values, Proper(RedactValue(u, secrets))
  PROVE  Regular(u) /\ \A i \in DOMAIN u.object : Shaped(u.object[i][2])
<1> DEFINE R(x) == RedactValue(x, secrets)
           v == R(u)
           D == DOMAIN u.object
<1>1. Is("object", u)
  BY RedactedKinds DEF Proper
<1>2. /\ DOMAIN v.object = D
      /\ \A i \in D : /\ v.object[i][1] = RedactText(u.object[i][1], secrets)
                      /\ v.object[i][2] = R(u.object[i][2])
  <2>1. v.object = [i \in D |-> <<RedactText(u.object[i][1], secrets), R(u.object[i][2])>>]
    BY <1>1, RedactedObject
  <2> HIDE DEF v, R
  <2> QED BY <2>1
<1>3. \A i \in D : u.object[i][2] \in Values
  <2>1. u.object \in Seq(STRING \X Values)
    BY <1>1, ShapeOfValue
  <2> QED BY <2>1
<1>4. \A w \in Values : Scalar(R(w)) => Scalar(w)
  BY RedactedKinds DEF Scalar
<1>5. \A w \in Values : Is("object", w) /\ Distinct(R(w)) => Named(w)
  <2> SUFFICES ASSUME NEW w \in Values, Is("object", w), Distinct(R(w)),
                      NEW i \in DOMAIN w.object, NEW j \in DOMAIN w.object, i # j
               PROVE  w.object[i][1] # w.object[j][1]
    BY DEF Named
  <2>1. R(w).object = [k \in DOMAIN w.object |-> <<RedactText(w.object[k][1], secrets), R(w.object[k][2])>>]
    BY RedactedObject
  <2>2. /\ DOMAIN R(w).object = DOMAIN w.object
        /\ \A k \in DOMAIN w.object : R(w).object[k][1] = RedactText(w.object[k][1], secrets)
    <3> HIDE DEF R
    <3> QED BY <2>1
  <2>3. NormalizeKey(R(w).object[i][1]) # NormalizeKey(R(w).object[j][1])
    BY <2>2 DEF Distinct, SameName
  <2> QED BY <2>2, <2>3
<1>6. \A w \in Values : Plain(R(w)) => Flat(w)
  <2> SUFFICES ASSUME NEW w \in Values, Plain(R(w)) PROVE Flat(w)
    OBVIOUS
  <2>1. Is("object", w) /\ Named(w)
    BY <1>5, RedactedKinds DEF Plain
  <2>2. R(w).object = [k \in DOMAIN w.object |-> <<RedactText(w.object[k][1], secrets), R(w.object[k][2])>>]
    BY <2>1, RedactedObject
  <2>3. w.object \in Seq(STRING \X Values)
    BY <2>1, ShapeOfValue
  <2>4. /\ DOMAIN R(w).object = DOMAIN w.object
        /\ \A k \in DOMAIN w.object : R(w).object[k][2] = R(w.object[k][2])
    <3> HIDE DEF R
    <3> QED BY <2>2
  <2>5. \A k \in DOMAIN w.object : Scalar(w.object[k][2])
    <3>1. \A k \in DOMAIN w.object : Scalar(R(w.object[k][2])) /\ w.object[k][2] \in Values
      BY <2>3, <2>4 DEF Plain
    <3> QED BY <1>4, <3>1
  <2>6. w.object # <<>>
    <3>1. [k \in DOMAIN <<>> |-> <<RedactText(<<>>[k][1], secrets), R(<<>>[k][2])>>] = <<>>
      OBVIOUS
    <3>2. R(w).object # <<>>
      BY DEF Plain
    <3> HIDE DEF R
    <3> QED BY <2>2, <3>1, <3>2
  <2> QED BY <2>1, <2>5, <2>6 DEF Flat
<1>7. \A w \in Values : Flat(w) => Shallow(w)
  BY DEF Flat, Shallow
<1>8. \A i \in D : Field(u.object[i][2]) /\ Shaped(u.object[i][2])
  <2> SUFFICES ASSUME NEW i \in D PROVE Field(u.object[i][2]) /\ Shaped(u.object[i][2])
    OBVIOUS
  <2> DEFINE w == u.object[i][2]
             name == v.object[i][1]
  <2>1. w \in Values /\ v.object[i][2] = R(w)
    BY <1>2, <1>3
  <2>2. Scalar(R(w)) \/ Plain(R(w)) \/ Listing(name, R(w))
    BY <1>2, <2>1 DEF Proper
  <2> HIDE DEF w, name
  <2>3. CASE Scalar(R(w))
    BY <1>4, <2>1, <2>3 DEF Field, Item, Shaped, Shallow, w
  <2>4. CASE Plain(R(w))
    BY <1>6, <1>7, <2>1, <2>4 DEF Field, Item, Shaped, w
  <2>5. CASE Listing(name, R(w))
    <3>1. Is("list", w)
      BY <2>1, <2>5, RedactedKinds DEF Listing
    <3>2. R(w) = List([k \in DOMAIN w.list |-> R(w.list[k])])
      BY <2>1, <3>1, RedactedList
    <3>3. w.list \in Seq(Values)
      BY <2>1, <3>1, ShapeOfValue
    <3>4. R(w).list = [k \in DOMAIN w.list |-> R(w.list[k])]
      BY <3>2 DEF List
    <3>5. \A k \in DOMAIN w.list : /\ w.list[k] \in Values
                                   /\ Scalar(R(w.list[k])) \/ Plain(R(w.list[k]))
      <4>1. DOMAIN R(w).list = DOMAIN w.list /\ \A k \in DOMAIN w.list : R(w).list[k] = R(w.list[k])
        <5> HIDE DEF R
        <5> QED BY <3>4
      <4> QED BY <2>5, <3>3, <4>1 DEF Listing
    <3>6. \A k \in DOMAIN w.list : Item(w.list[k]) /\ Shallow(w.list[k])
      BY <1>4, <1>6, <1>7, <3>5 DEF Item, Shallow
    <3> QED BY <3>1, <3>6 DEF Field, Shaped, w
  <2> QED BY <2>2, <2>3, <2>4, <2>5 DEF w
<1>9. \E i \in D : i \in Filled(u)
  <2>1. PICK i \in D : v.object[i][2] # EmptyList
    BY <1>2 DEF Proper, EmptyList
  <2>2. u.object[i][2] # EmptyList
    BY <1>2, <1>3, <2>1, RedactedEmpty
  <2> QED BY <2>2 DEF Filled
<1>10. Named(u)
  BY <1>1, <1>5 DEF Proper
<1> QED BY <1>1, <1>8, <1>9, <1>10 DEF Regular

-----------------------------------------------------------------------------
(* What is found in an answer, in either format *)

(* The fields of an object in JSON, and those that are read of its XML. *)
Alike(v, x) ==
  /\ v \in Values /\ Is("object", v) /\ Distinct(v)
  /\ x \in Values /\ Is("object", x)
  /\ Entries(x.object) = Kept(v)

(* A name is there, in one of its spellings. *)
There(v, name) == Spelled(v, name) # {}

(* A value is found at the one place that has a spelling of its name. *)
LEMMA FoundOnce ==
  ASSUME NEW v \in Values, Is("object", v), Distinct(v), NEW name, NEW i \in DOMAIN v.object,
         SameName(v.object[i][1], name)
  PROVE  There(v, name) /\ Value(v, name) = v.object[i][2]
<1>1. Spelled(v, name) = {i}
  <2>1. i \in Spelled(v, name)
    BY DEF Spelled, SameName
  <2>2. \A j \in Spelled(v, name) : j = i
    BY DEF Spelled, SameName, Distinct
  <2> QED BY <2>1, <2>2
<1>2. Max({i}) = i
  <2>1. i \in Nat
    BY ShapeOfValue
  <2>2. {i} \in SUBSET (1..i) /\ {i} # {}
    <3>1. v.object \in Seq(STRING \X Values)
      BY ShapeOfValue
    <3>2. i \in 1..i
      BY <3>1
    <3> QED BY <3>2
  <2>3. Max({i}) \in {i}
    BY ONLY <2>1, <2>2, MaxOfPlaces
  <2> QED BY <2>3
<1> QED BY <1>1, <1>2 DEF There, Value

(* A field of the XML is one of the JSON. *)
LEMMA FieldBehind ==
  ASSUME NEW v, NEW x, Alike(v, x), NEW j \in DOMAIN x.object
  PROVE  \E i \in Filled(v) : /\ x.object[j][1] = v.object[i][1]
                              /\ x.object[j][2] = FieldOf(v.object[i][2])
<1>1. x.object[j] \in Kept(v)
  BY DEF Alike, Entries
<1> QED BY <1>1 DEF Kept

(* What is found by a name in the XML is what is read of the value found   *)
(* in the JSON, if that is no empty list.                                  *)
LEMMA Lookup ==
  ASSUME NEW v, NEW x, Alike(v, x), NEW name
  PROVE  /\ There(x, name) <=> There(v, name) /\ Value(v, name) # EmptyList
         /\ There(x, name) => Value(x, name) = FieldOf(Value(v, name))
<1>1. /\ v \in Values /\ Is("object", v) /\ Distinct(v) /\ x \in Values /\ Is("object", x)
      /\ Entries(x.object) = Kept(v)
  BY DEF Alike
<1>2. \A j \in Spelled(x, name) : /\ There(v, name) /\ Value(v, name) # EmptyList
                                  /\ x.object[j][2] = FieldOf(Value(v, name))
  <2> SUFFICES ASSUME NEW j \in Spelled(x, name)
               PROVE  /\ There(v, name) /\ Value(v, name) # EmptyList
                      /\ x.object[j][2] = FieldOf(Value(v, name))
    OBVIOUS
  <2>1. j \in DOMAIN x.object /\ SameName(x.object[j][1], name)
    BY DEF Spelled, SameName
  <2>2. PICK i \in Filled(v) : /\ x.object[j][1] = v.object[i][1]
                               /\ x.object[j][2] = FieldOf(v.object[i][2])
    BY <2>1, FieldBehind
  <2>3. i \in DOMAIN v.object /\ v.object[i][2] # EmptyList /\ SameName(v.object[i][1], name)
    BY <2>1, <2>2 DEF Filled
  <2>4. There(v, name) /\ Value(v, name) = v.object[i][2]
    BY <1>1, <2>3, FoundOnce
  <2> QED BY <2>2, <2>3, <2>4
<1>3. CASE There(x, name)
  <2>1. x.object \in Seq(STRING \X Values)
    BY <1>1, ShapeOfValue
  <2>2. Spelled(x, name) \in SUBSET (1..Len(x.object)) /\ Len(x.object) \in Nat
    BY <2>1 DEF Spelled
  <2>3. Max(Spelled(x, name)) \in Spelled(x, name)
    BY <1>3, <2>2, MaxOfPlaces DEF There
  <2>4. Value(x, name) = x.object[Max(Spelled(x, name))][2]
    BY <1>3 DEF Value, There
  <2> QED BY <1>2, <1>3, <2>3, <2>4
<1>4. ASSUME There(v, name), Value(v, name) # EmptyList PROVE There(x, name)
  <2>1. PICK i : i \in Spelled(v, name)
    BY <1>4 DEF There
  <2>2. i \in DOMAIN v.object /\ SameName(v.object[i][1], name)
    BY <2>1 DEF Spelled, SameName
  <2>3. Value(v, name) = v.object[i][2]
    BY <1>1, <2>2, FoundOnce
  <2>4. i \in Filled(v)
    BY <1>4, <2>2, <2>3 DEF Filled
  <2>5. <<v.object[i][1], FieldOf(v.object[i][2])>> \in Entries(x.object)
    BY <1>1, <2>4 DEF Kept
  <2>6. PICK j \in DOMAIN x.object : x.object[j] = <<v.object[i][1], FieldOf(v.object[i][2])>>
    BY <2>5 DEF Entries
  <2>7. j \in Spelled(x, name)
    BY <2>2, <2>6 DEF Spelled, SameName
  <2> QED BY <2>7 DEF There
<1> QED BY <1>3, <1>4

(* Where a value is found. *)
LEMMA Whereabouts ==
  ASSUME NEW v \in Values, Is("object", v), Distinct(v), NEW name
  PROVE  IF There(v, name)
         THEN \E i \in DOMAIN v.object :
                SameName(v.object[i][1], name) /\ Value(v, name) = v.object[i][2]
         ELSE Value(v, name) = Null
<1>1. CASE There(v, name)
  <2>1. PICK i \in DOMAIN v.object : SameName(v.object[i][1], name)
    BY <1>1 DEF There, Spelled, SameName
  <2> QED BY <1>1, <2>1, FoundOnce
<1>2. CASE ~There(v, name)
  BY <1>2 DEF There, Value
<1> QED BY <1>1, <1>2

(* No field is read as a null or an empty list. *)
LEMMA FieldOfShape ==
  ASSUME NEW w \in Values, w # EmptyList, Shaped(w)
  PROVE  /\ FieldOf(w) # Null
         /\ Scalar(w) => FieldOf(w) = Text(Said(w))
         /\ Is("object", w) => FieldOf(w) = ItemOf(w) /\ Is("object", FieldOf(w))
<1>0. \A y : ItemOf(y) # Null
  BY DEF ItemOf, Object, Text, Null
<1>1. CASE ~Is("list", w)
  <2>1. FieldOf(w) = ItemOf(w)
    BY <1>1 DEF FieldOf
  <2>2. Scalar(w) => ItemOf(w) = Text(Said(w))
    BY DEF Scalar, ItemOf
  <2>3. Is("object", w) => Is("object", ItemOf(w))
    BY DEF ItemOf, Object, Is
  <2> QED BY <1>0, <2>1, <2>2, <2>3
<1>2. CASE Is("list", w)
  <2> DEFINE items == [k \in DOMAIN w.list |-> ItemOf(w.list[k])]
  <2>1. FieldOf(w) = Combined(items)
    BY <1>2 DEF FieldOf
  <2>2. ~Scalar(w) /\ ~Is("object", w) /\ w.list \in Seq(Values) /\ DOMAIN w.list = 1..Len(w.list)
    BY <1>2, KindsApart, ShapeOfValue DEF Scalar
  <2>3. Len(items) = 1 => items[1] # Null
    <3>1. Len(items) = Len(w.list)
      BY <2>2
    <3>2. Len(w.list) = 1 => items[1] = ItemOf(w.list[1])
      BY <2>2
    <3> QED BY <1>0, <3>1, <3>2
  <2> HIDE DEF items
  <2>4. Combined(items) # Null
    BY <2>3 DEF Combined, List, Null
  <2> QED BY <2>1, <2>2, <2>4
<1> QED BY <1>1, <1>2

(* What is written of a scalar is read as it: numbers and dates always,    *)
(* texts if it is no boolean, booleans if it is no text of blanks.         *)
LEMMA SaidAlike ==
  ASSUME Legible, NEW w \in Values, Scalar(w)
  PROVE  LET x == Text(Said(w)) IN
         /\ ~Is("bool", w) => TextOf(x) = TextOf(w)
         /\ FloatOf(x) = FloatOf(w) /\ IntOf(x) = IntOf(w) /\ DatetimeOf(x) = DatetimeOf(w)
         /\ w # [text |-> "", padded |-> TRUE] => BoolOf(x) = BoolOf(w)
<1> DEFINE x == Text(Said(w))
<1>1. /\ Is("text", x) /\ x.text = Said(w) /\ x = [text |-> Said(w), padded |-> FALSE]
      /\ ~Is("bool", x) /\ ~Is("null", x) /\ ~Is("number", x)
  BY DEF Text, Is
<1> HIDE DEF x
<1>2. Blank(x) <=> Said(w) = ""
  BY <1>1 DEF Blank
<1>3. Printed(x) = Said(w)
  BY <1>1, PrintedKinds
<1>4. x = Null => FALSE
  BY <1>1 DEF Null, Is
<1>5. x = Text("") <=> Said(w) = ""
  BY <1>1 DEF Text
<1>6. BoolOf(x) = IF Said(w) = "" THEN None ELSE Said(w) \in Truths
  BY <1>1, <1>3, <1>4, <1>5 DEF BoolOf
<1>11. Is("null", Null) /\ Is("text", Text(""))
  BY DEF Null, Is, Text
<1>7. CASE Is("text", w)
  <2>1. /\ Said(w) = w.text /\ Printed(w) = w.text /\ (Blank(w) <=> w.text = "")
        /\ ~Is("bool", w) /\ ~Is("null", w)
    BY <1>7, KindsApart, SaidOfKind, PrintedKinds DEF Blank
  <2>2. w = [text |-> w.text, padded |-> w.padded] /\ w.padded \in BOOLEAN
    BY <1>7, ValueOfKind
  <2>3. TextOf(x) = TextOf(w) /\ FloatOf(x) = FloatOf(w) /\ DatetimeOf(x) = DatetimeOf(w)
    BY <1>2, <1>3, <2>1 DEF TextOf, FloatOf, DatetimeOf
  <2>4. IntOf(x) = IntOf(w)
    BY <2>3 DEF IntOf
  <2>5. w # Null
    BY <1>7 DEF Null, Is
  <2>6. w # [text |-> "", padded |-> TRUE] => (w = Text("") <=> w.text = "")
    <3>4. Text("").text = ""
      BY DEF Text
    <3>1. w = Text("") => w.text = ""
      BY <3>4
    <3>2. w.text = "" /\ w.padded = TRUE => w = [text |-> "", padded |-> TRUE]
      BY <2>2
    <3>3. w.text = "" /\ w.padded = FALSE => w = Text("")
      BY <2>2 DEF Text
    <3> QED BY <2>2, <3>1, <3>2, <3>3
  <2>7. w # [text |-> "", padded |-> TRUE] => BoolOf(w) = IF w.text = "" THEN None ELSE w.text \in Truths
    BY <2>1, <2>5, <2>6 DEF BoolOf
  <2> QED BY <1>6, <2>1, <2>3, <2>4, <2>7 DEF x
<1>8. CASE Is("number", w)
  <2>1. /\ Said(w) = w.number /\ Printed(w) = w.number /\ ~Blank(w)
        /\ ~Is("bool", w) /\ ~Is("null", w) /\ ~Is("text", w) /\ w.number # ""
    BY <1>8, KindsApart, SaidOfKind, PrintedKinds DEF Blank, Legible
  <2>3. TextOf(x) = TextOf(w) /\ FloatOf(x) = FloatOf(w) /\ DatetimeOf(x) = DatetimeOf(w)
    BY <1>2, <1>3, <2>1 DEF TextOf, FloatOf, DatetimeOf
  <2>4. IntOf(x) = IntOf(w)
    BY <2>3 DEF IntOf
  <2>5. w # Null /\ w # Text("")
    BY <1>11, <2>1
  <2>7. BoolOf(w) = (w.number \in Truths)
    BY <2>1, <2>5 DEF BoolOf
  <2> QED BY <1>6, <2>1, <2>3, <2>4, <2>7 DEF x
<1>9. CASE Is("bool", w)
  <2>1. /\ Said(w) = (IF w.bool THEN "true" ELSE "false")
        /\ Printed(w) = (IF w.bool THEN "True" ELSE "False") /\ ~Blank(w)
        /\ ~Is("null", w) /\ ~Is("text", w) /\ w.bool \in BOOLEAN
    <3>1. ~Is("null", w) /\ ~Is("text", w) /\ ~Is("number", w)
      BY <1>9, KindsApart
    <3>2. Printed(w) = (IF w.bool THEN "True" ELSE "False")
      BY <1>9, <3>1 DEF Printed
    <3> QED BY <1>9, <3>1, <3>2, SaidOfKind, ValueOfKind DEF Blank
  <2>2. {"True", "False", "true", "false"} \cap (DOMAIN Numeral \cup DOMAIN Moment) = {}
    BY DEF Legible
  <2>3. FloatOf(x) = None /\ DatetimeOf(x) = None /\ FloatOf(w) = None /\ DatetimeOf(w) = None
    <3>1. Printed(x) \in {"true", "false"} /\ Printed(w) \in {"True", "False"}
      BY <1>3, <2>1
    <3> QED BY <2>2, <3>1 DEF FloatOf, DatetimeOf
  <2>4. IntOf(x) = IntOf(w)
    BY <2>3 DEF IntOf
  <2>5. w # Null /\ w # Text("")
    BY <1>11, <2>1
  <2>6. BoolOf(w) = w.bool
    BY <1>9, <2>5 DEF BoolOf
  <2>7. BoolOf(x) = (Said(w) \in Truths)
    BY <1>6, <2>1
  <2>8. Said(w) \in Truths <=> w.bool
    BY <2>1 DEF Legible
  <2>9. BoolOf(x) = BoolOf(w)
    <3>1. CASE w.bool = TRUE
      <4>1. Said(w) \in Truths
        BY <2>8, <3>1
      <4>2. BoolOf(w) = TRUE
        BY <2>6, <3>1
      <4>3. BoolOf(x) = TRUE
        BY <2>7, <4>1, Zenon
      <4> QED BY <4>2, <4>3
    <3>2. CASE w.bool = FALSE
      <4>1. ~(Said(w) \in Truths)
        BY <2>8, <3>2
      <4>2. BoolOf(w) = FALSE
        BY <2>6, <3>2
      <4>4. (Said(w) \in Truths) = FALSE
        BY <4>1
      <4>3. BoolOf(x) = FALSE
        BY <2>7, <4>4
      <4> QED BY <4>2, <4>3
    <3> QED BY <2>1, <3>1, <3>2
  <2> QED BY <1>9, <2>3, <2>4, <2>9 DEF x
<1>10. CASE Is("null", w)
  <2>1. Said(w) = "" /\ w = Null /\ Blank(w) /\ ~Is("bool", w)
    BY <1>10, KindsApart, SaidOfKind DEF Blank
  <2>3. TextOf(x) = TextOf(w) /\ FloatOf(x) = FloatOf(w) /\ DatetimeOf(x) = DatetimeOf(w)
    BY <1>2, <2>1 DEF TextOf, FloatOf, DatetimeOf
  <2>4. IntOf(x) = IntOf(w)
    BY <2>3 DEF IntOf
  <2>5. BoolOf(w) = None
    BY <2>1 DEF BoolOf
  <2> QED BY <1>6, <2>1, <2>3, <2>4, <2>5 DEF x
<1> QED BY <1>7, <1>8, <1>9, <1>10, KindsApart DEF Scalar

(* What is found first of some names is found first in either format. *)
LEMMA FirstAlike ==
  ASSUME NEW v, NEW x, Alike(v, x), NEW n \in Nat, NEW names, DOMAIN names = 1..n,
         \A k \in 1..n : Value(v, names[k]) # EmptyList
  PROVE  \/ FirstValue(v, names) = Null /\ FirstValue(x, names) = Null
         \/ \E k \in 1..n : /\ There(v, names[k])
                            /\ FirstValue(v, names) = Value(v, names[k])
                            /\ FirstValue(x, names) = FieldOf(Value(v, names[k]))
<1> DEFINE known == {k \in DOMAIN names : Spelled(v, names[k]) # {}}
           read  == {k \in DOMAIN names : Spelled(x, names[k]) # {}}
<1>1. known = read
  <2>1. \A k \in 1..n : There(x, names[k]) <=> There(v, names[k])
    BY Lookup
  <2> QED BY <2>1 DEF There
<1>2. CASE known = {}
  BY <1>1, <1>2 DEF FirstValue
<1>3. CASE known # {}
  <2>1. known \in SUBSET (1..n)
    OBVIOUS
  <2> DEFINE k == Min(known)
  <2>2. k \in known
    <3> HIDE DEF known
    <3> QED BY <1>3, <2>1, MinOfPlaces
  <2>3. FirstValue(v, names) = Value(v, names[k])
    BY <1>3 DEF FirstValue
  <2>4. FirstValue(x, names) = Value(x, names[Min(read)])
    BY <1>1, <1>3 DEF FirstValue
  <2>5. FirstValue(x, names) = Value(x, names[k])
    BY <1>1, <2>4
  <2>6. k \in 1..n /\ There(v, names[k]) /\ There(x, names[k])
    BY <1>1, <2>2 DEF There
  <2> HIDE DEF k
  <2>7. Value(x, names[k]) = FieldOf(Value(v, names[k]))
    BY <2>6, Lookup
  <2> QED BY <2>3, <2>5, <2>6, <2>7
<1> QED BY <1>2, <1>3

(* (a scalar is no list) *)
LEMMA ScalarNoList ==
  ASSUME NEW w, Scalar(w)
  PROVE  w # EmptyList
BY DEF Scalar, EmptyList, List, Is

(* A row, or a result, and what is read of it. *)
LEMMA PlainAlike ==
  ASSUME NEW v \in Values, Plain(v), ItemOf(v) \in Values
  PROVE  Alike(v, ItemOf(v))
<1> DEFINE x == ItemOf(v)
           D == DOMAIN v.object
<1>1. x = Object([i \in D |-> <<v.object[i][1], Text(Said(v.object[i][2]))>>])
  BY DEF ItemOf, Plain
<1>2. Is("object", x) /\ x.object = [i \in D |-> <<v.object[i][1], Text(Said(v.object[i][2]))>>]
  BY <1>1 DEF Object, Is
<1>3. Filled(v) = D
  BY ScalarNoList DEF Filled, Plain
<1>4. \A i \in D : FieldOf(v.object[i][2]) = Text(Said(v.object[i][2]))
  BY DEF Plain, Scalar, FieldOf, ItemOf
<1>5. Entries(x.object) = {<<v.object[i][1], Text(Said(v.object[i][2]))>> : i \in D}
  <2>1. DOMAIN x.object = D /\ \A i \in D : x.object[i] = <<v.object[i][1], Text(Said(v.object[i][2]))>>
    <3> HIDE DEF D, x
    <3> QED BY <1>2
  <2> HIDE DEF D, x
  <2> QED BY <2>1 DEF Entries
<1>6. Kept(v) = {<<v.object[i][1], Text(Said(v.object[i][2]))>> : i \in D}
  BY <1>3, <1>4 DEF Kept
<1> HIDE DEF x
<1>7. Entries(x.object) = Kept(v)
  BY <1>5, <1>6
<1> QED BY <1>2, <1>7 DEF Alike, Plain, x

(* A row has scalars only, and no booleans where texts are looked for. *)
LEMMA PlainAt ==
  ASSUME NEW v \in Values, Plain(v), NEW name
  PROVE  /\ Value(v, name) # EmptyList
         /\ There(v, name) =>
              \E w \in Values :
                /\ Value(v, name) = w /\ Scalar(w) /\ w # [text |-> "", padded |-> TRUE]
                /\ name \in TextNames => ~Is("bool", w)
<1>1. CASE There(v, name)
  <2>1. PICK i \in DOMAIN v.object : SameName(v.object[i][1], name) /\ Value(v, name) = v.object[i][2]
    BY <1>1, Whereabouts DEF Plain
  <2> DEFINE w == v.object[i][2]
  <2>2. Scalar(w) /\ Readable(v.object[i][1], w)
    BY DEF Plain
  <2>3. name \in TextNames => Among(v.object[i][1], TextNames)
    BY <2>1 DEF Among
  <2>4. w \in Values
    <3>1. v.object \in Seq(STRING \X Values)
      BY ShapeOfValue DEF Plain
    <3> QED BY <3>1
  <2> HIDE DEF w
  <2>5. w # [text |-> "", padded |-> TRUE] /\ (name \in TextNames => ~Is("bool", w))
    BY <2>2, <2>3 DEF Readable
  <2>6. Value(v, name) = w
    BY <2>1 DEF w
  <2> QED BY <2>2, <2>4, <2>5, <2>6, ScalarNoList
<1>2. CASE ~There(v, name)
  <2>1. Value(v, name) = Null
    BY <1>2 DEF There, Value
  <2>2. Null # EmptyList
    BY DEF Null, EmptyList, List
  <2> QED BY <1>2, <2>1, <2>2
<1> QED BY <1>1, <1>2

(* What is read under some names of it. *)
SameReading(one, other) ==
  /\ FloatOf(one) = FloatOf(other) /\ IntOf(one) = IntOf(other)
  /\ DatetimeOf(one) = DatetimeOf(other) /\ BoolOf(one) = BoolOf(other)

(* The same value is read of a row in either format, whatever its names. *)
LEMMA PlainFirst ==
  ASSUME Legible, NEW v \in Values, Plain(v), ItemOf(v) \in Values,
         NEW n \in Nat, NEW names, DOMAIN names = 1..n
  PROVE  /\ SameReading(FirstValue(ItemOf(v), names), FirstValue(v, names))
         /\ (\A k \in 1..n : names[k] \in TextNames) =>
              TextOf(FirstValue(ItemOf(v), names)) = TextOf(FirstValue(v, names))
<1> DEFINE x == ItemOf(v)
<1>1. Alike(v, x)
  BY PlainAlike
<1> HIDE DEF x
<1>2. \A k \in 1..n : Value(v, names[k]) # EmptyList
  BY PlainAt
<1>3. CASE FirstValue(v, names) = Null /\ FirstValue(x, names) = Null
  BY <1>3 DEF x, SameReading
<1>4. CASE ~(FirstValue(v, names) = Null /\ FirstValue(x, names) = Null)
  <2>1. PICK k \in 1..n : /\ There(v, names[k])
                          /\ FirstValue(v, names) = Value(v, names[k])
                          /\ FirstValue(x, names) = FieldOf(Value(v, names[k]))
    BY <1>1, <1>2, <1>4, FirstAlike
  <2>2. PICK w \in Values :
          /\ Value(v, names[k]) = w /\ Scalar(w) /\ w # [text |-> "", padded |-> TRUE]
          /\ names[k] \in TextNames => ~Is("bool", w)
    BY <2>1, PlainAt
  <2>3. FieldOf(w) = Text(Said(w))
    BY <2>2 DEF FieldOf, ItemOf, Scalar
  <2>4. SameReading(Text(Said(w)), w) /\ (~Is("bool", w) => TextOf(Text(Said(w))) = TextOf(w))
    BY <2>2, SaidAlike DEF SameReading
  <2>5. FirstValue(v, names) = w /\ FirstValue(x, names) = Text(Said(w))
    BY <2>1, <2>2, <2>3
  <2> QED BY <2>2, <2>4, <2>5 DEF x
<1> QED BY <1>3, <1>4

(* One name is a sequence of names. *)
LEMMA PlainText ==
  ASSUME Legible, NEW v \in Values, Plain(v), ItemOf(v) \in Values, NEW name \in TextNames
  PROVE  TextOf(Value(ItemOf(v), name)) = TextOf(Value(v, name))
<1> DEFINE x == ItemOf(v)
<1>1. Alike(v, x)
  BY PlainAlike
<1> HIDE DEF x
<1>2. CASE There(v, name)
  <2>2. PICK w \in Values :
          /\ Value(v, name) = w /\ Scalar(w) /\ ~Is("bool", w) /\ w # EmptyList
    BY <1>2, PlainAt
  <2>3. FieldOf(w) = Text(Said(w))
    BY <2>2 DEF FieldOf, ItemOf, Scalar
  <2>4. Value(x, name) = FieldOf(w)
    BY <1>1, <1>2, <2>2, Lookup
  <2>5. TextOf(Text(Said(w))) = TextOf(w)
    BY <2>2, SaidAlike
  <2> QED BY <2>2, <2>3, <2>4, <2>5 DEF x
<1>3. CASE ~There(v, name)
  <2>1. ~There(x, name)
    BY <1>1, <1>3, Lookup
  <2> QED BY <1>3, <2>1 DEF There, Value, x
<1> QED BY <1>2, <1>3

(* The fields of an item are identified by the names they are read under. *)
LEMMA FieldNames ==
  ASSUME NEW service \in RowServices,
         NEW f \in UNION {Fields(service)[kind] : kind \in DOMAIN Fields(service)}
  PROVE  /\ DOMAIN f = 1..Len(f) /\ Len(f) \in Nat
         /\ \E kind \in {"text", "int", "float", "bool", "moment"} : f \in Fields(service)[kind]
<1> DEFINE fields == Fields(service)
<1>1. CASE service = "TrafficInfo"
  <2>1. /\ fields.text = Each({"link_id"})
        /\ fields.int = Each({"prcs_trv_time"})
        /\ fields.float = Each({"prcs_spd"})
        /\ fields.bool = {}
        /\ fields.moment = {}
        /\ DOMAIN fields = {"text", "int", "float", "bool", "moment"}
    BY <1>1 DEF Fields, NoFields
  <2> HIDE DEF fields
  <2>2. \E kind \in {"text", "int", "float", "bool", "moment"} : f \in fields[kind]
    BY <2>1 DEF fields
  <2>3. f \in fields.text \cup fields.int \cup fields.float \cup fields.bool \cup fields.moment
    BY <2>2
  <2>4. DOMAIN f = 1..Len(f) /\ Len(f) \in Nat
    BY <2>1, <2>3 DEF Each
  <2> QED BY <2>2, <2>4 DEF fields
<1>2. CASE service = "realtimePosition"
  <2>1. /\ fields.text = Each({"subwayId", "subwayNm", "statnId", "statnNm", "trainNo",
                         "lastRecptnDt", "updnLine", "statnTid", "statnTnm", "trainSttus"})
        /\ fields.int = {}
        /\ fields.float = {}
        /\ fields.bool = Each({"directAt", "lstcarAt"})
        /\ fields.moment = Each({"recptnDt"})
        /\ DOMAIN fields = {"text", "int", "float", "bool", "moment"}
    BY <1>2 DEF Fields, NoFields
  <2> HIDE DEF fields
  <2>2. \E kind \in {"text", "int", "float", "bool", "moment"} : f \in fields[kind]
    BY <2>1 DEF fields
  <2>3. f \in fields.text \cup fields.int \cup fields.float \cup fields.bool \cup fields.moment
    BY <2>2
  <2>4. DOMAIN f = 1..Len(f) /\ Len(f) \in Nat
    BY <2>1, <2>3 DEF Each
  <2> QED BY <2>2, <2>4 DEF fields
<1>3. CASE service = "realtimeStationArrival"
  <2>1. /\ fields.text = Each({"subwayId", "subwayNm", "updnLine", "trainLineNm", "statnId",
                         "statnNm", "statnFid", "statnTid", "arvlMsg2", "arvlMsg3", "arvlCd"}) \cup
                         {<<"bstatnNm", "statnTnm">>, <<"btrainNo", "trainNo">>, <<"arvlMsg1",
                         "arvlMsg2">>}
        /\ fields.int = Each({"barvlDt"})
        /\ fields.float = {}
        /\ fields.bool = Each({"lstcarAt"})
        /\ fields.moment = Each({"recptnDt"})
        /\ DOMAIN fields = {"text", "int", "float", "bool", "moment"}
    BY <1>3 DEF Fields, NoFields
  <2> HIDE DEF fields
  <2>2. \E kind \in {"text", "int", "float", "bool", "moment"} : f \in fields[kind]
    BY <2>1 DEF fields
  <2>3. f \in fields.text \cup fields.int \cup fields.float \cup fields.bool \cup fields.moment
    BY <2>2
  <2>4. DOMAIN f = 1..Len(f) /\ Len(f) \in Nat
    BY <2>1, <2>3 DEF Each
  <2> QED BY <2>2, <2>4 DEF fields
<1>4. CASE service = "GetParkingInfo"
  <2>1. /\ fields.text = Each({"PKLT_CD", "PKLT_NM", "ADDR", "NOW_PRK_VHCL_UPDT_TM"})
        /\ fields.int = Each({"TPKCT", "NOW_PRK_VHCL_CNT"})
        /\ fields.float = {<<"LAT", "Y">>, <<"LNG", "X">>}
        /\ fields.bool = {}
        /\ fields.moment = {}
        /\ DOMAIN fields = {"text", "int", "float", "bool", "moment"}
    BY <1>4 DEF Fields, NoFields
  <2> HIDE DEF fields
  <2>2. \E kind \in {"text", "int", "float", "bool", "moment"} : f \in fields[kind]
    BY <2>1 DEF fields
  <2>3. f \in fields.text \cup fields.int \cup fields.float \cup fields.bool \cup fields.moment
    BY <2>2
  <2>4. DOMAIN f = 1..Len(f) /\ Len(f) \in Nat
    BY <2>1, <2>3 DEF Each
  <2> QED BY <2>2, <2>4 DEF fields
<1>5. CASE service = "GetParkInfo"
  <2>1. /\ fields.text = Each({"PKLT_CD", "PKLT_NM", "ADDR", "LAST_DATA_SYNC_TM"}) \cup
                         {<<"OPRT_STTS", "OPRT_TYPE", "OPER_SE_NM">>, <<"WD_OPR_STRT_TM",
                         "WD_OPER_BGNG_TM">>, <<"WD_OPR_END_TM", "WD_OPER_END_TM">>,
                         <<"SAT_OPR_STRT_TM", "WE_OPER_BGNG_TM">>, <<"SAT_OPR_END_TM",
                         "WE_OPER_END_TM">>, <<"LH_OPR_STRT_TM", "LHLDY_OPER_BGNG_TM", "LHLDY_BGNG",
                         "holiday_open_time">>, <<"LH_OPR_END_TM", "LHLDY_OPER_END_TM", "LHLDY",
                         "holiday_close_time">>}
        /\ fields.int = Each({"TPKCT"})
        /\ fields.float = {<<"LAT">>, <<"LNG", "LOT">>}
        /\ fields.bool = {}
        /\ fields.moment = {}
        /\ DOMAIN fields = {"text", "int", "float", "bool", "moment"}
    BY <1>5 DEF Fields, NoFields
  <2> HIDE DEF fields
  <2>2. \E kind \in {"text", "int", "float", "bool", "moment"} : f \in fields[kind]
    BY <2>1 DEF fields
  <2>3. f \in fields.text \cup fields.int \cup fields.float \cup fields.bool \cup fields.moment
    BY <2>2
  <2>4. DOMAIN f = 1..Len(f) /\ Len(f) \in Nat
    BY <2>1, <2>3 DEF Each
  <2> QED BY <2>2, <2>4 DEF fields
<1> QED BY <1>1, <1>2, <1>3, <1>4, <1>5
        DEF RowServices, Services, General, Subway, AllStations

(* A row is the same item in either format. *)
LEMMA TypedAlike ==
  ASSUME Legible, NEW v \in Values, Plain(v), ItemOf(v) \in Values, NEW service \in RowServices
  PROVE  Typed(ItemOf(v), service) = Typed(v, service)
<1> DEFINE fields == Fields(service)
           all == UNION {fields[kind] : kind \in DOMAIN fields}
           x == ItemOf(v)
           read(w, f) ==
             CASE f \in fields.text   -> TextOf(w)
               [] f \in fields.int    -> IntOf(w)
               [] f \in fields.float  -> FloatOf(w)
               [] f \in fields.bool   -> BoolOf(w)
               [] f \in fields.moment -> DatetimeOf(w)
<1>1. \A row : Typed(row, service) = [f \in all |-> read(FirstValue(row, f), f)]
  BY DEF Typed
<1>2. ASSUME NEW f \in all PROVE read(FirstValue(x, f), f) = read(FirstValue(v, f), f)
  <2>2. /\ Len(f) \in Nat /\ DOMAIN f = 1..Len(f)
        /\ \E kind \in {"text", "int", "float", "bool", "moment"} : f \in fields[kind]
    BY FieldNames
  <2>3. SameReading(FirstValue(x, f), FirstValue(v, f))
    BY <2>2, PlainFirst
  <2>4. ASSUME f \in fields.text PROVE TextOf(FirstValue(x, f)) = TextOf(FirstValue(v, f))
    <3>1. \A k \in 1..Len(f) : f[k] \in TextNames
      <4>1. \A k \in DOMAIN f : f[k] \in NamesOf(fields.text)
        BY <2>4 DEF NamesOf
      <4>2. NamesOf(fields.text) \subseteq TextNames
        BY DEF TextNames
      <4> QED BY <2>2, <4>1, <4>2
    <3> QED BY <2>2, <3>1, PlainFirst
  <2> DEFINE a == FirstValue(x, f)
             b == FirstValue(v, f)
  <2>5. CASE f \in fields.text
    <3>1. f \notin fields.int /\ f \notin fields.float /\ f \notin fields.bool /\ f \notin fields.moment
      BY <2>5, TextFields DEF RowServices, Services, General, Subway, AllStations
    <3> HIDE DEF fields
    <3>2. \A w : read(w, f) = TextOf(w)
      BY <2>5, <3>1
    <3> QED BY <2>4, <2>5, <3>2
  <2>6. CASE f \notin fields.text
    <3>1. f \in fields.int \/ f \in fields.float \/ f \in fields.bool \/ f \in fields.moment
      BY <2>2, <2>6
    <3>2. IntOf(a) = IntOf(b) /\ FloatOf(a) = FloatOf(b) /\ BoolOf(a) = BoolOf(b) /\ DatetimeOf(a) = DatetimeOf(b)
      BY <2>3 DEF SameReading
    <3> HIDE DEF a, b, fields
    <3>3. read(a, f) = read(b, f)
      BY <2>6, <3>1, <3>2
    <3> QED BY <3>3 DEF a, b
  <2> QED BY <2>5, <2>6
<1> HIDE DEF read, all
<1> QED BY <1>1, <1>2 DEF x

(* It has an identifier in both or in none. *)
LEMMA IdentifiedAlike ==
  ASSUME Legible, NEW v \in Values, Plain(v), ItemOf(v) \in Values, NEW service \in RowServices
  PROVE  Identified(ItemOf(v), service) <=> Identified(v, service)
<1>1. Identifiers(service) \subseteq TextNames
  BY DEF TextNames
<1> QED BY <1>1, PlainText DEF Identified

(* Names that are one name are among the same names. *)
LEMMA AmongSame ==
  ASSUME NEW m, NEW n, SameName(m, n), NEW names
  PROVE  Among(m, names) <=> Among(n, names)
BY DEF Among, SameName

(* What there is under a name of a documented answer. *)
LEMMA ProperAt ==
  ASSUME NEW v \in Values, Proper(v), NEW name, There(v, name)
  PROVE  \E w \in Values :
           /\ Value(v, name) = w /\ Shaped(w) /\ w # [text |-> "", padded |-> TRUE]
           /\ \/ Scalar(w) /\ (Among(name, TextNames) => ~Is("bool", w))
                           /\ (Among(name, RowLists) => w # Null)
              \/ Plain(w)
              \/ /\ Is("list", w) /\ Among(name, RowLists) /\ ~Among(name, TextNames)
                 /\ \A k \in DOMAIN w.list : Scalar(w.list[k]) \/ Plain(w.list[k])
<1>1. Is("object", v) /\ Distinct(v)
  BY DEF Proper
<1>2. PICK i \in DOMAIN v.object : SameName(v.object[i][1], name) /\ Value(v, name) = v.object[i][2]
  BY <1>1, Whereabouts
<1> DEFINE w == v.object[i][2]
           m == v.object[i][1]
<1>3. w \in Values
  <2>1. v.object \in Seq(STRING \X Values)
    BY <1>1, ShapeOfValue
  <2> QED BY <2>1
<1>4. \/ Scalar(w) /\ Readable(m, w) /\ (Among(m, RowLists) => w # Null)
      \/ Plain(w)
      \/ Listing(m, w)
  BY DEF Proper
<1>5. (Among(m, TextNames) <=> Among(name, TextNames)) /\ (Among(m, RowLists) <=> Among(name, RowLists))
  BY <1>2, AmongSame
<1>6. Value(v, name) = w
  BY <1>2
<1> HIDE DEF w, m
<1>11. ~Is("object", [text |-> "", padded |-> TRUE]) /\ ~Is("list", [text |-> "", padded |-> TRUE])
  BY DEF Is
<1>7. \A x : Plain(x) => Shallow(x) /\ x # [text |-> "", padded |-> TRUE]
  BY <1>11 DEF Plain, Shallow
<1>8. CASE Scalar(w) /\ Readable(m, w) /\ (Among(m, RowLists) => w # Null)
  BY <1>3, <1>5, <1>6, <1>8 DEF Shaped, Shallow, Readable
<1>9. CASE Plain(w)
  BY <1>3, <1>6, <1>7, <1>9 DEF Shaped
<1>10. CASE Listing(m, w)
  <2>1. Is("list", w) /\ \A k \in DOMAIN w.list : Scalar(w.list[k]) \/ Plain(w.list[k])
    BY <1>10 DEF Listing
  <2>2. Shaped(w)
    BY <1>7, <2>1 DEF Shaped, Shallow
  <2>3. w # [text |-> "", padded |-> TRUE]
    BY <1>11, <2>1
  <2>4. Among(name, RowLists) /\ ~Among(name, TextNames)
    BY <1>5, <1>10 DEF Listing
  <2> QED BY <1>3, <1>6, <2>1, <2>2, <2>3, <2>4
<1> QED BY <1>4, <1>8, <1>9, <1>10

(* The texts of an answer are the same in either format. *)
LEMMA TextAlike ==
  ASSUME Legible, NEW v, NEW x, Alike(v, x), Proper(v), NEW name \in TextNames
  PROVE  TextOf(Value(x, name)) = TextOf(Value(v, name))
<1>0. Among(name, TextNames)
  BY DEF Among, SameName
<1>1. /\ v \in Values /\ x \in Values /\ Is("object", x)
  BY DEF Alike
<1>2. CASE ~There(v, name)
  <2>1. ~There(x, name)
    BY <1>2, Lookup
  <2> QED BY <1>2, <2>1 DEF There, Value
<1>3. CASE There(v, name)
  <2>1. PICK w \in Values :
           /\ Value(v, name) = w /\ Shaped(w)
           /\ (Scalar(w) /\ ~Is("bool", w)) \/ Plain(w)
    BY <1>0, <1>1, <1>3, ProperAt
  <2>2. w # EmptyList
    BY <2>1, ScalarNoList DEF Plain, EmptyList, List, Is
  <2>3. Value(x, name) = FieldOf(w) /\ There(x, name)
    BY <1>3, <2>1, <2>2, Lookup
  <2>4. CASE Scalar(w) /\ ~Is("bool", w)
    BY <2>1, <2>2, <2>3, <2>4, FieldOfShape, SaidAlike
  <2>5. CASE Plain(w)
    <3>1. Is("object", w) /\ Is("object", FieldOf(w))
      BY <2>1, <2>2, <2>5, FieldOfShape DEF Plain
    <3>2. FieldOf(w) \in Values \cup {Null}
      BY <1>1, <2>3, ValueIsPart, WordsOfParts
    <3>3. TextOf(w) = "{...}" /\ TextOf(FieldOf(w)) = "{...}"
      BY <3>1, <3>2, TextIsWord
    <3> QED BY <2>1, <2>3, <3>3
  <2> QED BY <2>1, <2>4, <2>5
<1> QED BY <1>2, <1>3

(* The names of codes and messages are read as texts. *)
LEMMA ResultNames ==
  /\ DOMAIN CodeNames = 1..4 /\ \A k \in 1..4 : CodeNames[k] \in TextNames
  /\ DOMAIN MessageNames = 1..2 /\ \A k \in 1..2 : MessageNames[k] \in TextNames
<1>1. DOMAIN CodeNames = 1..4 /\ DOMAIN MessageNames = 1..2
  BY DEF CodeNames, MessageNames
<1>2. NamesOf({CodeNames, MessageNames}) \subseteq TextNames
  BY DEF TextNames
<1>3. /\ \A k \in DOMAIN CodeNames : CodeNames[k] \in NamesOf({CodeNames, MessageNames})
      /\ \A k \in DOMAIN MessageNames : MessageNames[k] \in NamesOf({CodeNames, MessageNames})
  BY DEF NamesOf
<1> QED BY <1>1, <1>2, <1>3

(* The same code and message, in objects that carry results. *)
SameTexts(one, other) ==
  /\ one = None <=> other = None
  /\ one # None => /\ TextValue(one, CodeNames) = TextValue(other, CodeNames)
                   /\ TextValue(one, MessageNames) = TextValue(other, MessageNames)

(* A result is the same in either format, *)
LEMMA PlainTexts ==
  ASSUME Legible, NEW w \in Values, Plain(w), ItemOf(w) \in Values
  PROVE  SameTexts(w, ItemOf(w))
<1>1. w # None /\ ItemOf(w) # None
  BY JsonValuesAssumption
<1>2. TextOf(FirstValue(ItemOf(w), CodeNames)) = TextOf(FirstValue(w, CodeNames))
  BY ResultNames, PlainFirst
<1>3. TextOf(FirstValue(ItemOf(w), MessageNames)) = TextOf(FirstValue(w, MessageNames))
  BY ResultNames, PlainFirst
<1> QED BY <1>1, <1>2, <1>3 DEF SameTexts, TextValue

(* and is found, or not, in either of them. *)
LEMMA MappingAlike ==
  ASSUME Legible, NEW v, NEW x, Alike(v, x), Proper(v), NEW name, ~Among(name, RowLists)
  PROVE  SameTexts(MappingValue(v, name), MappingValue(x, name))
<1>1. /\ v \in Values /\ x \in Values /\ Is("object", x) /\ Is("object", v)
  BY DEF Alike
<1>2. \A y : ~Is("object", Value(y, name)) => MappingValue(y, name) = None
  BY DEF MappingValue
<1>3. ~Is("object", Null)
  BY DEF Is, Null
<1>4. CASE ~There(v, name)
  <2>1. ~There(x, name)
    BY <1>4, Lookup
  <2>2. Value(v, name) = Null /\ Value(x, name) = Null
    BY <1>4, <2>1 DEF There, Value
  <2> QED BY <1>2, <1>3, <2>2 DEF SameTexts
<1>5. CASE There(v, name)
  <2>1. PICK w \in Values : Value(v, name) = w /\ Shaped(w) /\ (Scalar(w) \/ Plain(w))
    BY <1>1, <1>5, ProperAt
  <2>2. w # EmptyList
    BY <2>1, ScalarNoList DEF Plain, EmptyList, List, Is
  <2>3. Value(x, name) = FieldOf(w) /\ There(x, name)
    BY <1>5, <2>1, <2>2, Lookup
  <2>4. CASE Scalar(w)
    <3>1. ~Is("object", w) /\ FieldOf(w) = Text(Said(w))
      BY <2>1, <2>2, <2>4, FieldOfShape DEF Scalar
    <3>2. ~Is("object", FieldOf(w))
      BY <3>1 DEF Text, Is
    <3> QED BY <1>2, <2>1, <2>3, <3>1, <3>2 DEF SameTexts
  <2>5. CASE Plain(w)
    <3>1. Is("object", w) /\ Is("object", FieldOf(w)) /\ FieldOf(w) = ItemOf(w)
      BY <2>1, <2>2, <2>5, FieldOfShape DEF Plain
    <3>2. FieldOf(w) \in Values
      <4>1. FieldOf(w) \in Values \cup {Null}
        BY <1>1, <2>3, ValueIsPart, WordsOfParts
      <4> QED BY <1>3, <3>1, <4>1
    <3>3. MappingValue(v, name) = w /\ MappingValue(x, name) = ItemOf(w)
      BY <2>1, <2>3, <3>1 DEF MappingValue
    <3> QED BY <2>5, <3>1, <3>2, <3>3, PlainTexts
  <2> QED BY <2>1, <2>4, <2>5
<1> QED BY <1>4, <1>5

(* Where _extract_result looks for a code first, and what it finds there.  *)
Results(p, content) ==
  <<MappingValue(content, "RESULT"), MappingValue(p, "RESULT"),
    MappingValue(content, "errorMessage"), MappingValue(p, "errorMessage")>>

Coded(r) == {i \in 1..4 : r[i] # None /\ TextValue(r[i], CodeNames) # None}

LooseText(p, content, name) == Either(TextOf(Value(content, name)), TextOf(Value(p, name)))

(* _extract_result by these places. *)
LEMMA ExtractedResult ==
  ASSUME NEW p, NEW content, NEW r, r = Results(p, content)
  PROVE  ExtractResult(p, content) =
           IF Coded(r) # {}
           THEN CodeAndMessage(TextValue(r[Min(Coded(r))], CodeNames), TextValue(r[Min(Coded(r))], MessageNames))
           ELSE IF LooseText(p, content, "RESULT.CODE") # None
           THEN CodeAndMessage(LooseText(p, content, "RESULT.CODE"), LooseText(p, content, "RESULT.MESSAGE"))
           ELSE CodeAndMessage(LooseText(p, content, "code"), LooseText(p, content, "message"))
<1>1. CASE Coded(r) # {}
  BY <1>1 DEF ExtractResult, Results, Coded
<1>2. CASE Coded(r) = {} /\ LooseText(p, content, "RESULT.CODE") # None
  BY <1>2 DEF ExtractResult, Results, Coded, LooseText
<1>3. CASE Coded(r) = {} /\ LooseText(p, content, "RESULT.CODE") = None
  BY <1>3 DEF ExtractResult, Results, Coded, LooseText
<1> QED BY <1>1, <1>2, <1>3

(* It is the first of them with a code that counts. *)
LEMMA FirstCoded ==
  ASSUME NEW p, NEW content, NEW i \in 1..4,
         i \in Coded(Results(p, content)),
         \A j \in 1..4 : j < i => j \notin Coded(Results(p, content))
  PROVE  ExtractResult(p, content) =
           CodeAndMessage(TextValue(Results(p, content)[i], CodeNames),
                          TextValue(Results(p, content)[i], MessageNames))
<1> DEFINE r == Results(p, content)
           coded == Coded(r)
<1>1. coded \in SUBSET (1..4) /\ i \in coded /\ \A j \in 1..4 : j < i => j \notin coded
  BY DEF Coded
<1>2. r = Results(p, content)
  OBVIOUS
<1>3. Coded(r) = coded
  OBVIOUS
<1> HIDE DEF r, coded
<1>4. PICK m \in coded : m = Min(coded) /\ \A j \in coded : m <= j
  BY <1>1, MinOfPlaces
<1>5. Min(coded) = i
  BY <1>1, <1>4
<1>6. Coded(r) # {}
  BY <1>1, <1>3
<1> QED BY <1>2, <1>3, <1>5, <1>6, ExtractedResult

(* The same result is found in what has the same texts in the same places. *)
LEMMA ResultAgain ==
  ASSUME NEW p, NEW content, NEW q, NEW other,
         \A name \in {"RESULT", "errorMessage"} :
           /\ SameTexts(MappingValue(content, name), MappingValue(other, name))
           /\ SameTexts(MappingValue(p, name), MappingValue(q, name)),
         \A name \in {"RESULT.CODE", "RESULT.MESSAGE", "code", "message"} :
           LooseText(p, content, name) = LooseText(q, other, name)
  PROVE  ExtractResult(p, content) = ExtractResult(q, other)
<1>1. PICK r : r = Results(p, content)
  OBVIOUS
<1>2. PICK s : s = Results(q, other)
  OBVIOUS
<1>3. \A i \in 1..4 : SameTexts(r[i], s[i])
  <2>1. /\ r[1] = MappingValue(content, "RESULT") /\ r[2] = MappingValue(p, "RESULT")
        /\ r[3] = MappingValue(content, "errorMessage") /\ r[4] = MappingValue(p, "errorMessage")
    BY <1>1 DEF Results
  <2>2. /\ s[1] = MappingValue(other, "RESULT") /\ s[2] = MappingValue(q, "RESULT")
        /\ s[3] = MappingValue(other, "errorMessage") /\ s[4] = MappingValue(q, "errorMessage")
    BY <1>2 DEF Results
  <2> QED BY <2>1, <2>2
<1>4. \A i \in 1..4 : i \in Coded(r) <=> i \in Coded(s)
  BY <1>3 DEF Coded, SameTexts
<1>5. Coded(r) = Coded(s) /\ Coded(r) \in SUBSET (1..4)
  BY <1>4 DEF Coded
<1>6. CASE Coded(r) # {}
  <2>1. PICK m : m = Min(Coded(r)) /\ m \in Coded(r)
    BY <1>5, <1>6, MinOfPlaces
  <2>2. /\ TextValue(r[m], CodeNames) = TextValue(s[m], CodeNames)
        /\ TextValue(r[m], MessageNames) = TextValue(s[m], MessageNames)
    BY <1>3, <1>5, <2>1 DEF SameTexts, Coded
  <2>3. ExtractResult(p, content) = CodeAndMessage(TextValue(r[m], CodeNames), TextValue(r[m], MessageNames))
    BY <1>1, <1>6, <2>1, ExtractedResult
  <2>4. ExtractResult(q, other) = CodeAndMessage(TextValue(s[m], CodeNames), TextValue(s[m], MessageNames))
    BY <1>2, <1>5, <1>6, <2>1, ExtractedResult
  <2> QED BY <2>2, <2>3, <2>4
<1>7. CASE Coded(r) = {}
  <2>1. Coded(s) = {}
    BY <1>5, <1>7
  <2> QED BY <1>1, <1>2, <1>7, <2>1, ExtractedResult
<1> QED BY <1>6, <1>7

(* Rows are found under one of their names. *)
LEMMA RowsFound ==
  ASSUME NEW v \in Values, Is("object", v)
  PROVE  /\ FirstFound(v, AllRowNames) = Null <=> \A name \in RowLists : Value(v, name) = Null
         /\ FirstFound(v, AllRowNames) # Null =>
              \E name \in RowLists : Value(v, name) = FirstFound(v, AllRowNames)
<1> DEFINE names == AllRowNames
           found == {k \in DOMAIN names : Value(v, names[k]) # Null}
<1>1. DOMAIN names = 1..5
  BY DEF AllRowNames
<1>2. RowLists = {names[k] : k \in 1..5}
  BY <1>1 DEF RowLists, NamesOf
<1>3. FirstFound(v, names) = Null <=> \A k \in DOMAIN names : Value(v, names[k]) = Null
  BY <1>1, FirstFoundIsPart
<1>4. ASSUME FirstFound(v, names) # Null
      PROVE  \E name \in RowLists : Value(v, name) = FirstFound(v, AllRowNames)
  <2>1. found # {} /\ found \in SUBSET (1..5)
    BY <1>1, <1>3, <1>4
  <2>2. FirstFound(v, names) = Value(v, names[Min(found)])
    BY <2>1 DEF FirstFound
  <2> HIDE DEF found
  <2>3. Min(found) \in 1..5
    BY <2>1, MinOfPlaces
  <2> QED BY <1>2, <2>2, <2>3
<1> QED BY <1>1, <1>2, <1>3, <1>4

(* A documented answer has no more than one field of rows: none, or an     *)
(* empty list, which is not in the XML, or one that is read there.         *)
LEMMA RowFieldAlike ==
  ASSUME NEW v, NEW x, Alike(v, x), Proper(v)
  PROVE  LET w == FirstFound(v, AllRowNames)  y == FirstFound(x, AllRowNames) IN
         \/ w \in {Null, EmptyList} /\ y = Null
         \/ /\ w \in Values /\ w \notin {Null, EmptyList} /\ Shaped(w) /\ y = FieldOf(w)
            /\ \/ Scalar(w) \/ Plain(w)
               \/ Is("list", w) /\ \A k \in DOMAIN w.list : Scalar(w.list[k]) \/ Plain(w.list[k])
<1> DEFINE w == FirstFound(v, AllRowNames)
           y == FirstFound(x, AllRowNames)
<1>1. /\ v \in Values /\ x \in Values /\ Is("object", x) /\ Is("object", v) /\ Distinct(v)
  BY DEF Alike
<1>2. \A name \in RowLists : Among(name, RowLists)
  BY DEF Among, SameName
<1>3. \A name \in RowLists : There(v, name) =>
        \E i \in DOMAIN v.object : Among(v.object[i][1], RowLists) /\ Value(v, name) = v.object[i][2]
  BY <1>1, <1>2, Whereabouts, AmongSame
<1>4. \A m, n \in RowLists : There(v, m) /\ There(v, n) => Value(v, m) = Value(v, n)
  BY <1>3 DEF Proper
<1>5. \A z, n : ~There(z, n) => Value(z, n) = Null
  BY DEF There, Value
<1>6. CASE \A name \in RowLists : ~There(v, name)
  <2>1. \A name \in RowLists : ~There(x, name)
    BY <1>6, Lookup
  <2>2. \A name \in RowLists : Value(v, name) = Null /\ Value(x, name) = Null
    BY <1>5, <1>6, <2>1
  <2> QED BY <1>1, <2>2, RowsFound
<1>7. ASSUME NEW name \in RowLists, There(v, name)
      PROVE  \/ w \in {Null, EmptyList} /\ y = Null
             \/ /\ w \in Values /\ w \notin {Null, EmptyList} /\ Shaped(w) /\ y = FieldOf(w)
                /\ \/ Scalar(w) \/ Plain(w)
                   \/ Is("list", w) /\ \A k \in DOMAIN w.list : Scalar(w.list[k]) \/ Plain(w.list[k])
  <2>1. PICK u \in Values :
          /\ Value(v, name) = u /\ Shaped(u)
          /\ \/ Scalar(u) /\ u # Null
             \/ Plain(u)
             \/ Is("list", u) /\ \A k \in DOMAIN u.list : Scalar(u.list[k]) \/ Plain(u.list[k])
    BY <1>1, <1>2, <1>7, ProperAt
  <2>2. u # Null
    BY <2>1 DEF Plain, Is, Null
  <2>3. w # Null
    BY <1>1, <1>7, <2>1, <2>2, RowsFound
  <2>4. PICK n \in RowLists : Value(v, n) = w
    BY <1>1, <2>3, RowsFound
  <2>5. w = u
    BY <1>4, <1>5, <1>7, <2>1, <2>3, <2>4
  <2>6. \A m \in RowLists : There(x, m) => Value(x, m) = FieldOf(u) /\ u # EmptyList
    BY <1>4, <1>7, <2>1, Lookup
  <2>7. CASE u = EmptyList
    <3>1. \A m \in RowLists : Value(x, m) = Null
      BY <1>5, <2>6, <2>7
    <3> QED BY <1>1, <2>5, <2>7, <3>1, RowsFound
  <2>8. CASE u # EmptyList
    <3>1. There(x, name)
      BY <1>7, <2>1, <2>8, Lookup
    <3>2. Value(x, name) = FieldOf(u) /\ FieldOf(u) # Null
      BY <1>7, <2>1, <2>6, <2>8, <3>1, FieldOfShape
    <3>3. y # Null
      BY <1>1, <1>7, <3>2, RowsFound
    <3>4. PICK m \in RowLists : Value(x, m) = y
      BY <1>1, <3>3, RowsFound
    <3>5. y = FieldOf(u)
      BY <1>5, <2>6, <3>3, <3>4
    <3> QED BY <2>1, <2>2, <2>5, <2>8, <3>5
  <2> QED BY <2>7, <2>8
<1> QED BY <1>6, <1>7

(* The rows there are, by what is found under their name. *)
LEMMA RowsByKind ==
  ASSUME NEW v, NEW limit \in Nat \ {0}, NEW w \in Values \cup {Null}, w = FirstFound(v, AllRowNames)
  PROVE  /\ w = Null => ExtractRows(v, limit) = <<>>
         /\ w # Null /\ Scalar(w) => ExtractRows(v, limit) = None
         /\ Is("object", w) => ExtractRows(v, limit) = <<w>>
         /\ Is("list", w) =>
              ExtractRows(v, limit) =
                IF Len(w.list) > limit \/ \E k \in DOMAIN w.list : ~Is("object", w.list[k])
                THEN None ELSE w.list
<1>1. ~Is("list", Null) /\ ~Is("object", Null)
  BY DEF Is, Null
<1>2. CASE w = Null
  BY <1>1, <1>2 DEF ExtractRows, RowsGiven, Scalar
<1>3. CASE w # Null /\ Scalar(w)
  BY <1>1, <1>3 DEF ExtractRows, RowsGiven, Scalar
<1>4. CASE Is("object", w)
  <2>1. ~Is("list", w) /\ w # Null
    BY <1>1, <1>4, KindsApart
  <2> QED BY <1>4, <2>1 DEF ExtractRows, RowsGiven, Scalar
<1>5. CASE Is("list", w)
  <2>1. ~Is("object", w) /\ w # Null
    BY <1>1, <1>5, KindsApart
  <2>2. RowsGiven(v) = IF \A k \in DOMAIN w.list : Is("object", w.list[k]) THEN w.list ELSE None
    BY <1>5, <2>1 DEF RowsGiven
  <2> QED BY <1>5, <2>1, <2>2 DEF ExtractRows, Scalar
<1> QED BY <1>1, <1>2, <1>3, <1>4, <1>5, KindsApart DEF Scalar

(* The same rows, or rows that are refused. *)
Paired(rows, read) ==
  \/ rows = None /\ read = None
  \/ /\ rows # None /\ read # None /\ DOMAIN read = DOMAIN rows
     /\ \A k \in DOMAIN rows : /\ rows[k] \in Values /\ Plain(rows[k])
                               /\ read[k] = ItemOf(rows[k]) /\ ItemOf(rows[k]) \in Values

(* A list of rows is the same rows, also a list of one. *)
LEMMA ListPaired ==
  ASSUME NEW w \in Values, Is("list", w), w # EmptyList,
         \A k \in DOMAIN w.list : Scalar(w.list[k]) \/ Plain(w.list[k]),
         NEW x, FirstFound(x, AllRowNames) = FieldOf(w), FieldOf(w) \in Values,
         NEW v, w = FirstFound(v, AllRowNames), NEW limit \in Nat \ {0}
  PROVE  Paired(ExtractRows(v, limit), ExtractRows(x, limit))
<1> DEFINE n == Len(w.list)
           items == [k \in 1..n |-> ItemOf(w.list[k])]
           y == FieldOf(w)
<1>1. /\ w.list \in Seq(Values) /\ n \in Nat /\ DOMAIN w.list = 1..n /\ w = List(w.list)
      /\ \A k \in 1..n : w.list[k] \in Values
  BY ShapeOfValue, ValueOfKind
<1>2. n # 0
  BY <1>1 DEF EmptyList
<1>3. y = Combined(items) /\ Len(items) = n
  BY <1>1 DEF FieldOf
<1>4. \A k \in 1..n : \/ Scalar(w.list[k]) /\ ~Is("object", w.list[k]) /\ ItemOf(w.list[k]) = Text(Said(w.list[k]))
                      \/ Plain(w.list[k]) /\ Is("object", w.list[k]) /\ Is("object", ItemOf(w.list[k]))
  <2>1. \A z : Scalar(z) => ~Is("object", z) /\ ItemOf(z) = Text(Said(z))
    BY DEF Scalar, ItemOf
  <2>2. \A z : Plain(z) => Is("object", z) /\ Is("object", ItemOf(z))
    BY DEF Plain, ItemOf, Object, Is
  <2> QED BY <1>1, <2>1, <2>2
<1>5. ExtractRows(v, limit) =
        IF n > limit \/ \E k \in 1..n : ~Is("object", w.list[k]) THEN None ELSE w.list
  BY <1>1, RowsByKind
<1>6. w.list # None
  BY <1>1, JsonValuesAssumption
<1>7. \A z : ~Is("object", Text(z)) /\ ~Is("list", Text(z)) /\ Text(z) # Null
  BY DEF Text, Is, Null
<1>8. CASE n = 1
  <2>1. y = ItemOf(w.list[1])
    BY <1>3, <1>8 DEF Combined
  <2>2. CASE Scalar(w.list[1]) /\ ~Is("object", w.list[1]) /\ ItemOf(w.list[1]) = Text(Said(w.list[1]))
    <3>1. ExtractRows(v, limit) = None
      BY <1>5, <1>8, <2>2
    <3>2. y # Null /\ Scalar(y)
      BY <1>7, <2>1, <2>2 DEF Scalar
    <3>3. ExtractRows(x, limit) = None
      BY <3>2, RowsByKind
    <3> QED BY <3>1, <3>3 DEF Paired
  <2>3. CASE Plain(w.list[1]) /\ Is("object", w.list[1]) /\ Is("object", ItemOf(w.list[1]))
    <3>1. ExtractRows(v, limit) = w.list
      BY <1>5, <1>8, <2>3
    <3>2. ExtractRows(x, limit) = <<y>>
      BY <2>1, <2>3, RowsByKind
    <3>3. <<y>> # None
      <4>1. y \in Values
        OBVIOUS
      <4> HIDE DEF y
      <4>2. <<y>> \in Seq(Values)
        BY <4>1
      <4> QED BY <4>2, JsonValuesAssumption
    <3> HIDE DEF y
    <3>4. DOMAIN <<y>> = 1..1 /\ <<y>>[1] = y
      OBVIOUS
    <3> QED BY <1>1, <1>6, <1>8, <2>1, <2>3, <3>1, <3>2, <3>3, <3>4 DEF Paired, y
  <2> QED BY <1>4, <1>8, <2>2, <2>3
<1>9. CASE n # 1
  <2>1. y = List(items)
    BY <1>3, <1>9 DEF Combined
  <2>2. Is("list", y) /\ y.list = items
    BY <2>1 DEF List, Is
  <2>3. DOMAIN items = 1..n /\ \A k \in 1..n : items[k] = ItemOf(w.list[k])
    OBVIOUS
  <2>4. items \in Seq(Values)
    BY <2>2, ShapeOfValue
  <2>5. items # None /\ \A k \in 1..n : items[k] \in Values
    <3> HIDE DEF items
    <3>1. items # None
      BY <2>4, JsonValuesAssumption
    <3>2. \A k \in 1..n : items[k] \in Values
      BY <1>1, <1>3, <2>3, <2>4
    <3> QED BY <3>1, <3>2
  <2>6. \A k \in 1..n : Is("object", items[k]) <=> Is("object", w.list[k])
    BY <1>4, <1>7, <2>3
  <2>7. ExtractRows(x, limit) =
          IF n > limit \/ \E k \in 1..n : ~Is("object", items[k]) THEN None ELSE items
    <3>1. FieldOf(w) \in Values \cup {Null} /\ Is("list", FieldOf(w)) /\ FieldOf(w).list = items
      BY <2>2
    <3> HIDE DEF items, y
    <3> QED BY <1>3, <2>3, <3>1, RowsByKind
  <2>8. CASE n > limit \/ \E k \in 1..n : ~Is("object", w.list[k])
    BY <1>5, <2>6, <2>7, <2>8 DEF Paired
  <2>9. CASE ~(n > limit \/ \E k \in 1..n : ~Is("object", w.list[k]))
    <3>1. ExtractRows(v, limit) = w.list /\ ExtractRows(x, limit) = items
      BY <1>5, <2>6, <2>7, <2>9
    <3>2. \A k \in 1..n : Plain(w.list[k])
      BY <1>4, <2>9
    <3> HIDE DEF items
    <3> QED BY <1>1, <1>6, <2>3, <2>5, <3>1, <3>2 DEF Paired
  <2> QED BY <2>8, <2>9
<1> QED BY <1>8, <1>9

(* The rows of an answer are the same in either format. *)
LEMMA RowsAlike ==
  ASSUME NEW v, NEW x, Alike(v, x), Proper(v), NEW limit \in Nat \ {0}
  PROVE  Paired(ExtractRows(v, limit), ExtractRows(x, limit))
<1>1. /\ v \in Values /\ x \in Values /\ Is("object", x) /\ Is("object", v)
  BY DEF Alike
<1>2. PICK w : w = FirstFound(v, AllRowNames)
  OBVIOUS
<1>3. PICK y : y = FirstFound(x, AllRowNames)
  OBVIOUS
<1>4. DOMAIN AllRowNames = 1..5
  BY DEF AllRowNames
<1>5. w \in Values \cup {Null} /\ y \in Values \cup {Null}
  BY <1>1, <1>2, <1>3, <1>4, FirstFoundIsPart, WordsOfParts
<1>6. \/ w \in {Null, EmptyList} /\ y = Null
      \/ /\ w \in Values /\ w \notin {Null, EmptyList} /\ Shaped(w) /\ y = FieldOf(w)
         /\ \/ Scalar(w) \/ Plain(w)
            \/ Is("list", w) /\ \A k \in DOMAIN w.list : Scalar(w.list[k]) \/ Plain(w.list[k])
  BY <1>2, <1>3, RowFieldAlike
<1>7. CASE w \in {Null, EmptyList} /\ y = Null
  <2>1. ExtractRows(x, limit) = <<>>
    BY <1>3, <1>5, <1>7, RowsByKind
  <2>2. ExtractRows(v, limit) = <<>>
    <3>1. CASE w = Null
      BY <1>2, <1>5, <3>1, RowsByKind
    <3>2. CASE w = EmptyList
      <4>1. Is("list", w) /\ w.list = <<>>
        BY <3>2 DEF EmptyList, List, Is
      <4>2. ExtractRows(v, limit) =
              IF Len(w.list) > limit \/ \E k \in DOMAIN w.list : ~Is("object", w.list[k])
              THEN None ELSE w.list
        BY <1>2, <1>5, <4>1, RowsByKind
      <4>3. Len(w.list) = 0 /\ ~\E k \in DOMAIN w.list : ~Is("object", w.list[k])
        BY <4>1
      <4> QED BY <4>1, <4>2, <4>3
    <3> QED BY <1>7, <3>1, <3>2
  <2>3. <<>> # None
    <3>1. <<>> \in Seq(Values)
      OBVIOUS
    <3> QED BY <3>1, JsonValuesAssumption
  <2> QED BY <2>1, <2>2, <2>3 DEF Paired
<1>8. CASE /\ w \in Values /\ w \notin {Null, EmptyList} /\ Shaped(w) /\ y = FieldOf(w)
           /\ \/ Scalar(w) \/ Plain(w)
              \/ Is("list", w) /\ \A k \in DOMAIN w.list : Scalar(w.list[k]) \/ Plain(w.list[k])
  <2>1. FieldOf(w) \in Values /\ FieldOf(w) # Null
    BY <1>5, <1>8, FieldOfShape
  <2>2. CASE Scalar(w)
    <3>1. FieldOf(w) = Text(Said(w))
      BY <1>8, <2>2, FieldOfShape
    <3>2. Scalar(FieldOf(w))
      BY <3>1 DEF Scalar, Text, Is
    <3>3. ExtractRows(v, limit) = None /\ ExtractRows(x, limit) = None
      BY <1>2, <1>3, <1>8, <2>1, <2>2, <3>2, RowsByKind
    <3> QED BY <3>3 DEF Paired
  <2>3. CASE Plain(w)
    <3>1. Is("object", w) /\ FieldOf(w) = ItemOf(w) /\ Is("object", FieldOf(w))
      BY <1>8, <2>3, FieldOfShape DEF Plain
    <3>2. ExtractRows(v, limit) = <<w>> /\ ExtractRows(x, limit) = <<y>>
      BY <1>2, <1>3, <1>5, <1>8, <3>1, RowsByKind
    <3>3. <<w>> \in Seq(Values) /\ <<y>> \in Seq(Values)
      <4>1. y \in Values
        BY <1>8, <2>1
      <4> QED BY <1>8, <4>1
    <3>4. <<w>> # None /\ <<y>> # None
      BY <3>3, JsonValuesAssumption
    <3>5. DOMAIN <<w>> = 1..1 /\ DOMAIN <<y>> = 1..1 /\ <<w>>[1] = w /\ <<y>>[1] = y
      OBVIOUS
    <3> QED BY <1>8, <2>1, <2>3, <3>1, <3>2, <3>4, <3>5 DEF Paired
  <2>4. CASE Is("list", w) /\ \A k \in DOMAIN w.list : Scalar(w.list[k]) \/ Plain(w.list[k])
    BY <1>2, <1>3, <1>8, <2>1, <2>4, ListPaired
  <2> QED BY <1>8, <2>2, <2>3, <2>4
<1> QED BY <1>6, <1>7, <1>8

-----------------------------------------------------------------------------
(* What an answer is understood as, in either format *)

(* The essence of a result: its code and its message, and its items if any. *)
ResultOf(code, message) ==
  [ParseError EXCEPT !.kind = "result", !.code = code, !.message = message,
                     !.payload = None, !.total = None]

(* What is delivered, but for the payload and the total, case by case. *)
LEMMA EssenceCases ==
  ASSUME NEW c, NEW p, NEW content, content = Unwrap(p, Target(c)),
         NEW result, result = ExtractResult(p, content),
         NEW essence, essence = Essence(Understood(c, p))
  PROVE  /\ ~CoherentAs(c, p, content) => essence = Essence(ParseError)
         /\ CoherentAs(c, p, content) =>
              /\ result.code \notin {"INFO-000", "INFO-200"} => essence = Essence(UpstreamError(result))
              /\ result.code = "INFO-200" => essence = ResultOf(result.code, result.message)
              /\ result.code = "INFO-000" /\ SoundAs(c, p, content) =>
                   essence = [ResultOf(result.code, result.message) EXCEPT !.items = ItemsAs(c, content)]
              /\ result.code = "INFO-000" /\ ~SoundAs(c, p, content) => essence = Essence(ParseError)
<1>1. PICK code, message, total :
        code = result.code /\ message = result.message /\ total = ListTotalCount(p, content)
  OBVIOUS
<1>2. AnswerAs(p, result, content) =
        [ParseError EXCEPT !.kind = "result", !.code = code, !.message = message,
                           !.payload = p, !.total = total]
  BY <1>1 DEF AnswerAs
<1>3. PICK answer : answer = AnswerAs(p, result, content)
  OBVIOUS
<1>4. PICK items : items = ItemsAs(c, content)
  OBVIOUS
<1>5. /\ Essence(answer) = ResultOf(result.code, result.message)
      /\ Essence([answer EXCEPT !.items = items]) = [ResultOf(result.code, result.message) EXCEPT !.items = items]
  <2>1. answer = [ParseError EXCEPT !.kind = "result", !.code = code, !.message = message,
                                    !.payload = p, !.total = total]
    BY <1>2, <1>3
  <2>2. /\ Essence(answer) = ResultOf(code, message)
        /\ Essence([answer EXCEPT !.items = items]) = [ResultOf(code, message) EXCEPT !.items = items]
    <3>1. Essence(answer) = ResultOf(code, message)
      BY ONLY <2>1 DEF Essence, ResultOf
    <3>2. Essence([answer EXCEPT !.items = items]) = [Essence(answer) EXCEPT !.items = items]
      BY ONLY DEF Essence
    <3> QED BY <3>1, <3>2
  <2> QED BY <1>1, <2>2
<1>6. /\ ~CoherentAs(c, p, content) => Understood(c, p) = ParseError
      /\ CoherentAs(c, p, content) =>
           /\ result.code \notin {"INFO-000", "INFO-200"} => Understood(c, p) = UpstreamError(result)
           /\ result.code = "INFO-200" => Understood(c, p) = answer
           /\ result.code = "INFO-000" /\ SoundAs(c, p, content) =>
                Understood(c, p) = [answer EXCEPT !.items = items]
           /\ result.code = "INFO-000" /\ ~SoundAs(c, p, content) => Understood(c, p) = ParseError
  BY <1>3, <1>4, UnderstoodCases
<1>7. /\ ~CoherentAs(c, p, content) => essence = Essence(ParseError)
      /\ CoherentAs(c, p, content) =>
           /\ result.code \notin {"INFO-000", "INFO-200"} => essence = Essence(UpstreamError(result))
           /\ result.code = "INFO-200" => essence = ResultOf(result.code, result.message)
           /\ result.code = "INFO-000" /\ SoundAs(c, p, content) =>
                essence = [ResultOf(result.code, result.message) EXCEPT !.items = items]
           /\ result.code = "INFO-000" /\ ~SoundAs(c, p, content) => essence = Essence(ParseError)
  BY <1>5, <1>6
<1> QED BY ONLY <1>4, <1>7

(* Two payloads are understood the same if the same is found in them. *)
SameFindings(c, p, content, q, other) ==
  /\ ExtractResult(p, content) = ExtractResult(q, other)
  /\ CoherentAs(c, p, content) <=> CoherentAs(c, q, other)
  /\ CoherentAs(c, p, content) /\ ExtractResult(p, content).code = "INFO-000" =>
       /\ SoundAs(c, p, content) <=> SoundAs(c, q, other)
       /\ SoundAs(c, p, content) => ItemsAs(c, content) = ItemsAs(c, other)

(* So the outcome is the same, but for the payload and the total. *)
LEMMA EssenceAgain ==
  ASSUME NEW c, NEW p, NEW q,
         SameFindings(c, p, Unwrap(p, Target(c)), q, Unwrap(q, Target(c)))
  PROVE  Essence(Understood(c, p)) = Essence(Understood(c, q))
<1>1. PICK content : content = Unwrap(p, Target(c))
  OBVIOUS
<1>2. PICK other : other = Unwrap(q, Target(c))
  OBVIOUS
<1>3. PICK result : result = ExtractResult(p, content) /\ result = ExtractResult(q, other)
  BY <1>1, <1>2 DEF SameFindings
<1>4. PICK one : one = Essence(Understood(c, p))
  OBVIOUS
<1>5. PICK two : two = Essence(Understood(c, q))
  OBVIOUS
<1>6. /\ ~CoherentAs(c, p, content) => one = Essence(ParseError)
      /\ CoherentAs(c, p, content) =>
           /\ result.code \notin {"INFO-000", "INFO-200"} => one = Essence(UpstreamError(result))
           /\ result.code = "INFO-200" => one = ResultOf(result.code, result.message)
           /\ result.code = "INFO-000" /\ SoundAs(c, p, content) =>
                one = [ResultOf(result.code, result.message) EXCEPT !.items = ItemsAs(c, content)]
           /\ result.code = "INFO-000" /\ ~SoundAs(c, p, content) => one = Essence(ParseError)
  <2>1. content = Unwrap(p, Target(c)) /\ result = ExtractResult(p, content) /\ one = Essence(Understood(c, p))
    BY <1>1, <1>3, <1>4
  <2> QED BY ONLY <2>1, EssenceCases
<1>7. /\ ~CoherentAs(c, q, other) => two = Essence(ParseError)
      /\ CoherentAs(c, q, other) =>
           /\ result.code \notin {"INFO-000", "INFO-200"} => two = Essence(UpstreamError(result))
           /\ result.code = "INFO-200" => two = ResultOf(result.code, result.message)
           /\ result.code = "INFO-000" /\ SoundAs(c, q, other) =>
                two = [ResultOf(result.code, result.message) EXCEPT !.items = ItemsAs(c, other)]
           /\ result.code = "INFO-000" /\ ~SoundAs(c, q, other) => two = Essence(ParseError)
  <2>1. content = Unwrap(p, Target(c)) /\ result = ExtractResult(q, other) /\ two = Essence(Understood(c, q))
    BY <1>1, <1>3, <1>5
  <2>2. other = Unwrap(q, Target(c))
    BY <1>2
  <2> QED BY ONLY <2>1, <2>2, EssenceCases
<1>8. /\ CoherentAs(c, p, content) <=> CoherentAs(c, q, other)
      /\ CoherentAs(c, p, content) /\ result.code = "INFO-000" =>
           /\ SoundAs(c, p, content) <=> SoundAs(c, q, other)
           /\ SoundAs(c, p, content) => ItemsAs(c, content) = ItemsAs(c, other)
  BY <1>1, <1>2, <1>3 DEF SameFindings
<1>9. one = two
  BY <1>6, <1>7, <1>8
<1> QED BY <1>4, <1>5, <1>9

(* Rows that are the same make the same items. *)
LEMMA RowsVerdict ==
  ASSUME Legible, NEW c \in CallShape, ForRows(c),
         NEW p, NEW content, NEW q, NEW other,
         NEW result, result = ExtractResult(p, content), result = ExtractResult(q, other),
         HasEnvelopeMarker(p, content, Target(c)) <=> HasEnvelopeMarker(q, other, Target(c)),
         result.code = "INFO-000" => (HasDataMarker(p, content) <=> HasDataMarker(q, other)),
         Paired(ExtractRows(content, Limit(c)), ExtractRows(other, Limit(c)))
  PROVE  SameFindings(c, p, content, q, other)
<1> DEFINE rows == ExtractRows(content, Limit(c))
           read == ExtractRows(other, Limit(c))
<1>1. Target(c) \in RowServices
  BY DEF ForRows, Target, RowServices, Services, General, Subway, AllStations, CallShape
<1>2. rows = None <=> read = None
  BY DEF Paired
<1>3. CoherentAs(c, p, content) <=> CoherentAs(c, q, other)
  BY <1>2 DEF CoherentAs, MarkedAs
<1>4. ASSUME rows # None
      PROVE  DOMAIN read = DOMAIN rows
             /\ \A i \in DOMAIN rows :
                  /\ Identified(read[i], Target(c)) <=> Identified(rows[i], Target(c))
                  /\ Typed(read[i], Target(c)) = Typed(rows[i], Target(c))
  <2>1. DOMAIN read = DOMAIN rows
    BY <1>4 DEF Paired
  <2>2. ASSUME NEW i \in DOMAIN rows
        PROVE  /\ Identified(read[i], Target(c)) <=> Identified(rows[i], Target(c))
               /\ Typed(read[i], Target(c)) = Typed(rows[i], Target(c))
    <3>1. rows[i] \in Values /\ Plain(rows[i]) /\ read[i] = ItemOf(rows[i]) /\ ItemOf(rows[i]) \in Values
      BY <1>4 DEF Paired
    <3> HIDE DEF rows, read
    <3> QED BY <1>1, <3>1, IdentifiedAlike, TypedAlike
  <2> QED BY <2>1, <2>2
<1>5. ASSUME CoherentAs(c, p, content), result.code = "INFO-000"
      PROVE  /\ SoundAs(c, p, content) <=> SoundAs(c, q, other)
             /\ ItemsAs(c, content) = ItemsAs(c, other)
  <2>1. rows # None
    BY <1>5 DEF CoherentAs
  <2>2. HasDataMarker(p, content) <=> HasDataMarker(q, other)
    BY <1>5
  <2>3. SoundAs(c, p, content) <=>
          HasDataMarker(p, content) /\ \A i \in DOMAIN rows : Identified(rows[i], Target(c))
    BY DEF SoundAs
  <2>4. SoundAs(c, q, other) <=>
          HasDataMarker(q, other) /\ \A i \in DOMAIN read : Identified(read[i], Target(c))
    BY DEF SoundAs
  <2>5. ItemsAs(c, content) = [i \in DOMAIN rows |-> Typed(rows[i], Target(c))]
    BY DEF ItemsAs
  <2>6. ItemsAs(c, other) = [i \in DOMAIN read |-> Typed(read[i], Target(c))]
    BY DEF ItemsAs
  <2> HIDE DEF rows, read
  <2> QED BY <1>4, <2>1, <2>2, <2>3, <2>4, <2>5, <2>6
<1> QED BY <1>3, <1>5 DEF SameFindings

-----------------------------------------------------------------------------
(* An answer under a name *)

(* An object with one field. *)
Wrapped(name, v) == Object(<<<<name, v>>>>)

(* There is one field in it, and it is found by its name. *)
LEMMA WrappedAt ==
  ASSUME NEW name, NEW v, NEW p, p = Wrapped(name, v)
  PROVE  /\ Is("object", p) /\ Len(p.object) = 1 /\ p.object[1][2] = v
         /\ \A n : Value(p, n) = IF SameName(name, n) THEN v ELSE Null
<1>1. Is("object", p) /\ p.object = <<<<name, v>>>>
  BY DEF Wrapped, Object, Is
<1>2. DOMAIN p.object = {1} /\ p.object[1][1] = name /\ p.object[1][2] = v /\ Len(p.object) = 1
  BY <1>1
<1>3. Max({1}) = 1
  <2>1. {1} \in SUBSET (1..1) /\ {1} # {}
    OBVIOUS
  <2>2. Max({1}) \in {1}
    BY ONLY <2>1, MaxOfPlaces
  <2> QED BY <2>2
<1>4. ASSUME NEW n, SameName(name, n) PROVE Value(p, n) = v
  <2>1. Spelled(p, n) = {1}
    BY <1>2, <1>4 DEF Spelled, SameName
  <2> QED BY <1>2, <1>3, <2>1 DEF Value
<1>5. ASSUME NEW n, ~SameName(name, n) PROVE Value(p, n) = Null
  <2>1. Spelled(p, n) = {}
    BY <1>2, <1>5 DEF Spelled, SameName
  <2> QED BY <2>1 DEF Value
<1> QED BY <1>1, <1>2, <1>4, <1>5

(* An object is unwrapped, whatever its name. *)
LEMMA WrappedObject ==
  ASSUME NEW name, NEW v \in Values, Is("object", v), NEW p, p = Wrapped(name, v), NEW service
  PROVE  /\ Unwrap(p, service) = v
         /\ HasEnvelopeMarker(p, v, service) <=>
              IF SameName(name, service) THEN v.object # <<>> ELSE \E n \in EnvelopeMarks : SameName(name, n)
         /\ HasCitydataMarker(p) <=>
              SameName(name, "CITYDATA") \/ \E n \in CitydataMarks : SameName(name, n)
         /\ \A n : MappingValue(p, n) = IF SameName(name, n) THEN v ELSE None
         /\ \A names : NamesIn(p, names) = {n \in names : SameName(name, n)}
<1>1. \A n : Value(p, n) = IF SameName(name, n) THEN v ELSE Null
  BY WrappedAt
<1>2. ~Is("object", Null) /\ v # Null
  BY DEF Is, Null
<1>3. Lone(p) /\ p.object[1][2] = v
  BY WrappedAt DEF Lone
<1>4. \A n : MappingValue(p, n) = IF SameName(name, n) THEN v ELSE None
  BY <1>1, <1>2 DEF MappingValue
<1>5. \A names : NamesIn(p, names) = {n \in names : SameName(name, n)}
  BY <1>1, <1>2 DEF NamesIn
<1>6. Unwrap(p, service) = v
  BY <1>1, <1>2, <1>3 DEF Unwrap
<1>7. HasEnvelopeMarker(p, v, service) <=>
        IF SameName(name, service) THEN v.object # <<>> ELSE \E n \in EnvelopeMarks : SameName(name, n)
  BY <1>1, <1>2, <1>5 DEF HasEnvelopeMarker
<1>8. v # None
  BY JsonValuesAssumption
<1>9. HasCitydataMarker(p) <=> SameName(name, "CITYDATA") \/ \E n \in CitydataMarks : SameName(name, n)
  BY <1>4, <1>5, <1>8 DEF HasCitydataMarker
<1> QED BY <1>4, <1>5, <1>6, <1>7, <1>9

(* There is something in a documented answer, in either format. *)
LEMMA NotHollow ==
  ASSUME NEW v, NEW x, Alike(v, x), Proper(v)
  PROVE  v.object # <<>> /\ x.object # <<>>
<1>1. PICK i \in DOMAIN v.object : v.object[i][2] # EmptyList
  BY DEF Proper, EmptyList
<1>2. <<v.object[i][1], FieldOf(v.object[i][2])>> \in Entries(x.object)
  BY <1>1 DEF Alike, Kept, Filled
<1> QED BY <1>1, <1>2 DEF Entries

(* The code and the message are the same. *)
LEMMA ContentTexts ==
  ASSUME Legible, NEW v, NEW x, Alike(v, x), Proper(v)
  PROVE  SameTexts(v, x)
<1>1. v \in Values /\ x \in Values
  BY DEF Alike
<1>2. v # None /\ x # None
  BY <1>1, JsonValuesAssumption
<1>3. ASSUME NEW n \in Nat, NEW names, DOMAIN names = 1..n, \A k \in 1..n : names[k] \in TextNames
      PROVE  TextValue(x, names) = TextValue(v, names)
  <2>1. ASSUME NEW k \in 1..n PROVE Value(v, names[k]) # EmptyList
    <3>1. Among(names[k], TextNames)
      BY <1>3 DEF Among, SameName
    <3>2. ~Is("list", Null) /\ Is("list", EmptyList)
      BY DEF Is, Null, EmptyList, List
    <3>3. CASE ~There(v, names[k])
      BY <3>2, <3>3 DEF There, Value
    <3>4. CASE There(v, names[k])
      <4>1. PICK w \in Values : Value(v, names[k]) = w /\ (Scalar(w) \/ Plain(w))
        BY <1>1, <3>1, <3>4, ProperAt
      <4> QED BY <4>1, ScalarNoList DEF Plain, EmptyList, List, Is
    <3> QED BY <3>3, <3>4
  <2>2. CASE FirstValue(v, names) = Null /\ FirstValue(x, names) = Null
    BY <2>2 DEF TextValue
  <2>3. ASSUME NEW k \in 1..n, There(v, names[k]), FirstValue(v, names) = Value(v, names[k]),
               FirstValue(x, names) = FieldOf(Value(v, names[k]))
        PROVE  TextValue(x, names) = TextValue(v, names)
    <3>1. Value(x, names[k]) = FieldOf(Value(v, names[k]))
      BY <2>1, <2>3, Lookup
    <3>2. TextOf(Value(x, names[k])) = TextOf(Value(v, names[k]))
      BY <1>3, TextAlike
    <3> QED BY <2>3, <3>1, <3>2 DEF TextValue
  <2> QED BY <1>3, <2>1, <2>2, <2>3, FirstAlike
<1>4. TextValue(x, CodeNames) = TextValue(v, CodeNames)
  BY <1>3, ResultNames
<1>5. TextValue(x, MessageNames) = TextValue(v, MessageNames)
  BY <1>3, ResultNames
<1> QED BY <1>2, <1>4, <1>5 DEF SameTexts

(* The result is, too, when both are put under the same name. *)
LEMMA WrappedResult ==
  ASSUME Legible, NEW v, NEW x, Alike(v, x), Proper(v), NEW name,
         NEW p, p = Wrapped(name, v), NEW q, q = Wrapped(name, x)
  PROVE  ExtractResult(p, v) = ExtractResult(q, x)
<1>1. /\ v \in Values /\ Is("object", v) /\ x \in Values /\ Is("object", x)
  BY DEF Alike
<1>2. \A n : MappingValue(p, n) = IF SameName(name, n) THEN v ELSE None
  BY <1>1, WrappedObject
<1>3. \A n : MappingValue(q, n) = IF SameName(name, n) THEN x ELSE None
  BY <1>1, WrappedObject
<1>4. SameTexts(v, x) /\ SameTexts(None, None)
  BY ContentTexts DEF SameTexts
<1>5. \A n : SameTexts(MappingValue(p, n), MappingValue(q, n))
  BY <1>2, <1>3, <1>4
<1>6. \A n \in {"RESULT", "errorMessage"} : SameTexts(MappingValue(v, n), MappingValue(x, n))
  BY MappingAlike DEF Legible
<1>7. ASSUME NEW n \in {"RESULT.CODE", "RESULT.MESSAGE", "code", "message"}
      PROVE  LooseText(p, v, n) = LooseText(q, x, n)
  <2>1. n \in TextNames
    <3>1. CodeNames[4] = "RESULT.CODE" /\ MessageNames[2] = "RESULT.MESSAGE"
      BY DEF CodeNames, MessageNames
    <3>2. "RESULT.CODE" \in TextNames /\ "RESULT.MESSAGE" \in TextNames
      BY <3>1, ResultNames
    <3> QED BY <3>2 DEF TextNames
  <2>2. TextOf(Value(x, n)) = TextOf(Value(v, n))
    BY <2>1, TextAlike
  <2>3. TextOf(v) = "{...}" /\ TextOf(x) = "{...}"
    BY <1>1, TextIsWord
  <2>4. TextOf(Value(p, n)) = TextOf(Value(q, n))
    <3>1. Value(p, n) = IF SameName(name, n) THEN v ELSE Null
      BY WrappedAt
    <3>2. Value(q, n) = IF SameName(name, n) THEN x ELSE Null
      BY WrappedAt
    <3> QED BY <2>3, <3>1, <3>2
  <2> QED BY <2>2, <2>4 DEF LooseText
<1> QED BY <1>5, <1>6, <1>7, ResultAgain

(* With INFO-000 it has marks of data in both formats, or in neither but   *)
(* for its name.                                                           *)
LEMMA MarksAlike ==
  ASSUME NEW v, NEW x, Alike(v, x), Proper(v)
  PROVE  /\ Backed(v) => NamesIn(v, DataMarks) # {} /\ NamesIn(x, DataMarks) # {}
         /\ Unmarked(v) => NamesIn(v, DataMarks) = {} /\ NamesIn(x, DataMarks) = {}
<1>1. v \in Values /\ Is("object", v) /\ Distinct(v)
  BY DEF Alike
<1>2. ASSUME Backed(v) PROVE NamesIn(v, DataMarks) # {} /\ NamesIn(x, DataMarks) # {}
  <2>1. PICK i \in DOMAIN v.object :
          Among(v.object[i][1], DataMarks) /\ v.object[i][2] \notin {Null, EmptyList}
    BY <1>2 DEF Backed, EmptyList
  <2>2. PICK n \in DataMarks : SameName(v.object[i][1], n)
    BY <2>1 DEF Among
  <2>3. There(v, n) /\ Value(v, n) \notin {Null, EmptyList}
    BY <1>1, <2>1, <2>2, FoundOnce
  <2>4. PICK w \in Values : Value(v, n) = w /\ Shaped(w)
    BY <1>1, <2>3, ProperAt
  <2>5. FieldOf(w) # Null
    BY <2>3, <2>4, FieldOfShape
  <2>6. Value(x, n) # Null
    BY <2>3, <2>4, <2>5, Lookup
  <2> QED BY <2>2, <2>3, <2>6 DEF NamesIn
<1>3. ASSUME Unmarked(v) PROVE NamesIn(v, DataMarks) = {} /\ NamesIn(x, DataMarks) = {}
  <2>1. ASSUME NEW n \in DataMarks PROVE Value(v, n) = Null /\ Value(x, n) = Null
    <3>1. ~There(v, n)
      BY <1>3 DEF Unmarked, Among, There, Spelled, SameName
    <3>2. ~There(x, n)
      BY <3>1, Lookup
    <3> QED BY <3>1, <3>2 DEF There, Value
  <2> QED BY <2>1 DEF NamesIn
<1> QED BY <1>2, <1>3

(* So an answer under a name is the same in both formats. *)
LEMMA WrappedAlike ==
  ASSUME Legible, NEW c \in CallShape, ~Refused(c),
         NEW v, NEW x, Alike(v, x), Proper(v), NEW name,
         NEW p, p = Wrapped(name, v), NEW q, q = Wrapped(name, x),
         ExtractResult(p, v).code = "INFO-000" => Backed(v) \/ Unmarked(v),
         ~ForRows(c) => \A i \in DOMAIN v.object : ~SameName(v.object[i][1], "AREA_NM")
  PROVE  Essence(Understood(c, p)) = Essence(Understood(c, q))
<1>1. /\ v \in Values /\ Is("object", v) /\ x \in Values /\ Is("object", x)
  BY DEF Alike
<1>2. PICK result : result = ExtractResult(p, v) /\ result = ExtractResult(q, x)
  BY WrappedResult
<1>3. Unwrap(p, Target(c)) = v /\ Unwrap(q, Target(c)) = x
  BY <1>1, WrappedObject
<1>4. HasEnvelopeMarker(p, v, Target(c)) <=> HasEnvelopeMarker(q, x, Target(c))
  <2>1. HasEnvelopeMarker(p, v, Target(c)) <=>
          IF SameName(name, Target(c)) THEN v.object # <<>> ELSE \E n \in EnvelopeMarks : SameName(name, n)
    BY <1>1, WrappedObject
  <2>2. HasEnvelopeMarker(q, x, Target(c)) <=>
          IF SameName(name, Target(c)) THEN x.object # <<>> ELSE \E n \in EnvelopeMarks : SameName(name, n)
    BY <1>1, WrappedObject
  <2> QED BY <2>1, <2>2, NotHollow
<1>5. HasCitydataMarker(p) <=> HasCitydataMarker(q)
  BY <1>1, WrappedObject
<1>6. result.code = "INFO-000" => (HasDataMarker(p, v) <=> HasDataMarker(q, x))
  <2> SUFFICES ASSUME result.code = "INFO-000" PROVE HasDataMarker(p, v) <=> HasDataMarker(q, x)
    OBVIOUS
  <2>1. NamesIn(p, DataMarks) = NamesIn(q, DataMarks)
    <3>1. NamesIn(p, DataMarks) = {n \in DataMarks : SameName(name, n)}
      BY <1>1, WrappedObject
    <3>2. NamesIn(q, DataMarks) = {n \in DataMarks : SameName(name, n)}
      BY <1>1, WrappedObject
    <3> QED BY <3>1, <3>2
  <2>2. NamesIn(v, DataMarks) = {} <=> NamesIn(x, DataMarks) = {}
    BY <1>2, MarksAlike
  <2>3. \A A, B : A \cup B # {} <=> A # {} \/ B # {}
    OBVIOUS
  <2> QED BY <2>1, <2>2, <2>3 DEF HasDataMarker
<1>7. CASE ForRows(c)
  <2>1. Paired(ExtractRows(v, Limit(c)), ExtractRows(x, Limit(c)))
    BY LimitPositive, RowsAlike
  <2>2. SameFindings(c, p, v, q, x)
    BY <1>2, <1>4, <1>6, <1>7, <2>1, RowsVerdict
  <2> QED BY <1>3, <2>2, EssenceAgain
<1>8. CASE ~ForRows(c)
  <2>1. CoherentAs(c, p, v) <=> CoherentAs(c, q, x)
    BY <1>2, <1>5, <1>8 DEF CoherentAs, MarkedAs
  <2>2. ~There(v, "AREA_NM")
    BY <1>8 DEF There, Spelled, SameName
  <2>3. ~There(x, "AREA_NM")
    BY <2>2, Lookup
  <2>4. TextOf(Null) = None
    BY DEF TextOf, Blank, Is, Null
  <2>5. ~SoundAs(c, p, v) /\ ~SoundAs(c, q, x)
    BY <1>8, <2>2, <2>3, <2>4 DEF SoundAs, There, Value
  <2>6. SameFindings(c, p, v, q, x)
    BY <1>2, <2>1, <2>5 DEF SameFindings
  <2> QED BY <1>3, <2>6, EssenceAgain
<1> QED BY <1>7, <1>8

-----------------------------------------------------------------------------
(* An answer with its fields at the top *)

(* The field that has the error, and what it is. *)
ErrorAt(v, i, w) ==
  /\ i \in DOMAIN v.object /\ SameName(v.object[i][1], "errorMessage")
  /\ w = v.object[i][2] /\ w \in Values /\ Plain(w) /\ TextValue(w, CodeNames) # None
  /\ \A j \in DOMAIN w.object : ~Among(w.object[j][1], RowLists)

(* In JSON it is found there, or in its only field, *)
LEMMA TopResult ==
  ASSUME NEW v \in Values, Is("object", v), Distinct(v), ~There(v, "RESULT"),
         NEW i, NEW w, ErrorAt(v, i, w), NEW content \in {v, w}
  PROVE  ExtractResult(v, content) =
           CodeAndMessage(TextValue(w, CodeNames), TextValue(w, MessageNames))
<1>1. Is("object", w) /\ w \in Values /\ w # None
  BY JsonValuesAssumption DEF ErrorAt, Plain
<1>2. Value(v, "errorMessage") = w
  BY FoundOnce DEF ErrorAt
<1>3. MappingValue(v, "errorMessage") = w
  BY <1>1, <1>2 DEF MappingValue
<1>4. MappingValue(v, "RESULT") = None
  BY DEF MappingValue, There, Value, Is, Null
<1>5. \A n : MappingValue(w, n) = None
  <2> SUFFICES ASSUME NEW n PROVE ~Is("object", Value(w, n))
    BY DEF MappingValue
  <2>1. CASE There(w, n)
    BY <1>1, <2>1, PlainAt DEF ErrorAt, Scalar
  <2>2. CASE ~There(w, n)
    BY <2>2 DEF There, Value, Is, Null
  <2> QED BY <2>1, <2>2
<1>6. PICK r : r = Results(v, content)
  OBVIOUS
<1>7. r[2] = None /\ r[4] = w /\ r[1] = None /\ r[3] = (IF content = v THEN w ELSE None)
  <2>1. /\ r[1] = MappingValue(content, "RESULT") /\ r[2] = MappingValue(v, "RESULT")
        /\ r[3] = MappingValue(content, "errorMessage") /\ r[4] = MappingValue(v, "errorMessage")
    BY <1>6 DEF Results
  <2> QED BY <1>3, <1>4, <1>5, <2>1
<1>8. TextValue(w, CodeNames) # None
  BY DEF ErrorAt
<1>9. CASE content = v
  <2>1. 3 \in Coded(r) /\ 1 \notin Coded(r) /\ 2 \notin Coded(r)
    BY <1>1, <1>7, <1>8, <1>9 DEF Coded
  <2>2. \A j \in 1..4 : j < 3 => j \notin Coded(Results(v, content))
    BY <1>6, <2>1
  <2> QED BY <1>6, <1>7, <1>9, <2>1, <2>2, FirstCoded
<1>10. CASE content # v
  <2>1. 4 \in Coded(r) /\ 1 \notin Coded(r) /\ 2 \notin Coded(r) /\ 3 \notin Coded(r)
    BY <1>1, <1>7, <1>8, <1>10 DEF Coded
  <2>2. \A j \in 1..4 : j < 4 => j \notin Coded(Results(v, content))
    BY <1>6, <2>1
  <2> QED BY <1>6, <1>7, <2>1, <2>2, FirstCoded
<1> QED BY <1>9, <1>10

(* and in XML under the name of the service. *)
LEMMA NestedResult ==
  ASSUME Legible, NEW v, NEW x, Alike(v, x), Proper(v), ~There(v, "RESULT"),
         NEW i, NEW w, ErrorAt(v, i, w),
         NEW name, ~SameName(name, "RESULT"), NEW q, q = Wrapped(name, x)
  PROVE  ExtractResult(q, x) =
           CodeAndMessage(TextValue(w, CodeNames), TextValue(w, MessageNames))
<1>1. /\ v \in Values /\ Is("object", v) /\ Distinct(v) /\ x \in Values /\ Is("object", x)
  BY DEF Alike
<1>2. Is("object", w) /\ w \in Values /\ Plain(w)
  BY DEF ErrorAt, Plain
<1>3. MappingValue(v, "errorMessage") = w
  BY <1>1, <1>2, FoundOnce DEF ErrorAt, MappingValue
<1>4. SameTexts(w, MappingValue(x, "errorMessage"))
  BY <1>3, MappingAlike DEF Legible
<1>5. PICK y : y = MappingValue(x, "errorMessage")
  OBVIOUS
<1>6. /\ y # None /\ TextValue(y, CodeNames) = TextValue(w, CodeNames)
      /\ TextValue(y, MessageNames) = TextValue(w, MessageNames)
  BY <1>2, <1>4, <1>5, JsonValuesAssumption DEF SameTexts
<1>7. MappingValue(x, "RESULT") = None
  <2>1. ~There(x, "RESULT")
    BY Lookup
  <2> QED BY <2>1 DEF MappingValue, There, Value, Is, Null
<1>8. MappingValue(q, "RESULT") = None
  BY <1>1, WrappedObject
<1>9. PICK r : r = Results(q, x)
  OBVIOUS
<1>10. r[1] = None /\ r[2] = None /\ r[3] = y
  BY <1>5, <1>7, <1>8, <1>9 DEF Results
<1>11. 3 \in Coded(r) /\ 1 \notin Coded(r) /\ 2 \notin Coded(r)
  BY <1>6, <1>10 DEF Coded, ErrorAt
<1>12. \A j \in 1..4 : j < 3 => j \notin Coded(Results(q, x))
  BY <1>9, <1>11
<1> QED BY <1>6, <1>9, <1>10, <1>11, <1>12, FirstCoded

(* Its rows: the only field there is, if there is but one, is no row and   *)
(* has none.                                                               *)
LEMMA TopRows ==
  ASSUME Legible, NEW v, NEW x, Alike(v, x), Proper(v),
         NEW i, NEW w, ErrorAt(v, i, w), NEW limit \in Nat \ {0},
         NEW content, content = IF Len(v.object) = 1 THEN w ELSE v
  PROVE  Paired(ExtractRows(content, limit), ExtractRows(x, limit))
<1>1. v \in Values /\ Is("object", v) /\ w \in Values /\ Is("object", w)
  BY DEF Alike, ErrorAt, Plain
<1>2. Paired(ExtractRows(v, limit), ExtractRows(x, limit))
  BY RowsAlike
<1>3. \A u \in Values : Is("object", u) /\ (\A j \in DOMAIN u.object : ~Among(u.object[j][1], RowLists))
                     => ExtractRows(u, limit) = <<>>
  <2> SUFFICES ASSUME NEW u \in Values, Is("object", u),
                      \A j \in DOMAIN u.object : ~Among(u.object[j][1], RowLists)
               PROVE  ExtractRows(u, limit) = <<>>
    OBVIOUS
  <2>1. \A n \in RowLists : ~There(u, n)
    BY DEF Among, There, Spelled, SameName
  <2>2. FirstFound(u, AllRowNames) = Null
    BY <2>1, RowsFound DEF There, Value
  <2> QED BY <2>2, RowsByKind
<1>4. CASE Len(v.object) = 1
  <2>1. DOMAIN v.object = {1} /\ i = 1
    <3>1. v.object \in Seq(STRING \X Values)
      BY <1>1, ShapeOfValue
    <3> QED BY <1>4, <3>1 DEF ErrorAt
  <2>2. ~Among(v.object[1][1], RowLists)
    <3>1. SameName(v.object[1][1], "errorMessage")
      BY <2>1 DEF ErrorAt
    <3>2. ~Among("errorMessage", RowLists)
      BY DEF Legible
    <3> QED BY <3>1, <3>2, AmongSame
  <2>3. ExtractRows(v, limit) = <<>> /\ ExtractRows(w, limit) = <<>>
    BY <1>1, <1>3, <2>1, <2>2 DEF ErrorAt
  <2> QED BY <1>2, <1>4, <2>3
<1>5. CASE Len(v.object) # 1
  BY <1>2, <1>5
<1> QED BY <1>4, <1>5

(* So the answer is the same in both formats. *)
LEMMA TopAlike ==
  ASSUME Legible, NEW c \in CallShape, ~Refused(c), ForRows(c),
         NEW v, NEW x, Alike(v, x), Proper(v),
         NEW i, NEW w, ErrorAt(v, i, w),
         ~There(v, Target(c)), ~There(v, "RESULT"), ~SameName(Target(c), "RESULT"),
         NEW q, q = Wrapped(Target(c), x),
         ExtractResult(v, v).code = "INFO-000" => Backed(v)
  PROVE  Essence(Understood(c, v)) = Essence(Understood(c, q))
<1>1. /\ v \in Values /\ Is("object", v) /\ x \in Values /\ Is("object", x) /\ Distinct(v)
  BY DEF Alike
<1>2. Is("object", w) /\ w \in Values /\ w # Null
  BY DEF ErrorAt, Plain, Is, Null
<1>3. Value(v, Target(c)) = Null /\ ~Is("object", Null)
  BY DEF There, Value, Is, Null
<1>4. PICK content : content = IF Len(v.object) = 1 THEN w ELSE v
  OBVIOUS
<1>5. Unwrap(v, Target(c)) = content
  <2>1. Len(v.object) = 1 => v.object[1][2] = w
    <3>1. v.object \in Seq(STRING \X Values)
      BY <1>1, ShapeOfValue
    <3> QED BY <3>1 DEF ErrorAt
  <2>2. Lone(v) <=> Len(v.object) = 1
    BY <1>2, <2>1 DEF Lone
  <2> QED BY <1>3, <1>4, <2>1, <2>2 DEF Unwrap
<1>6. Unwrap(q, Target(c)) = x
  BY <1>1, WrappedObject
<1>7. ExtractResult(v, content) = ExtractResult(q, x) /\ ExtractResult(v, v) = ExtractResult(q, x)
  <2>1. ExtractResult(q, x) = CodeAndMessage(TextValue(w, CodeNames), TextValue(w, MessageNames))
    BY NestedResult
  <2>2. content \in {v, w}
    BY <1>4
  <2>3. ExtractResult(v, content) = CodeAndMessage(TextValue(w, CodeNames), TextValue(w, MessageNames))
    BY <1>1, <2>2, TopResult
  <2>4. ExtractResult(v, v) = CodeAndMessage(TextValue(w, CodeNames), TextValue(w, MessageNames))
    BY <1>1, TopResult
  <2> QED BY <2>1, <2>3, <2>4
<1>8. HasEnvelopeMarker(v, content, Target(c)) <=> HasEnvelopeMarker(q, x, Target(c))
  <2>1. Value(v, "errorMessage") = w
    BY <1>1, FoundOnce DEF ErrorAt
  <2>2. "errorMessage" \in EnvelopeMarks
    BY DEF EnvelopeMarks
  <2>3. NamesIn(v, EnvelopeMarks) # {}
    BY <1>2, <2>1, <2>2 DEF NamesIn
  <2>4. HasEnvelopeMarker(v, content, Target(c))
    BY <1>3, <2>3 DEF HasEnvelopeMarker
  <2>5. SameName(Target(c), Target(c))
    BY DEF SameName
  <2>6. HasEnvelopeMarker(q, x, Target(c)) <=> x.object # <<>>
    BY <1>1, <2>5, WrappedObject
  <2> QED BY <2>4, <2>6, NotHollow
<1>9. ExtractResult(v, content).code = "INFO-000" => HasDataMarker(v, content) /\ HasDataMarker(q, x)
  <2> SUFFICES ASSUME ExtractResult(v, content).code = "INFO-000"
               PROVE  HasDataMarker(v, content) /\ HasDataMarker(q, x)
    OBVIOUS
  <2>1. NamesIn(v, DataMarks) # {} /\ NamesIn(x, DataMarks) # {}
    BY <1>7, MarksAlike
  <2> QED BY <2>1 DEF HasDataMarker
<1>10. Paired(ExtractRows(content, Limit(c)), ExtractRows(x, Limit(c)))
  BY <1>4, LimitPositive, TopRows
<1>11. SameFindings(c, v, content, q, x)
  BY <1>7, <1>8, <1>9, <1>10, RowsVerdict
<1> QED BY <1>5, <1>6, <1>11, EssenceAgain

-----------------------------------------------------------------------------
(* The two formats of a content *)

(* What is parsed of them. *)
LEMMA BothParsed ==
  ASSUME ParsedAsWritten, NEW content \in Contents,
         \A form \in {"json", "xml"} : ParsedAs(content, form) # None,
         NEW u, u = content.value, NEW e, e = Head(Written[u])
  PROVE  /\ u \in Values /\ XmlValue[e] \in Values
         /\ ParsedAs(content, "json") \in Values /\ ParsedAs(content, "xml") \in Values
         /\ ParsedAs(content, "json") = InJson(content).value
         /\ InJson(content).value = IF content.json = None THEN u ELSE Wrapped(content.json, u)
         /\ ParsedAs(content, "xml") = Wrapped(content.xml, XmlValue[e]) /\ content.xml \in STRING
<1>1. PICK p : p = ParsedAs(content, "json")
  OBVIOUS
<1>2. PICK q : q = ParsedAs(content, "xml")
  OBVIOUS
<1>3. p # None /\ p \in Values /\ q # None /\ q \in Values
  BY <1>1, <1>2, ExchangeAssumption DEF Forms
<1>4. InJson(content).value = IF content.json = None THEN u ELSE Wrapped(content.json, u)
  BY DEF InJson, Wrapped
<1>5. p = InJson(content).value
  <2>1. p = ParsePayload(InJson(content))
    BY <1>1 DEF ParsedAsWritten, Forms, Body
  <2>2. InJson(content).form = "json"
    BY DEF InJson
  <2> QED BY <1>3, <2>1, <2>2 DEF ParsePayload
<1>6. q = Wrapped(content.xml, XmlValue[e])
  <2>1. q = ParsePayload(InXml(content))
    BY <1>2 DEF ParsedAsWritten, Forms, Body
  <2>2. InXml(content).form = "xml" /\ InXml(content).root = <<content.xml, e>>
    BY DEF InXml
  <2> QED BY <2>1, <2>2 DEF ParsePayload, Wrapped
<1>7. ASSUME NEW name, NEW v, Wrapped(name, v) \in Values PROVE v \in Values /\ name \in STRING
  <2>1. PICK z : z = Wrapped(name, v)
    OBVIOUS
  <2>2. Is("object", z) /\ z.object = <<<<name, v>>>> /\ z \in Values
    BY <1>7, <2>1 DEF Wrapped, Object, Is
  <2>3. z.object \in Seq(STRING \X Values)
    BY <2>2, ShapeOfValue
  <2>4. z.object[1] \in STRING \X Values /\ z.object[1] = <<name, v>>
    BY <2>2, <2>3
  <2> QED BY <2>4
<1>8. u \in Values
  BY <1>3, <1>4, <1>5, <1>7
<1>9. XmlValue[e] \in Values /\ content.xml \in STRING
  BY <1>3, <1>6, <1>7
<1> QED BY <1>1, <1>2, <1>3, <1>4, <1>5, <1>6, <1>8, <1>9

(* Redacted, a value under a name is one still. *)
LEMMA RedactedWrapped ==
  ASSUME NEW name, NEW v, NEW p \in Values, p = Wrapped(name, v), NEW secrets
  PROVE  RedactValue(p, secrets) = Wrapped(RedactText(name, secrets), RedactValue(v, secrets))
<1>1. Is("object", p) /\ p.object = <<<<name, v>>>>
  BY DEF Wrapped, Object, Is
<1>2. RedactValue(p, secrets) =
        Object([i \in DOMAIN p.object |->
          <<RedactText(p.object[i][1], secrets), RedactValue(p.object[i][2], secrets)>>])
  BY <1>1, RedactedKinds
<1>3. [i \in DOMAIN p.object |->
          <<RedactText(p.object[i][1], secrets), RedactValue(p.object[i][2], secrets)>>]
        = <<<<RedactText(name, secrets), RedactValue(v, secrets)>>>>
  BY <1>1
<1> QED BY <1>2, <1>3 DEF Wrapped

(* The key is no word of the API. *)
LEMMA KeyIsApart == KeyIsText /\ Legible => KeyApart
BY DEF KeyIsText, Legible, KeyApart

(* What is read of the XML is what is in the JSON, redacted. *)
LEMMA RedactedAlike ==
  ASSUME KeyApart, NEW secrets \in SUBSET {Key}, NEW u \in Values,
         NEW v, v = RedactValue(u, secrets), Proper(v),
         XmlValue[Head(Written[u])] \in Values,
         NEW x, x = RedactValue(XmlValue[Head(Written[u])], secrets)
  PROVE  Alike(v, x)
<1>1. Regular(u) /\ \A i \in DOMAIN u.object : Shaped(u.object[i][2])
  BY RawShape
<1>2. Is("object", u)
  BY <1>1 DEF Regular
<1>3. Head(Written[u]) = One(u)
  <2>1. PICK o : o = One(u)
    OBVIOUS
  <2>2. Written[u] = <<o>>
    BY <1>2, <2>1, ObjectWritten
  <2>3. Head(<<o>>) = o
    OBVIOUS
  <2> QED BY <2>1, <2>2, <2>3
<1>4. PICK y : y = XmlValue[One(u)]
  OBVIOUS
<1>5. Is("object", y) /\ Entries(y.object) = Kept(u) /\ y \in Values /\ x = RedactValue(y, secrets)
  BY <1>1, <1>3, <1>4, RegularRead
<1>6. Entries(x.object) = Kept(v)
  BY <1>1, <1>2, <1>5, RedactedEntries
<1>7. v \in Values /\ x \in Values /\ Is("object", x)
  BY <1>5, RedactedObject, ExchangeAssumption
<1> QED BY <1>6, <1>7 DEF Alike, Proper

(* A documented content is understood the same in both formats. *)
LEMMA UnderstoodAlike ==
  ASSUME KeyIsText, Legible, ParsedAsWritten,
         NEW content \in Contents, Documented(content),
         NEW c \in CallShape, ~Refused(c),
         content.xml \in {Target(c), "RESULT", "errorMessage"},
         NEW secrets \in SUBSET {Key}
  PROVE  Essence(Understanding(c, ParsedAs(content, "json"), secrets)) =
           Essence(Understanding(c, ParsedAs(content, "xml"), secrets))
<1>1. PICK u : u = content.value
  OBVIOUS
<1>2. PICK e : e = Head(Written[u])
  OBVIOUS
<1>3. PICK json : json = ParsedAs(content, "json")
  OBVIOUS
<1>4. PICK xml : xml = ParsedAs(content, "xml")
  OBVIOUS
<1>5. json # None /\ xml # None
  BY <1>3, <1>4 DEF Documented
<1>6. /\ u \in Values /\ XmlValue[e] \in Values /\ json \in Values /\ xml \in Values
      /\ json = InJson(content).value
      /\ json = IF content.json = None THEN u ELSE Wrapped(content.json, u)
      /\ xml = Wrapped(content.xml, XmlValue[e]) /\ content.xml \in STRING
  BY <1>1, <1>2, <1>3, <1>4, <1>5, BothParsed
<1>7. PICK v : v = RedactValue(u, secrets)
  OBVIOUS
<1>8. PICK x : x = RedactValue(XmlValue[e], secrets)
  OBVIOUS
<1>9. PICK p : p = RedactValue(json, secrets)
  OBVIOUS
<1>10. PICK q : q = RedactValue(xml, secrets)
  OBVIOUS
<1>11. content.xml # "citydata" /\ content.xml \in RowServices \cup {"RESULT", "errorMessage"}
  <2>1. content.xml # "citydata"
    BY DEF Documented
  <2>2. Target(c) = "citydata" \/ Target(c) \in RowServices
    BY DEF Target, RowServices, Services, General, Subway, AllStations, CallShape
  <2> QED BY <2>1, <2>2
<1>12. /\ Proper(v)
       /\ content.json = content.xml \/ AtTheTop(content, v)
       /\ ExtractResult(p, v).code = "INFO-000" =>
            Backed(v) \/ (content.json = content.xml /\ Unmarked(v))
       /\ content.xml \notin Services =>
            \A i \in DOMAIN v.object : ~SameName(v.object[i][1], "AREA_NM")
  BY <1>1, <1>6, <1>7, <1>9, <1>11 DEF Documented
<1>13. Alike(v, x)
  BY <1>2, <1>6, <1>7, <1>8, <1>12, KeyIsApart, RedactedAlike
<1>14. q = Wrapped(RedactText(content.xml, secrets), x)
  BY <1>6, <1>8, <1>10, RedactedWrapped
<1>15. Essence(Understood(c, p)) = Essence(Understood(c, q))
  <2>1. CASE content.json = content.xml
    <3>1. content.json # None
      BY <1>6, <2>1, JsonValuesAssumption
    <3>2. p = Wrapped(RedactText(content.xml, secrets), v)
      BY <1>6, <1>7, <1>9, <2>1, <3>1, RedactedWrapped
    <3>3. ExtractResult(p, v).code = "INFO-000" => Backed(v) \/ Unmarked(v)
      BY <1>12
    <3>4. ~ForRows(c) => \A i \in DOMAIN v.object : ~SameName(v.object[i][1], "AREA_NM")
      <4> SUFFICES ASSUME ~ForRows(c) PROVE content.xml \notin Services
        BY <1>12
      <4>1. Target(c) = "citydata"
        BY DEF ForRows, Target, AllStations
      <4>2. content.xml \in {"RESULT", "errorMessage"}
        BY <1>11, <4>1
      <4> QED BY <4>2 DEF Services, General, Subway, AllStations
    <3>5. PICK name : name = RedactText(content.xml, secrets)
      OBVIOUS
    <3>6. p = Wrapped(name, v) /\ q = Wrapped(name, x) /\ Proper(v)
      BY <1>12, <1>14, <3>2, <3>5
    <3> QED BY <1>13, <3>3, <3>4, <3>6, WrappedAlike
  <2>2. CASE content.json # content.xml
    <3>1. AtTheTop(content, v)
      BY <1>12, <2>2
    <3>2. p = v
      BY <1>6, <1>7, <1>9, <3>1 DEF AtTheTop
    <3>3. /\ content.xml \in Subway
          /\ ~SameName(content.xml, "RESULT") /\ ~SameName(content.xml, "errorMessage")
          /\ \A i \in DOMAIN v.object : ~SameName(v.object[i][1], content.xml)
                                        /\ ~SameName(v.object[i][1], "RESULT")
      BY <3>1 DEF AtTheTop, Among
    <3>4. SameName("RESULT", "RESULT") /\ SameName("errorMessage", "errorMessage")
      BY DEF SameName
    <3>5. content.xml = Target(c)
      BY <3>3, <3>4
    <3>6. ForRows(c)
      BY <1>11, <3>5 DEF ForRows, Target, AllStations
    <3>7. RedactText(content.xml, secrets) = content.xml
      <4>1. content.xml \in Services
        BY <3>3 DEF Services
      <4> QED BY <4>1 DEF RedactText, Legible
    <3>8. q = Wrapped(Target(c), x)
      BY <1>14, <3>5, <3>7
    <3>9. ~There(v, Target(c)) /\ ~There(v, "RESULT") /\ ~SameName(Target(c), "RESULT")
      BY <3>3, <3>5 DEF There, Spelled, SameName
    <3>10. PICK i, w : ErrorAt(v, i, w)
      <4>1. PICK i \in DOMAIN v.object :
              /\ SameName(v.object[i][1], "errorMessage")
              /\ Plain(v.object[i][2]) /\ TextValue(v.object[i][2], CodeNames) # None
              /\ \A j \in DOMAIN v.object[i][2].object : ~Among(v.object[i][2].object[j][1], RowLists)
        BY <3>1 DEF AtTheTop, ErrorMessageIn
      <4>2. v.object[i][2] \in Values
        <5>1. v.object \in Seq(STRING \X Values)
          BY <1>13, ShapeOfValue DEF Alike
        <5> QED BY <4>1, <5>1
      <4>3. ErrorAt(v, i, v.object[i][2])
        BY <4>1, <4>2 DEF ErrorAt
      <4> QED BY <4>3
    <3>11. ExtractResult(v, v).code = "INFO-000" => Backed(v)
      BY <1>12, <2>2, <3>2
    <3>12. Essence(Understood(c, v)) = Essence(Understood(c, q))
      BY <1>12, <1>13, <3>6, <3>8, <3>9, <3>10, <3>11, TopAlike
    <3> QED BY <3>2, <3>12
  <2> QED BY <2>1, <2>2
<1> QED BY <1>3, <1>4, <1>5, <1>9, <1>10, <1>15 DEF Understanding

-----------------------------------------------------------------------------
(* The theorem *)

(* What is parsed is understood as Parsers says, once and for all.         *)
ParsedIsUnderstood ==
  Parsed => /\ call \in CallShape /\ ~Refused(call) /\ response \in Answers
            /\ outcome = Understanding(call, ParsedAs(response.content, response.form), Secrets)

(* It is inductive. *)
LEMMA ParsedIsUnderstoodStep ==
  ASSUME RefinementInvariant, ParsedIsUnderstood, [Next]_vars
  PROVE  ParsedIsUnderstood'
<1>1. CASE UNCHANGED vars
  BY <1>1 DEF vars, ParsedIsUnderstood, Parsed, Secrets, Answers
<1>2. ASSUME NEW kind \in {"refused", "http"}, End(Failure(kind)) PROVE ParsedIsUnderstood'
  BY <1>2 DEF End, Failure, ParseError, ParsedIsUnderstood, Parsed
<1>3. CASE Refuse \/ TooLong \/ TurnedAway \/ (\E r \in Answers : DeclaredTooLong(r))
  BY <1>2, <1>3 DEF Refuse, TooLong, TurnedAway, DeclaredTooLong
<1>4. CASE Ask \/ Piece \/ EndOfBody \/ Assign \/ \E r \in Answers : Headers(r)
  BY <1>4 DEF Ask, Piece, EndOfBody, Assign, Headers, ParsedIsUnderstood, Parsed
<1>5. CASE Interrupted
  BY <1>2, <1>5 DEF Interrupted, ParsedIsUnderstood, Parsed
<1>6. CASE Parse
  <2>1. /\ call \in CallShape /\ ~Refused(call) /\ response \in Answers
        /\ outcome' = Understanding(call, ParsedAs(response.content, response.form), Secrets)
        /\ call' = call /\ response' = response /\ replaced' = replaced
    BY <1>6, ExchangeAssumption DEF Parse, End, RefinementInvariant
  <2>2. Secrets' = Secrets /\ Answers' = Answers
    BY <2>1 DEF Secrets, Answers
  <2> QED BY <2>1, <2>2 DEF ParsedIsUnderstood
<1> QED BY <1>1, <1>3, <1>4, <1>5, <1>6 DEF Next

(* An answer is the same error, or the same typed items, in JSON and in    *)
(* XML: lists of one, empty lists, numbers, blanks, nulls and spellings of *)
(* names make no difference, whatever documented contents there are.       *)
THEOREM ItemsAlwaysAgree ==
  KeyIsText /\ Legible /\ ParsedAsWritten /\ (\A content \in Contents : Documented(content))
    => (Spec => []ItemsAgree)
<1> SUFFICES ASSUME KeyIsText, Legible, ParsedAsWritten,
                    \A content \in Contents : Documented(content)
             PROVE  Spec => []ItemsAgree
  OBVIOUS
<1>1. Init => RefinementInvariant /\ ParsedIsUnderstood
  BY DEF Init, RefinementInvariant, ParsedIsUnderstood, Parsed
<1>2. RefinementInvariant /\ ParsedIsUnderstood /\ [Next]_vars
        => RefinementInvariant' /\ ParsedIsUnderstood'
  BY RefinementInvariantStep, ParsedIsUnderstoodStep
<1>3. ParsedIsUnderstood => ItemsAgree
  <2> SUFFICES ASSUME ParsedIsUnderstood, Rooted, NEW form \in {"json", "xml"}
               PROVE  Essence(InForm(form)) = Essence(outcome)
    BY DEF ItemsAgree
  <2>1. /\ call \in CallShape /\ ~Refused(call) /\ response.content \in Contents
        /\ outcome = Understanding(call, ParsedAs(response.content, response.form), Secrets)
        /\ response.form \in {"json", "xml"}
        /\ response.content.xml \in {Target(call), "RESULT", "errorMessage"}
    BY DEF ParsedIsUnderstood, Rooted, Answers
  <2>2. Secrets \in SUBSET {Key}
    BY DEF Secrets
  <2>3. Essence(InForm("json")) = Essence(InForm("xml"))
    BY <2>1, <2>2, UnderstoodAlike DEF InForm
  <2>4. outcome = InForm(response.form)
    BY <2>1 DEF InForm
  <2> QED BY <2>1, <2>3, <2>4
<1> QED BY <1>1, <1>2, <1>3, PTL DEF Spec
=============================================================================
