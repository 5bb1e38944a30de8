--------------------------- MODULE SettingsProofs ---------------------------
(***************************************************************************)
(* validate_base_url gives two base URLs one form exactly if they mean one *)
(* endpoint, whatever their paths.  Normalised goes through a path from    *)
(* left to right; SameResource looks at the names that last and counts     *)
(* from the end.  What joins the two is Holds, an invariant of the walk    *)
(* over the segments, by induction over their number.                      *)
(***************************************************************************)
EXTENDS Settings, FiniteSetTheorems, TLAPS

Subsequences == INSTANCE SequenceTheorems

(* The segments without an effect, and the one that leads up. *)
Dots   == {<<>>, <<".">>}
TwoDots == <<".", ".">>

(* Two symbols are decoded to one exactly if they are equivalent. *)
LEMMA DecodedEqual ==
  ASSUME NEW a, NEW b
  PROVE  Decoded(a) = Decoded(b) <=> (a = b \/ {a, b} \in Equivalent)
<1>1. \A c : Decoded(c) = IF c = "%2e" THEN "." ELSE IF c = "%7e" THEN "~"
                          ELSE IF c = "%2f" THEN "%2F" ELSE c
  BY Zenon DEF Decoded
<1> QED BY <1>1 DEF Equivalent

(* A segment with its escapes decoded. *)
DecodedSegment(segment) == [j \in DOMAIN segment |-> Decoded(segment[j])]

(* Intervals tell how long they are. *)
LEMMA SameLength ==
  ASSUME NEW m \in Nat, NEW n \in Nat, 1..m = 1..n
  PROVE  m = n
<1>1. \A k \in Nat \ {0} : k <= m <=> k <= n
  <2> TAKE k \in Nat \ {0}
  <2>1. k \in 1..m <=> k \in 1..n
    OBVIOUS
  <2> QED BY <2>1
<1> QED BY <1>1

(* The same for those from 0. *)
LEMMA SameLengthFromZero ==
  ASSUME NEW m \in Nat, NEW n \in Nat, 0..m - 1 = 0..n - 1
  PROVE  m = n
<1>1. \A k \in Nat : k < m <=> k < n
  <2> TAKE k \in Nat
  <2>1. k \in 0..m - 1 <=> k \in 0..n - 1
    OBVIOUS
  <2> QED BY <2>1
<1> QED BY <1>1

(* Two segments are decoded to one exactly if they are spellings of one. *)
LEMMA SegmentsEqual ==
  ASSUME NEW S, NEW a \in Seq(S), NEW b \in Seq(S)
  PROVE  DecodedSegment(a) = DecodedSegment(b) <=> SameSegment(a, b)
<1>1. DOMAIN a = 1..Len(a) /\ DOMAIN b = 1..Len(b) /\ Len(a) \in Nat /\ Len(b) \in Nat
  OBVIOUS
<1>2. ASSUME SameSegment(a, b) PROVE DecodedSegment(a) = DecodedSegment(b)
  BY <1>1, <1>2, DecodedEqual DEF SameSegment, DecodedSegment
<1>3. ASSUME DecodedSegment(a) = DecodedSegment(b) PROVE SameSegment(a, b)
  <2>1. DOMAIN a = DOMAIN b
    <3>1. DOMAIN DecodedSegment(a) = DOMAIN a /\ DOMAIN DecodedSegment(b) = DOMAIN b
      BY DEF DecodedSegment
    <3> QED BY <1>3, <3>1
  <2>2. Len(a) = Len(b)
    BY <1>1, <2>1, SameLength
  <2>3. \A i \in 1..Len(a) : Decoded(a[i]) = Decoded(b[i])
    <3> TAKE i \in 1..Len(a)
    <3>1. DecodedSegment(a)[i] = Decoded(a[i]) /\ DecodedSegment(b)[i] = Decoded(b[i])
      BY <1>1, <2>2 DEF DecodedSegment
    <3> QED BY <1>3, <3>1
  <2> QED BY <2>2, <2>3, DecodedEqual DEF SameSegment
<1> QED BY <1>2, <1>3

(* What a segment means is what its decoded form is. *)
LEMMA SegmentKinds ==
  ASSUME NEW a \in Seq(STRING)
  PROVE  /\ IsUp(a) <=> DecodedSegment(a) = TwoDots
         /\ IsName(a) <=> DecodedSegment(a) \notin Dots \cup {TwoDots}
<1> DEFINE S == STRING \cup {"."}
<1>1. a \in Seq(S) /\ <<".", ".">> \in Seq(S) /\ <<".">> \in Seq(S) /\ <<>> \in Seq(S)
  OBVIOUS
<1>2. /\ DecodedSegment(<<".", ".">>) = <<".", ".">> /\ DecodedSegment(<<".">>) = <<".">>
      /\ DecodedSegment(<<>>) = <<>>
  <2>1. Decoded(".") = "."
    BY DEF Decoded
  <2> QED BY <2>1 DEF DecodedSegment
<1>3. DecodedSegment(a) = <<>> <=> a = <<>>
  <2>1. DOMAIN DecodedSegment(a) = DOMAIN a
    BY DEF DecodedSegment
  <2> QED BY <1>2, <2>1
<1> QED BY <1>1, <1>2, <1>3, SegmentsEqual DEF IsUp, IsName, Dots, TwoDots

-----------------------------------------------------------------------------
(* Normalised, segment by segment *)

(* Normalised is recursive over the numbers of segments: what is left      *)
(* after n of them is made of what is left after n - 1.                    *)
Before(n) == IF n = 0 THEN {} ELSE {n - 1}

Step(n, above, path) == IF n = 0 THEN <<>> ELSE Descend(above[n - 1], path[n])

Walking == INSTANCE Recursion
  WITH Nodes <- Nat, Depth <- [n \in Nat |-> n], Below <- Before, Level <- Step

(* What is left of a path after its first n segments. *)
LEMMA NormalisedStepwise ==
  ASSUME NEW path
  PROVE  \E A : /\ A[0] = <<>>
                /\ \A n \in Nat : A[n + 1] = Descend(A[n], path[n + 1])
                /\ Normalised(path) = A[Len(path)]
<1> DEFINE above[n \in Nat] == IF n = 0 THEN <<>> ELSE Descend(above[n - 1], path[n])
           walk[n \in Nat]  == Step(n, walk, path)
<1>1. walk = [n \in Nat |-> Step(n, walk, path)]
  <2>1. Walking!Grounded
    BY DEF Walking!Grounded, Before
  <2>2. Walking!Local(path)
    BY DEF Walking!Local, Before, Step
  <2> QED BY <2>1, <2>2, Walking!RecursiveFunction
<1>2. above = walk
  BY DEF Step
<1>3. Normalised(path) = walk[Len(path)]
  BY <1>2 DEF Normalised
<1> HIDE DEF walk, above
<1>4. walk[0] = <<>>
  BY <1>1 DEF Step
<1>5. \A n \in Nat : walk[n + 1] = Descend(walk[n], path[n + 1])
  <2> TAKE n \in Nat
  <2>1. n + 1 \in Nat /\ n + 1 # 0 /\ (n + 1) - 1 = n
    OBVIOUS
  <2>2. walk[n + 1] = Step(n + 1, walk, path)
    BY <1>1, <2>1
  <2> QED BY <2>1, <2>2 DEF Step
<1> QED BY <1>3, <1>4, <1>5

-----------------------------------------------------------------------------
(* Heights and places *)

(* The names that last after n segments, by the heights on the way. *)
LastingAt(names, h, n) == {i \in 1..n : i \in names /\ \A j \in i..n : h[j] >= h[i]}

(* What is left of the path holds them, each as far from its end as the    *)
(* height has grown since, and nothing else.                               *)
Holds(left, D, names, h, n) ==
  /\ \A i \in LastingAt(names, h, n) :
       /\ Len(left) - (h[n] - h[i]) \in 1..Len(left)
       /\ left[Len(left) - (h[n] - h[i])] = D[i]
  /\ \A k \in 1..Len(left) :
       \E i \in LastingAt(names, h, n) : Len(left) - (h[n] - h[i]) = k

(* A name is added to what is left, *)
LEMMA NameHeld ==
  ASSUME NEW T, NEW left \in Seq(T), NEW D, NEW names, NEW h, NEW n \in Nat,
         \A j \in 0..n + 1 : h[j] \in Int,
         Holds(left, D, names, h, n), D[n + 1] \in T,
         n + 1 \in names, h[n + 1] = h[n] + 1
  PROVE  /\ Append(left, D[n + 1]) \in Seq(T)
         /\ Holds(Append(left, D[n + 1]), D, names, h, n + 1)
<1> DEFINE more == Append(left, D[n + 1])
<1>1. /\ more \in Seq(T) /\ Len(more) = Len(left) + 1 /\ more[Len(more)] = D[n + 1]
      /\ \A k \in 1..Len(left) : more[k] = left[k]
  OBVIOUS
<1> HIDE DEF more
<1>2. LastingAt(names, h, n + 1) = LastingAt(names, h, n) \cup {n + 1}
  <2>1. \A i \in LastingAt(names, h, n) : h[n] >= h[i]
    BY DEF LastingAt
  <2> QED BY <2>1 DEF LastingAt
<1>3. \A i \in LastingAt(names, h, n) :
        Len(more) - (h[n + 1] - h[i]) = Len(left) - (h[n] - h[i])
  <2> TAKE i \in LastingAt(names, h, n)
  <2>1. h[i] \in Int /\ h[n] \in Int /\ Len(left) \in Int
    BY DEF LastingAt
  <2>2. h[n + 1] - h[i] = (h[n] - h[i]) + 1 /\ h[n] - h[i] \in Int
    BY <2>1
  <2> QED BY <1>1, <2>1, <2>2
<1>4. Len(more) - (h[n + 1] - h[n + 1]) = Len(more) /\ Len(left) \in Nat
  BY <1>1
<1>5. \A i \in LastingAt(names, h, n + 1) :
        /\ Len(more) - (h[n + 1] - h[i]) \in 1..Len(more)
        /\ more[Len(more) - (h[n + 1] - h[i])] = D[i]
  <2> TAKE i \in LastingAt(names, h, n + 1)
  <2>1. CASE i = n + 1
    BY <2>1, <1>1, <1>4
  <2>2. CASE i \in LastingAt(names, h, n)
    BY <2>2, <1>1, <1>3, <1>4 DEF Holds
  <2> QED BY <1>2, <2>1, <2>2
<1>6. \A k \in 1..Len(more) :
        \E i \in LastingAt(names, h, n + 1) : Len(more) - (h[n + 1] - h[i]) = k
  <2> TAKE k \in 1..Len(more)
  <2>1. CASE k = Len(more)
    BY <2>1, <1>2, <1>4
  <2>2. CASE k # Len(more)
    <3>1. k \in 1..Len(left)
      BY <2>2, <1>1, <1>4
    <3> QED BY <3>1, <1>2, <1>3 DEF Holds
  <2> QED BY <2>1, <2>2
<1> QED BY <1>1, <1>5, <1>6 DEF Holds, more

(* The first n of a sequence. *)
LEMMA Beginning ==
  ASSUME NEW T, NEW s \in Seq(T), NEW n \in Nat, n <= Len(s)
  PROVE  /\ SubSeq(s, 1, n) \in Seq(T) /\ Len(SubSeq(s, 1, n)) = n
         /\ \A k \in 1..n : SubSeq(s, 1, n)[k] = s[k]
<1>1. 1 \in Int /\ n \in Int /\ \A i \in 1..n : s[i] \in T
  OBVIOUS
<1>2. /\ SubSeq(s, 1, n) \in Seq(T)
      /\ Len(SubSeq(s, 1, n)) = IF 1 <= n THEN n - 1 + 1 ELSE 0
      /\ \A i \in 1..n - 1 + 1 : SubSeq(s, 1, n)[i] = s[1 + i - 1]
  BY <1>1, Subsequences!SubSeqProperties
<1>3. n - 1 + 1 = n /\ (~(1 <= n) => n = 0) /\ \A i \in 1..n : 1 + i - 1 = i
  OBVIOUS
<1> QED BY <1>2, <1>3

(* ".." takes the last one away, if there is one, *)
LEMMA UpHeld ==
  ASSUME NEW T, NEW left \in Seq(T), NEW D, NEW names, NEW h, NEW n \in Nat,
         \A j \in 0..n + 1 : h[j] \in Int,
         Holds(left, D, names, h, n),
         n + 1 \notin names, h[n + 1] = h[n] - 1
  PROVE  Climb(left) \in Seq(T) /\ Holds(Climb(left), D, names, h, n + 1)
<1>1. LastingAt(names, h, n + 1) = {i \in LastingAt(names, h, n) : h[i] <= h[n] - 1}
  BY DEF LastingAt
<1>2. CASE left = <<>>
  <2>1. LastingAt(names, h, n) = {}
    BY <1>2 DEF Holds
  <2> QED BY <1>2, <1>1, <2>1 DEF Holds, Climb
<1>3. CASE left # <<>>
  <2> DEFINE less == Front(left)
  <2>1. /\ less \in Seq(T) /\ Len(less) = Len(left) - 1 /\ Len(left) \in Nat \ {0}
        /\ \A k \in 1..Len(less) : less[k] = left[k]
    <3>1. Len(left) \in Nat \ {0}
      BY <1>3
    <3>2. less = SubSeq(left, 1, Len(left) - 1)
      BY DEF Front
    <3> HIDE DEF less
    <3>3. Len(left) - 1 \in Nat /\ Len(left) - 1 <= Len(left)
      BY <3>1
    <3>4. /\ less \in Seq(T) /\ Len(less) = Len(left) - 1
          /\ \A k \in 1..Len(left) - 1 : less[k] = left[k]
      BY <3>2, <3>3, Beginning
    <3> QED BY <3>1, <3>4
  <2> HIDE DEF less
  <2>2. \A i \in LastingAt(names, h, n) : h[i] \in Int /\ h[n] \in Int /\ h[n + 1] \in Int
    BY DEF LastingAt
  <2>3. \A i \in LastingAt(names, h, n) :
          Len(less) - (h[n + 1] - h[i]) = Len(left) - (h[n] - h[i])
    <3> TAKE i \in LastingAt(names, h, n)
    <3>1. h[i] \in Int /\ h[n] \in Int /\ h[n + 1] = h[n] - 1 /\ Len(left) \in Int
      BY <2>1, <2>2
    <3>2. h[n + 1] - h[i] = (h[n] - h[i]) - 1
      BY <3>1
    <3>3. h[n] - h[i] \in Int
      BY <3>1
    <3> QED BY <2>1, <3>1, <3>2, <3>3
  <2>4. \A i \in LastingAt(names, h, n + 1) :
          /\ Len(less) - (h[n + 1] - h[i]) \in 1..Len(less)
          /\ less[Len(less) - (h[n + 1] - h[i])] = D[i]
    <3> TAKE i \in LastingAt(names, h, n + 1)
    <3>1. i \in LastingAt(names, h, n) /\ h[i] <= h[n] - 1
      BY <1>1
    <3>2. /\ Len(left) - (h[n] - h[i]) \in 1..Len(left)
          /\ left[Len(left) - (h[n] - h[i])] = D[i]
      BY <3>1 DEF Holds
    <3>3. Len(left) - (h[n] - h[i]) \in 1..Len(less)
      BY <3>1, <3>2, <2>1, <2>2
    <3> QED BY <3>1, <3>2, <3>3, <2>1, <2>3
  <2>5. \A k \in 1..Len(less) :
          \E i \in LastingAt(names, h, n + 1) : Len(less) - (h[n + 1] - h[i]) = k
    <3> TAKE k \in 1..Len(less)
    <3>0. k \in 1..Len(left)
      BY <2>1
    <3>1. PICK i \in LastingAt(names, h, n) : Len(left) - (h[n] - h[i]) = k
      BY <3>0 DEF Holds
    <3>2. h[i] <= h[n] - 1
      BY <3>1, <2>1, <2>2
    <3> QED BY <3>1, <3>2, <1>1, <2>3
  <2> QED BY <1>3, <2>1, <2>4, <2>5 DEF Holds, Climb, less
<1> QED BY <1>2, <1>3

(* and the other segments change nothing. *)
LEMMA DotHeld ==
  ASSUME NEW T, NEW left \in Seq(T), NEW D, NEW names, NEW h, NEW n \in Nat,
         \A j \in 0..n + 1 : h[j] \in Int,
         Holds(left, D, names, h, n),
         n + 1 \notin names, h[n + 1] = h[n]
  PROVE  Holds(left, D, names, h, n + 1)
<1>1. LastingAt(names, h, n + 1) = LastingAt(names, h, n)
  <2>1. \A i \in LastingAt(names, h, n) : h[n] >= h[i]
    BY DEF LastingAt
  <2> QED BY <2>1 DEF LastingAt
<1> QED BY <1>1 DEF Holds

-----------------------------------------------------------------------------
(* The path as a whole *)

(* One more number is one more in the count if it is counted. *)
LEMMA CountedOneMore ==
  ASSUME NEW K, NEW n \in Nat
  PROVE  /\ Cardinality({i \in 1..n : i \in K}) \in Nat
         /\ Cardinality({i \in 1..n + 1 : i \in K}) =
              IF n + 1 \in K THEN Cardinality({i \in 1..n : i \in K}) + 1
                             ELSE Cardinality({i \in 1..n : i \in K})
<1> DEFINE Upto == {i \in 1..n : i \in K}
<1>1. IsFiniteSet(1..n)
  BY FS_Interval
<1>2. Upto \in SUBSET (1..n)
  OBVIOUS
<1>3. IsFiniteSet(Upto) /\ Cardinality(Upto) \in Nat
  BY <1>1, <1>2, FS_Subset, FS_CardinalityType
<1>4. n + 1 \notin Upto
  OBVIOUS
<1>5. {i \in 1..n + 1 : i \in K} = IF n + 1 \in K THEN Upto \cup {n + 1} ELSE Upto
  OBVIOUS
<1> HIDE DEF Upto
<1>6. Cardinality(Upto \cup {n + 1}) = Cardinality(Upto) + 1
  BY <1>3, <1>4, FS_AddElement
<1> QED BY <1>3, <1>5, <1>6 DEF Upto

(* A name leads down, ".." up, and the other segments nowhere. *)
LEMMA HeightStepwise ==
  ASSUME NEW path
  PROVE  /\ \A n \in Nat : Height(path, n) \in Int
         /\ Height(path, 0) = 0
         /\ \A n \in Nat :
              Height(path, n + 1) = IF IsName(path[n + 1]) THEN Height(path, n) + 1
                                    ELSE IF IsUp(path[n + 1]) THEN Height(path, n) - 1
                                    ELSE Height(path, n)
<1> DEFINE N == {i \in Nat : IsName(path[i])}
           U == {i \in Nat : IsUp(path[i])}
           c(K, n) == Cardinality({i \in 1..n : i \in K})
<1>1. \A n \in Nat : Height(path, n) = c(N, n) - c(U, n)
  <2> TAKE n \in Nat
  <2>1. /\ {i \in 1..n : IsName(path[i])} = {i \in 1..n : i \in N}
        /\ {i \in 1..n : IsUp(path[i])} = {i \in 1..n : i \in U}
    OBVIOUS
  <2> HIDE DEF N, U
  <2> QED BY <2>1 DEF Height
<1>2. \A n \in Nat : n \in N <=> IsName(path[n])
  OBVIOUS
<1>3. \A n \in Nat : n \in U <=> IsUp(path[n])
  OBVIOUS
<1>4. \A n \in Nat : ~(n \in N /\ n \in U)
  BY <1>2, <1>3 DEF IsName
<1> HIDE DEF N, U
<1>5. \A K : \A n \in Nat :
        /\ c(K, n) \in Nat
        /\ c(K, n + 1) = IF n + 1 \in K THEN c(K, n) + 1 ELSE c(K, n)
  BY CountedOneMore
<1>6. \A K : c(K, 0) = 0
  <2> TAKE K
  <2>1. {i \in 1..0 : i \in K} = {}
    OBVIOUS
  <2> QED BY <2>1, FS_EmptySet
<1> HIDE DEF c
<1>7. \A n \in Nat : n + 1 \in Nat
  OBVIOUS
<1> QED BY <1>1, <1>2, <1>3, <1>4, <1>5, <1>6, <1>7

(* What decoding makes of a path. *)
LEMMA DecodedPathForm ==
  ASSUME NEW path \in Seq(Seq(STRING))
  PROVE  /\ Len(path) \in Nat /\ Len(DecodedPath(path)) = Len(path)
         /\ \A i \in 1..Len(path) : /\ path[i] \in Seq(STRING)
                                    /\ DecodedPath(path)[i] = DecodedSegment(path[i])
<1>1. DOMAIN path = 1..Len(path) /\ Len(path) \in Nat
  OBVIOUS
<1>2. DecodedPath(path) = [i \in 1..Len(path) |-> DecodedSegment(path[i])]
  BY <1>1 DEF DecodedPath, DecodedSegment
<1>3. Len(DecodedPath(path)) = Len(path)
  BY <1>1, <1>2
<1> QED BY <1>1, <1>2, <1>3

(* What a decoded segment does to what is left before it. *)
LEMMA DescendByKind ==
  ASSUME NEW segment \in Seq(STRING), NEW left
  PROVE  Descend(left, DecodedSegment(segment)) =
           IF IsName(segment) THEN Append(left, DecodedSegment(segment))
           ELSE IF IsUp(segment) THEN Climb(left)
           ELSE left
<1>1. TwoDots \notin Dots
  BY DEF TwoDots, Dots
<1> QED BY <1>1, SegmentKinds DEF Descend, Dots, TwoDots

(* The canonical path has the lasting names of the path, each as far from  *)
(* its end as names follow it.                                             *)
LEMMA CanonicalPathHolds ==
  ASSUME NEW path \in Seq(Seq(STRING))
  PROVE  \E T : /\ CanonicalPath(path) \in Seq(T)
                /\ Holds(CanonicalPath(path), DecodedPath(path),
                         {i \in 1..Len(path) : IsName(path[i])},
                         [n \in 0..Len(path) |-> Height(path, n)], Len(path))
<1> DEFINE m == Len(path)
           D == DecodedPath(path)
           T == {D[i] : i \in 1..m}
           names == {i \in 1..m : IsName(path[i])}
           h == [n \in 0..m |-> Height(path, n)]
<1>1. m \in Nat /\ Len(D) = m /\ \A i \in 1..m : path[i] \in Seq(STRING) /\ D[i] = DecodedSegment(path[i])
  BY DecodedPathForm
<1>2. PICK A : /\ A[0] = <<>>
               /\ \A n \in Nat : A[n + 1] = Descend(A[n], D[n + 1])
               /\ Normalised(D) = A[Len(D)]
  BY NormalisedStepwise
<1> DEFINE S == {n \in Nat : n <= m => A[n] \in Seq(T) /\ Holds(A[n], D, names, h, n)}
<1>3. 0 \in S
  <2>1. LastingAt(names, h, 0) = {}
    BY DEF LastingAt
  <2>2. A[0] \in Seq(T) /\ 1..Len(A[0]) = {}
    BY <1>2
  <2> HIDE DEF names, h, T, D, m
  <2> QED BY <2>1, <2>2 DEF Holds
<1>4. ASSUME NEW n \in Nat, n \in S PROVE n + 1 \in S
  <2> SUFFICES ASSUME n + 1 <= m
               PROVE  A[n + 1] \in Seq(T) /\ Holds(A[n + 1], D, names, h, n + 1)
    OBVIOUS
  <2>1. n <= m /\ n + 1 \in 1..m
    BY <1>1
  <2>2. A[n] \in Seq(T) /\ Holds(A[n], D, names, h, n)
    BY <1>4, <2>1
  <2>3. /\ D[n + 1] \in T /\ path[n + 1] \in Seq(STRING) /\ D[n + 1] = DecodedSegment(path[n + 1])
        /\ n + 1 \in names <=> IsName(path[n + 1])
    BY <1>1, <2>1
  <2>4. \A j \in 0..n + 1 : h[j] \in Int
    BY <1>1, <2>1, HeightStepwise
  <2>5. h[n + 1] = IF IsName(path[n + 1]) THEN h[n] + 1
                   ELSE IF IsUp(path[n + 1]) THEN h[n] - 1
                   ELSE h[n]
    <3>1. h[n + 1] = Height(path, n + 1) /\ h[n] = Height(path, n)
      BY <1>1, <2>1
    <3> QED BY <3>1, HeightStepwise
  <2>6. A[n + 1] = Descend(A[n], DecodedSegment(path[n + 1]))
    BY <1>2, <2>3
  <2> HIDE DEF h, names, D, T, m, S
  <2>7. CASE IsName(path[n + 1])
    <3>1. A[n + 1] = Append(A[n], D[n + 1])
      BY <2>3, <2>6, <2>7, DescendByKind
    <3> QED BY <2>2, <2>3, <2>4, <2>5, <2>7, <3>1, NameHeld
  <2>8. CASE ~IsName(path[n + 1]) /\ IsUp(path[n + 1])
    <3>1. A[n + 1] = Climb(A[n])
      BY <2>3, <2>6, <2>8, DescendByKind
    <3> QED BY <2>2, <2>3, <2>4, <2>5, <2>8, <3>1, UpHeld
  <2>9. CASE ~IsName(path[n + 1]) /\ ~IsUp(path[n + 1])
    <3>1. A[n + 1] = A[n]
      BY <2>3, <2>6, <2>9, DescendByKind
    <3> QED BY <2>2, <2>3, <2>4, <2>5, <2>9, <3>1, DotHeld
  <2> QED BY <2>7, <2>8, <2>9
<1> HIDE DEF S
<1>5. m \in S
  BY <1>1, <1>3, <1>4, Walking!SetInduction
<1>6. A[m] \in Seq(T) /\ Holds(A[m], D, names, h, m)
  BY <1>1, <1>5 DEF S
<1>7. CanonicalPath(path) = A[m]
  BY <1>1, <1>2 DEF CanonicalPath
<1> HIDE DEF T
<1>8. CanonicalPath(path) \in Seq(T) /\ Holds(CanonicalPath(path), D, names, h, m)
  BY <1>6, <1>7, Zenon
<1> QED BY <1>8

-----------------------------------------------------------------------------
(* Two paths *)

(* What is in a path, from its end: how far from there its lasting names   *)
(* are, and which name is where.                                           *)
LEMMA CanonicalFromTheEnd ==
  ASSUME NEW path \in Seq(Seq(STRING))
  PROVE  /\ Len(CanonicalPath(path)) \in Nat
         /\ DOMAIN CanonicalPath(path) = 1..Len(CanonicalPath(path))
         /\ CanonicalPath(path) = [k \in 1..Len(CanonicalPath(path)) |-> CanonicalPath(path)[k]]
         /\ \A i \in Lasting(path) :
              /\ Following(path, i) \in 0..Len(CanonicalPath(path)) - 1
              /\ CanonicalPath(path)[Len(CanonicalPath(path)) - Following(path, i)]
                   = DecodedSegment(path[i])
              /\ path[i] \in Seq(STRING)
         /\ \A k \in 1..Len(CanonicalPath(path)) :
              \E i \in Lasting(path) : Len(CanonicalPath(path)) - Following(path, i) = k
<1> DEFINE m == Len(path)
           names == {i \in 1..m : IsName(path[i])}
           h == [n \in 0..m |-> Height(path, n)]
<1>1. PICK T : /\ CanonicalPath(path) \in Seq(T)
               /\ Holds(CanonicalPath(path), DecodedPath(path), names, h, m)
  BY CanonicalPathHolds
<1>2. m \in Nat /\ \A i \in 1..m : path[i] \in Seq(STRING) /\ DecodedPath(path)[i] = DecodedSegment(path[i])
  BY DecodedPathForm
<1>3. \A n \in 0..m : h[n] = Height(path, n) /\ Height(path, n) \in Int
  BY <1>2, HeightStepwise
<1>4. \A i \in 1..m : h[m] - h[i] = Following(path, i) /\ Following(path, i) \in Int
  <2> TAKE i \in 1..m
  <2>1. i \in 0..m /\ m \in 0..m
    BY <1>2
  <2>2. h[m] = Height(path, m) /\ h[i] = Height(path, i) /\ Height(path, m) \in Int /\ Height(path, i) \in Int
    BY <1>3, <2>1
  <2> HIDE DEF h
  <2> QED BY <2>2 DEF Following
<1>5. LastingAt(names, h, m) = Lasting(path)
  <2>1. \A i \in 1..m : \A j \in i..m : h[j] >= h[i] <=> Height(path, j) >= Height(path, i)
    BY <1>2, <1>3
  <2> HIDE DEF h
  <2> QED BY <2>1 DEF LastingAt, Lasting
<1>6. Lasting(path) \subseteq 1..m
  BY DEF Lasting
<1> HIDE DEF m, names, h
<1> DEFINE c == CanonicalPath(path)
<1>7. Len(c) \in Nat /\ DOMAIN c = 1..Len(c) /\ c = [k \in 1..Len(c) |-> c[k]]
  BY <1>1
<1> HIDE DEF c
<1>8. \A i \in Lasting(path) :
        /\ Following(path, i) \in 0..Len(c) - 1
        /\ c[Len(c) - Following(path, i)] = DecodedSegment(path[i])
        /\ path[i] \in Seq(STRING)
  <2> TAKE i \in Lasting(path)
  <2>1. Len(c) - Following(path, i) \in 1..Len(c) /\ c[Len(c) - Following(path, i)] = DecodedPath(path)[i]
    BY <1>1, <1>4, <1>5, <1>6 DEF Holds, c
  <2> QED BY <2>1, <1>2, <1>4, <1>6, <1>7
<1>9. \A k \in 1..Len(c) : \E i \in Lasting(path) : Len(c) - Following(path, i) = k
  BY <1>1, <1>4, <1>5, <1>6 DEF Holds, c
<1> QED BY <1>7, <1>8, <1>9 DEF c

(* Paths get one form exactly if they lead to one resource. *)
THEOREM OneFormOneResource ==
  ASSUME NEW p \in Seq(Seq(STRING)), NEW q \in Seq(Seq(STRING))
  PROVE  CanonicalPath(p) = CanonicalPath(q) <=> SameResource(p, q)
<1> DEFINE c == CanonicalPath(p)
           d == CanonicalPath(q)
           F == {Following(p, i) : i \in Lasting(p)}
           G == {Following(q, j) : j \in Lasting(q)}
<1>1. /\ Len(c) \in Nat /\ c = [k \in 1..Len(c) |-> c[k]]
      /\ \A i \in Lasting(p) : /\ Following(p, i) \in 0..Len(c) - 1
                               /\ c[Len(c) - Following(p, i)] = DecodedSegment(p[i])
                               /\ p[i] \in Seq(STRING)
      /\ \A k \in 1..Len(c) : \E i \in Lasting(p) : Len(c) - Following(p, i) = k
  BY CanonicalFromTheEnd
<1>2. /\ Len(d) \in Nat /\ d = [k \in 1..Len(d) |-> d[k]]
      /\ \A j \in Lasting(q) : /\ Following(q, j) \in 0..Len(d) - 1
                               /\ d[Len(d) - Following(q, j)] = DecodedSegment(q[j])
                               /\ q[j] \in Seq(STRING)
      /\ \A k \in 1..Len(d) : \E j \in Lasting(q) : Len(d) - Following(q, j) = k
  BY CanonicalFromTheEnd
<1> HIDE DEF c, d
<1>3. F = 0..Len(c) - 1
  <2>1. ASSUME NEW f \in 0..Len(c) - 1 PROVE f \in F
    <3>0. Len(c) - f \in 1..Len(c)
      BY <1>1
    <3>1. PICK i \in Lasting(p) : Len(c) - Following(p, i) = Len(c) - f
      BY <1>1, <3>0
    <3>2. Following(p, i) = f
      BY <3>1, <1>1
    <3> QED BY <3>2
  <2> QED BY <1>1, <2>1
<1>4. G = 0..Len(d) - 1
  <2>1. ASSUME NEW f \in 0..Len(d) - 1 PROVE f \in G
    <3>0. Len(d) - f \in 1..Len(d)
      BY <1>2
    <3>1. PICK j \in Lasting(q) : Len(d) - Following(q, j) = Len(d) - f
      BY <1>2, <3>0
    <3>2. Following(q, j) = f
      BY <3>1, <1>2
    <3> QED BY <3>2
  <2> QED BY <1>2, <2>1
<1>5. ASSUME c = d PROVE SameResource(p, q)
  <2>1. F = G
    BY <1>3, <1>4, <1>5
  <2>2. \A i \in Lasting(p), j \in Lasting(q) :
          Following(p, i) = Following(q, j) => SameSegment(p[i], q[j])
    <3> TAKE i \in Lasting(p), j \in Lasting(q)
    <3> HAVE Following(p, i) = Following(q, j)
    <3>1. DecodedSegment(p[i]) = DecodedSegment(q[j])
      BY <1>1, <1>2, <1>5
    <3> QED BY <3>1, <1>1, <1>2, SegmentsEqual
  <2> QED BY <2>1, <2>2 DEF SameResource
<1>6. ASSUME SameResource(p, q) PROVE c = d
  <2>1. F = G
    BY <1>6 DEF SameResource
  <2> HIDE DEF F, G
  <2>2. Len(c) = Len(d)
    BY <1>1, <1>2, <1>3, <1>4, <2>1, SameLengthFromZero
  <2>3. \A k \in 1..Len(c) : c[k] = d[k]
    <3> TAKE k \in 1..Len(c)
    <3>1. PICK i \in Lasting(p) : Len(c) - Following(p, i) = k
      BY <1>1
    <3>2. PICK j \in Lasting(q) : Len(d) - Following(q, j) = k
      BY <1>2, <2>2
    <3>3. Following(p, i) = Following(q, j)
      <4>1. Following(p, i) \in Int /\ Following(q, j) \in Int /\ Len(c) \in Int
        BY <1>1, <1>2
      <4>2. Len(c) - Following(p, i) = Len(c) - Following(q, j)
        BY <3>1, <3>2, <2>2
      <4> QED BY <4>1, <4>2
    <3>4. SameSegment(p[i], q[j])
      BY <3>3, <1>6 DEF SameResource
    <3>5. DecodedSegment(p[i]) = DecodedSegment(q[j])
      BY <3>4, <1>1, <1>2, SegmentsEqual
    <3> QED BY <3>1, <3>2, <3>5, <1>1, <1>2
  <2> QED BY <1>1, <1>2, <2>2, <2>3
<1> QED BY <1>5, <1>6 DEF c, d

(* and base URLs one form exactly if they mean one endpoint. *)
THEOREM OneFormOneEndpoint ==
  ASSUME NEW u \in UrlShape, NEW v \in UrlShape, None \notin Nat
  PROVE  Canonical(u) = Canonical(v) <=> SameEndpoint(u, v)
<1>1. /\ u.path \in Seq(Seq(STRING)) /\ v.path \in Seq(Seq(STRING))
      /\ u.port \in Nat \cup {None} /\ v.port \in Nat \cup {None}
  BY DEF UrlShape
<1>2. CanonicalPath(u.path) = CanonicalPath(v.path) <=> SameResource(u.path, v.path)
  BY <1>1, OneFormOneResource
<1> DEFINE port(w) == IF w.port = DefaultPort(w.scheme) THEN None ELSE w.port
<1>3. u.scheme = v.scheme => (port(u) = port(v) <=> Port(u) = Port(v))
  BY <1>1 DEF Port, Unless, DefaultPort
<1>4. Canonical(u) = Canonical(v) <=>
        /\ u.scheme = v.scheme /\ u.host.name = v.host.name
        /\ port(u) = port(v) /\ CanonicalPath(u.path) = CanonicalPath(v.path)
  <2> HIDE DEF port
  <2>1. \A w : Canonical(w) = [scheme |-> w.scheme,
                               host   |-> [name |-> w.host.name, upper |-> FALSE, dots |-> 0],
                               port   |-> port(w), path |-> CanonicalPath(w.path)]
    BY DEF Canonical, port
  <2>2. \A w : /\ Canonical(w).scheme = w.scheme /\ Canonical(w).host.name = w.host.name
               /\ Canonical(w).port = port(w) /\ Canonical(w).path = CanonicalPath(w.path)
    BY <2>1
  <2>3. ASSUME Canonical(u) = Canonical(v)
        PROVE  /\ u.scheme = v.scheme /\ u.host.name = v.host.name
               /\ port(u) = port(v) /\ CanonicalPath(u.path) = CanonicalPath(v.path)
    BY <2>2, <2>3, Zenon
  <2>4. ASSUME u.scheme = v.scheme, u.host.name = v.host.name, port(u) = port(v),
               CanonicalPath(u.path) = CanonicalPath(v.path)
        PROVE  Canonical(u) = Canonical(v)
    BY <2>1, <2>4, Zenon
  <2> QED BY <2>3, <2>4
<1> HIDE DEF port
<1> QED BY <1>2, <1>3, <1>4 DEF SameEndpoint
=============================================================================
