----------------------------- MODULE Recursion -----------------------------
(***************************************************************************)
(* Recursion and induction over values that are nested finitely, for the   *)
(* proofs of other modules to instantiate: a function that is defined      *)
(* recursively is there, when its result for a value depends on those for  *)
(* the values below it only.                                               *)
(***************************************************************************)
EXTENDS Integers, WellFoundedInduction, TLAPS

CONSTANTS
  Nodes,          \* the values
  Depth,          \* how deep each is nested
  Below(_),       \* the values one is made of
  Level(_, _, _)  \* the result for a value, by those for the values it is
                  \* made of and a parameter

(* What a value is made of is nested less deep. *)
Grounded ==
  /\ Depth \in [Nodes -> Nat]
  /\ \A x \in Nodes : Below(x) \subseteq Nodes /\ \A y \in Below(x) : Depth[y] < Depth[x]

(* A result depends on those for the values below only. *)
Local(s) ==
  \A x \in Nodes : \A g, h :
    (\A y \in Below(x) : g[y] = h[y]) => Level(x, g, s) = Level(x, h, s)

(* Every set of numbers has a least one. *)
LEMMA LeastNumber ==
  ASSUME NEW T \in SUBSET Nat, T # {}
  PROVE  \E n \in T : \A m \in T : n <= m
<1> DEFINE R == OpToRel(<, Nat)
<1>1. IsWellFoundedOn(R, Nat)
  BY NatLessThanWellFounded
<1>2. \A m, n \in Nat : <<m, n>> \in R <=> m < n
  BY DEF OpToRel
<1> HIDE DEF R
<1>3. PICK n \in T : \A m \in T : ~(<<m, n>> \in R)
  BY <1>1, WFMin
<1>4. \A m \in T : m \in Nat /\ n \in Nat /\ ~(m < n)
  BY <1>2, <1>3
<1> QED BY <1>4

(* Induction over a set of numbers. *)
LEMMA SetInduction ==
  ASSUME NEW S, 0 \in S, \A n \in Nat : n \in S => n + 1 \in S
  PROVE  Nat \subseteq S
<1> DEFINE T == Nat \ S
<1>1. CASE T = {}
  BY <1>1
<1>2. CASE T # {}
  <2>1. PICK n \in T : \A m \in T : n <= m
    BY <1>2, LeastNumber
  <2>2. n # 0 /\ n - 1 \in Nat /\ n - 1 \in S
    BY <2>1
  <2>3. n \in S
    BY <2>2, <2>1
  <2> QED BY <2>1, <2>3
<1> QED BY <1>1, <1>2

(* Induction over the values: a set that has each value whose parts it has *)
(* has them all.                                                           *)
THEOREM NodeInduction ==
  ASSUME Grounded, NEW S, \A x \in Nodes : Below(x) \subseteq S => x \in S
  PROVE  Nodes \subseteq S
<1> DEFINE T == {d \in Nat : \E x \in Nodes : x \notin S /\ Depth[x] = d}
<1>1. CASE T = {}
  BY <1>1 DEF Grounded
<1>2. CASE T # {}
  <2>1. PICK d \in T : \A e \in T : d <= e
    BY <1>2, LeastNumber
  <2>2. PICK x \in Nodes : x \notin S /\ Depth[x] = d
    BY <2>1
  <2>3. PICK y \in Below(x) : y \notin S
    BY <2>2
  <2>4. y \in Nodes /\ Depth[y] \in Nat /\ Depth[y] < d
    BY <2>2 DEF Grounded
  <2> QED BY <2>1, <2>3, <2>4
<1> QED BY <1>1, <1>2

-----------------------------------------------------------------------------
(* The values that are nested less than M deep, and what is right of them. *)
Shallow(M) == {x \in Nodes : Depth[x] < M}

Good(g, M, s) == g = [x \in Shallow(M) |-> Level(x, g, s)]

(* There is at most one such function for each depth, *)
LEMMA Unique ==
  ASSUME Grounded, NEW s, Local(s), NEW M \in Nat, NEW N \in Nat, NEW g, NEW h,
         Good(g, M, s), Good(h, N, s), NEW x \in Shallow(M) \cap Shallow(N)
  PROVE  g[x] = h[x]
<1> DEFINE B == {d \in Nat : \E z \in Shallow(M) \cap Shallow(N) : Depth[z] = d /\ g[z] # h[z]}
<1>1. CASE B = {}
  BY <1>1 DEF Shallow, Grounded
<1>2. CASE B # {}
  <2>1. PICK d \in B : \A e \in B : d <= e
    BY <1>2, LeastNumber
  <2>2. PICK z \in Shallow(M) \cap Shallow(N) : Depth[z] = d /\ g[z] # h[z]
    BY <2>1
  <2>3. \A y \in Below(z) : y \in Shallow(M) \cap Shallow(N) /\ Depth[y] \in Nat /\ Depth[y] < d
    BY <2>2 DEF Shallow, Grounded
  <2>4. \A y \in Below(z) : g[y] = h[y]
    BY <2>1, <2>3
  <2>5. Level(z, g, s) = Level(z, h, s)
    BY <2>4, <2>2 DEF Local, Shallow
  <2>6. g[z] = Level(z, g, s) /\ h[z] = Level(z, h, s)
    BY <2>2 DEF Good
  <2> QED BY <2>2, <2>5, <2>6
<1> QED BY <1>1, <1>2

(* and there is one. *)
LEMMA Exists ==
  ASSUME Grounded, NEW s, Local(s)
  PROVE  \A M \in Nat : \E g : Good(g, M, s)
<1> DEFINE S == {M \in Nat : \E g : Good(g, M, s)}
<1>1. 0 \in S
  <2>1. Shallow(0) = {}
    BY DEF Shallow, Grounded
  <2>2. Good([x \in {} |-> x], 0, s)
    BY <2>1 DEF Good
  <2> QED BY <2>2
<1>2. ASSUME NEW M \in Nat, M \in S PROVE M + 1 \in S
  <2>1. PICK g : Good(g, M, s)
    BY <1>2
  <2> DEFINE f == [x \in Shallow(M + 1) |-> Level(x, g, s)]
  <2>2. \A x \in Shallow(M + 1) : Level(x, g, s) = Level(x, f, s)
    <3> SUFFICES ASSUME NEW x \in Shallow(M + 1) PROVE Level(x, g, s) = Level(x, f, s)
      OBVIOUS
    <3>1. \A y \in Below(x) : y \in Shallow(M) /\ y \in Shallow(M + 1)
      BY DEF Shallow, Grounded
    <3>2. \A y \in Below(x) : g[y] = f[y]
      BY <2>1, <3>1 DEF Good
    <3>3. x \in Nodes
      BY DEF Shallow
    <3> HIDE DEF f
    <3> QED BY <3>2, <3>3 DEF Local
  <2>3. Good(f, M + 1, s)
    BY <2>2 DEF Good
  <2> QED BY <2>3
<1> HIDE DEF S
<1>3. Nat \subseteq S
  BY <1>1, <1>2, SetInduction
<1> QED BY <1>3 DEF S

(* The function that is defined recursively is there, for all values. *)
THEOREM RecursiveFunction ==
  ASSUME Grounded, NEW s, Local(s)
  PROVE  LET f[x \in Nodes] == Level(x, f, s)
         IN  f = [x \in Nodes |-> Level(x, f, s)]
<1> DEFINE G(M) == CHOOSE g : Good(g, M, s)
           w == [x \in Nodes |-> G(Depth[x] + 1)[x]]
<1>1. \A M \in Nat : Good(G(M), M, s)
  BY Exists
<1>2. \A x \in Nodes : w[x] = Level(x, w, s)
  <2> SUFFICES ASSUME NEW x \in Nodes PROVE w[x] = Level(x, w, s)
    OBVIOUS
  <2>1. Depth[x] + 1 \in Nat /\ x \in Shallow(Depth[x] + 1)
    BY DEF Grounded, Shallow
  <2>2. w[x] = Level(x, G(Depth[x] + 1), s)
    BY <1>1, <2>1 DEF Good
  <2>3. \A y \in Below(x) : G(Depth[x] + 1)[y] = w[y]
    <3> SUFFICES ASSUME NEW y \in Below(x) PROVE G(Depth[x] + 1)[y] = G(Depth[y] + 1)[y]
      BY DEF Grounded
    <3>1. y \in Nodes /\ Depth[y] + 1 \in Nat /\ y \in Shallow(Depth[x] + 1) \cap Shallow(Depth[y] + 1)
      BY DEF Grounded, Shallow
    <3> HIDE DEF G
    <3> QED BY <1>1, <2>1, <3>1, Unique
  <2> HIDE DEF w, G
  <2> QED BY <2>2, <2>3 DEF Local
<1>3. w = [x \in Nodes |-> Level(x, w, s)]
  <2>1. w = [x \in Nodes |-> w[x]]
    OBVIOUS
  <2> HIDE DEF w
  <2> QED BY <1>2, <2>1
<1> HIDE DEF w
<1>4. \E f : f = [x \in Nodes |-> Level(x, f, s)]
  BY <1>3
<1> QED BY <1>4
=============================================================================
