--------------------------- MODULE ParticlesProofs --------------------------
(***************************************************************************)
(* The particles of a rank during a step, for any deck and any order of    *)
(* the pipelines.  First what the operations of Particles do to the list   *)
(* of a species: a pass of a sort, a kernel's meeting of the particles,    *)
(* the advance of a rank's share, the compaction of movers, the removal of *)
(* particles, the shuffles of the collision operators, the dump.  Of each, *)
(* that it keeps a list a list (List), with the same particles or those    *)
(* said (Ids), and where it leaves them.  Then the invariant of all lists, *)
(* partitions and movers (IInv), what every step does to it, and the       *)
(* properties that follow.                                                 *)
(***************************************************************************)
EXTENDS Particles, GridProofs, FiniteSetTheorems

-----------------------------------------------------------------------------
(* Counting, and the places it gives.                                      *)

(* A set of the first n numbers is finite.                                 *)
LEMMA Few ==
  ASSUME NEW n \in Nat, NEW S, S \subseteq 0 .. n - 1
  PROVE  IsFiniteSet(S) /\ Cardinality(S) \in Nat /\ Cardinality(S) <= n
<1>1. IsFiniteSet(0 .. n - 1) /\ Cardinality(0 .. n - 1) = n
  BY FS_Interval
<1>2. S \in SUBSET (0 .. n - 1)
  OBVIOUS
<1>3. IsFiniteSet(S) /\ Cardinality(S) <= Cardinality(0 .. n - 1)
  BY <1>1, <1>2, FS_Subset
<1> QED BY <1>1, <1>3, FS_CardinalityType

(* The sizes of two parts add up.                                          *)
LEMMA TwoParts ==
  ASSUME NEW n \in Nat, NEW S, NEW A, NEW B, S \subseteq 0 .. n - 1,
         S = A \cup B, A \cap B = {}
  PROVE  Cardinality(S) = Cardinality(A) + Cardinality(B)
<1>1. A \subseteq 0 .. n - 1 /\ B \subseteq 0 .. n - 1
  OBVIOUS
<1>2. IsFiniteSet(A) /\ IsFiniteSet(B) /\ Cardinality(A) \in Nat /\ Cardinality(B) \in Nat
  BY <1>1, Few
<1>3. Cardinality(A \cup B) = Cardinality(A) + Cardinality(B) - Cardinality(A \cap B)
  BY <1>2, FS_Union
<1>4. Cardinality(A \cap B) = 0
  BY FS_EmptySet
<1> QED BY <1>2, <1>3, <1>4

(* A part is smaller when something is left out of it.                     *)
LEMMA ProperPart ==
  ASSUME NEW n \in Nat, NEW S, NEW T, S \subseteq 0 .. n - 1, T \subseteq S,
         NEW x \in S, x \notin T
  PROVE  Cardinality(T) + 1 <= Cardinality(S)
<1>1. IsFiniteSet(S) /\ Cardinality(S) \in Nat
  BY Few
<1>2. IsFiniteSet(T) /\ Cardinality(T) \in Nat
  <2>1. T \subseteq 0 .. n - 1
    OBVIOUS
  <2> QED BY <2>1, Few
<1>3. Cardinality(T) <= Cardinality(S) /\ (Cardinality(S) = Cardinality(T) => S = T)
  <2>1. T \in SUBSET S
    OBVIOUS
  <2> QED BY <1>1, <2>1, FS_Subset
<1> QED BY <1>1, <1>2, <1>3

(* No part is larger than the whole.                                       *)
LEMMA Part ==
  ASSUME NEW n \in Nat, NEW S, NEW T, S \subseteq 0 .. n - 1, T \subseteq S
  PROVE  Cardinality(T) <= Cardinality(S)
<1>1. IsFiniteSet(S)
  BY Few
<1>2. T \in SUBSET S
  OBVIOUS
<1> QED BY <1>1, <1>2, FS_Subset

(* Of a list of keys: those before the i-th, in the order of keys and then *)
(* of places; how many they are; how many have a key below v.              *)
Earlier(key, i) == {h \in DOMAIN key : key[h] < key[i] \/ (key[h] = key[i] /\ h < i)}
Place(key, i) == Cardinality(Earlier(key, i))
Less(key, v) == Cardinality({h \in DOMAIN key : key[h] < v})
Alike(key, i) == Cardinality({h \in DOMAIN key : h < i /\ key[h] = key[i]})

Keys(n) == [0 .. n - 1 -> Int]

(* A later one has a later place.                                          *)
LEMMA PlaceOrder ==
  ASSUME NEW n \in Nat, NEW key \in Keys(n), NEW i \in 0 .. n - 1, NEW j \in 0 .. n - 1,
         key[i] < key[j] \/ (key[i] = key[j] /\ i < j)
  PROVE  Place(key, i) + 1 <= Place(key, j)
<1>1. DOMAIN key = 0 .. n - 1 /\ \A h \in 0 .. n - 1 : key[h] \in Int
  BY DEF Keys
<1>2. Earlier(key, j) \subseteq 0 .. n - 1
  BY <1>1 DEF Earlier
<1>3. i \in Earlier(key, j) /\ i \notin Earlier(key, i)
  BY <1>1 DEF Earlier
<1>4. Earlier(key, i) \subseteq Earlier(key, j)
  BY <1>1 DEF Earlier
<1> QED BY <1>2, <1>3, <1>4, ProperPart DEF Place

(* Places are those of the list, each taken once.                          *)
LEMMA PlaceIs ==
  ASSUME NEW n \in Nat, NEW key \in Keys(n)
  PROVE  /\ \A i \in 0 .. n - 1 : Place(key, i) \in 0 .. n - 1
         /\ \A i, j \in 0 .. n - 1 : Place(key, i) = Place(key, j) => i = j
         /\ \A k \in 0 .. n - 1 : \E i \in 0 .. n - 1 : Place(key, i) = k
<1>1. DOMAIN key = 0 .. n - 1 /\ \A h \in 0 .. n - 1 : key[h] \in Int
  BY DEF Keys
<1>2. ASSUME NEW i \in 0 .. n - 1
      PROVE  Place(key, i) \in 0 .. n - 1
  <2>1. Earlier(key, i) \subseteq 0 .. n - 1 /\ i \notin Earlier(key, i)
    BY <1>1 DEF Earlier
  <2>2. Cardinality(Earlier(key, i)) \in Nat
    BY <2>1, Few
  <2>3. Cardinality(Earlier(key, i)) + 1 <= Cardinality(0 .. n - 1)
    <3> DEFINE D == 0 .. n - 1
    <3>1. D \subseteq 0 .. n - 1 /\ i \in D /\ Earlier(key, i) \subseteq D
      BY <2>1
    <3> HIDE DEF D
    <3>2. Cardinality(Earlier(key, i)) + 1 <= Cardinality(D)
      BY <3>1, <2>1, ProperPart
    <3> QED BY <3>2 DEF D
  <2>4. Cardinality(0 .. n - 1) = n
    BY FS_Interval
  <2> QED BY <2>2, <2>3, <2>4 DEF Place
<1>3. ASSUME NEW i \in 0 .. n - 1, NEW j \in 0 .. n - 1, Place(key, i) = Place(key, j), i # j
      PROVE  FALSE
  <2>1. \/ key[i] < key[j] \/ (key[i] = key[j] /\ i < j)
        \/ key[j] < key[i] \/ (key[j] = key[i] /\ j < i)
    BY <1>1, <1>3
  <2>2. Place(key, i) \in Nat
    BY <1>2
  <2>3. CASE key[i] < key[j] \/ (key[i] = key[j] /\ i < j)
    <3>1. Place(key, i) + 1 <= Place(key, j)
      BY <2>3, PlaceOrder
    <3> QED BY <3>1, <2>2, <1>3
  <2>4. CASE key[j] < key[i] \/ (key[j] = key[i] /\ j < i)
    <3>1. Place(key, j) + 1 <= Place(key, i)
      BY <2>4, PlaceOrder
    <3> QED BY <3>1, <2>2, <1>3
  <2> QED BY <2>1, <2>3, <2>4
<1>4. ASSUME NEW k \in 0 .. n - 1
      PROVE  \E i \in 0 .. n - 1 : Place(key, i) = k
  <2> DEFINE D == 0 .. n - 1
             f == [i \in D |-> Place(key, i)]
  <2>1. f \in Injection(D, D)
    <3>1. f \in [D -> D]
      BY <1>2
    <3>2. \A a, b \in D : f[a] = f[b] => a = b
      BY <1>3
    <3> QED BY <3>1, <3>2 DEF Injection, IsInjective
  <2>2. IsFiniteSet(D)
    BY FS_Interval
  <2> HIDE DEF f, D
  <2>3. f \in Surjection(D, D)
    BY <2>1, <2>2, FS_Injection
  <2>4. \A t \in D : \E s \in D : f[s] = t
    BY <2>3 DEF Surjection
  <2> QED BY <2>4 DEF D, f
<1> QED BY <1>2, <1>3, <1>4

(* A place counts the smaller keys and the like ones before it.            *)
LEMMA PlaceSplit ==
  ASSUME NEW n \in Nat, NEW key \in Keys(n), NEW i \in 0 .. n - 1
  PROVE  Place(key, i) = Less(key, key[i]) + Alike(key, i)
<1>1. DOMAIN key = 0 .. n - 1 /\ \A h \in 0 .. n - 1 : key[h] \in Int
  BY DEF Keys
<1> DEFINE A == {h \in DOMAIN key : key[h] < key[i]}
           B == {h \in DOMAIN key : h < i /\ key[h] = key[i]}
<1>2. Earlier(key, i) \subseteq 0 .. n - 1 /\ Earlier(key, i) = A \cup B /\ A \cap B = {}
  BY <1>1 DEF Earlier
<1> HIDE DEF A, B
<1>3. Cardinality(Earlier(key, i)) = Cardinality(A) + Cardinality(B)
  BY <1>2, TwoParts
<1> QED BY <1>3 DEF Place, Less, Alike, A, B

(* There are ever more smaller keys.                                       *)
LEMMA LessOrder ==
  ASSUME NEW n \in Nat, NEW key \in Keys(n), NEW v \in Int, NEW w \in Int, v <= w
  PROVE  /\ Less(key, v) \in 0 .. n /\ Less(key, w) \in 0 .. n
         /\ Less(key, v) <= Less(key, w)
<1>1. DOMAIN key = 0 .. n - 1 /\ \A h \in 0 .. n - 1 : key[h] \in Int
  BY DEF Keys
<1> DEFINE A == {h \in DOMAIN key : key[h] < v}
           B == {h \in DOMAIN key : key[h] < w}
<1>2. B \subseteq 0 .. n - 1 /\ A \subseteq B /\ A \subseteq 0 .. n - 1
  BY <1>1
<1> HIDE DEF A, B
<1>3. Cardinality(A) <= Cardinality(B)
  BY <1>2, Part
<1>4. Cardinality(A) \in Nat /\ Cardinality(A) <= n
  BY <1>2, Few
<1>5. Cardinality(B) \in Nat /\ Cardinality(B) <= n
  BY <1>2, Few
<1> QED BY <1>3, <1>4, <1>5 DEF Less, A, B

(* The places of the keys v are those the counts bracket.                  *)
LEMMA PlaceBracket ==
  ASSUME NEW n \in Nat, NEW key \in Keys(n), NEW i \in 0 .. n - 1, NEW v \in Int
  PROVE  key[i] = v <=> Place(key, i) \in Less(key, v) .. Less(key, v + 1) - 1
<1>1. DOMAIN key = 0 .. n - 1 /\ \A h \in 0 .. n - 1 : key[h] \in Int
  BY DEF Keys
<1>2. ASSUME NEW w \in Int, key[i] < w
      PROVE  Place(key, i) + 1 <= Less(key, w)
  <2> DEFINE B == {h \in DOMAIN key : key[h] < w}
  <2>1. B \subseteq 0 .. n - 1 /\ Earlier(key, i) \subseteq B /\ i \in B /\ i \notin Earlier(key, i)
    BY <1>1, <1>2 DEF Earlier
  <2> HIDE DEF B
  <2>2. Cardinality(Earlier(key, i)) + 1 <= Cardinality(B)
    BY <2>1, ProperPart
  <2> QED BY <2>2 DEF Place, Less, B
<1>3. ASSUME NEW w \in Int, w <= key[i]
      PROVE  Less(key, w) <= Place(key, i)
  <2> DEFINE B == {h \in DOMAIN key : key[h] < w}
  <2>1. Earlier(key, i) \subseteq 0 .. n - 1 /\ B \subseteq Earlier(key, i)
    BY <1>1, <1>3 DEF Earlier
  <2> HIDE DEF B
  <2>2. Cardinality(B) <= Cardinality(Earlier(key, i))
    BY <2>1, Part
  <2> QED BY <2>2 DEF Place, Less, B
<1>4. Place(key, i) \in Nat /\ Less(key, v) \in Nat /\ Less(key, v + 1) \in Nat
  BY PlaceIs, LessOrder
<1>5. CASE key[i] = v
  BY <1>1, <1>2, <1>3, <1>4, <1>5
<1>6. CASE key[i] < v
  <2>1. Place(key, i) + 1 <= Less(key, v)
    BY <1>2, <1>6
  <2> QED BY <1>1, <1>4, <1>6, <2>1
<1>7. CASE v < key[i]
  <2>1. Less(key, v + 1) <= Place(key, i)
    BY <1>1, <1>3, <1>7
  <2> QED BY <1>1, <1>4, <1>7, <2>1
<1> QED BY <1>1, <1>5, <1>6, <1>7

-----------------------------------------------------------------------------
(* What the helpers return.                                                *)

BelowOp(S, y, z, a, k) == IF k - 1 \in S THEN Append(a, k - 1) ELSE a
Listing == INSTANCE Loops WITH Op <- BelowOp

(* A list in order, of what is in S.                                       *)
Ordered(b) == \A i, j \in 1 .. Len(b) : i < j => b[i] < b[j]
Lists(b, S) == \A e \in Nat : e \in S <=> \E k \in 1 .. Len(b) : b[k] = e

(* Below lists the numbers of a set below n, in order.                     *)
LEMMA BelowIs ==
  ASSUME NEW n \in Nat, NEW S
  PROVE  LET b == Below(n, S)
         IN b \in Seq(0 .. n - 1) /\ Ordered(b) /\ Lists(b, S \cap (0 .. n - 1))
<1> DEFINE I == [k \in 0 .. n |-> {b \in Seq(0 .. k - 1) : Ordered(b) /\ Lists(b, S \cap (0 .. k - 1))}]
<1>1. Below(n, S) = Listing!Counted(S, 0, 0, <<>>, n)
  BY Zenon DEF Below, Listing!Counted, BelowOp
<1>2. <<>> \in I[0]
  <2>1. <<>> \in Seq(0 .. -1) /\ Len(<<>>) = 0 /\ 0 .. 0 - 1 = {} /\ 1 .. 0 = {}
    OBVIOUS
  <2>2. Ordered(<<>>) /\ Lists(<<>>, S \cap (0 .. 0 - 1))
    BY <2>1 DEF Ordered, Lists
  <2> QED BY <2>1, <2>2
<1>3. ASSUME NEW k \in 1 .. n, NEW b \in I[k - 1]
      PROVE  BelowOp(S, 0, 0, b, k) \in I[k]
  <2>1. /\ k \in Nat /\ k - 1 \in 0 .. n /\ k \in 0 .. n /\ k - 1 \in Nat
        /\ b \in Seq(0 .. k - 1 - 1) /\ Ordered(b) /\ Lists(b, S \cap (0 .. k - 1 - 1))
    BY <1>3
  <2> SUFFICES /\ BelowOp(S, 0, 0, b, k) \in Seq(0 .. k - 1) /\ Ordered(BelowOp(S, 0, 0, b, k))
               /\ Lists(BelowOp(S, 0, 0, b, k), S \cap (0 .. k - 1))
    BY <2>1
  <2>2. b \in Seq(0 .. k - 1) /\ Len(b) \in Nat /\ \A i \in 1 .. Len(b) : b[i] \in 0 .. k - 2
    <3>1. Len(b) \in Nat /\ \A i \in 1 .. Len(b) : b[i] \in 0 .. k - 1 - 1
      BY <2>1
    <3>2. \A i \in 1 .. Len(b) : b[i] \in 0 .. k - 2 /\ b[i] \in 0 .. k - 1
      BY <2>1, <3>1
    <3>3. b = [i \in 1 .. Len(b) |-> b[i]]
      BY <2>1
    <3> QED BY <3>1, <3>2, <3>3
  <2>3. CASE k - 1 \notin S
    <3>1. BelowOp(S, 0, 0, b, k) = b
      BY <2>3 DEF BelowOp
    <3>2. S \cap (0 .. k - 1) = S \cap (0 .. k - 1 - 1)
      BY <2>3, <2>1
    <3> QED BY <2>1, <2>2, <3>1, <3>2, Zenon
  <2>4. CASE k - 1 \in S
    <3> DEFINE c == Append(b, k - 1)
    <3>1. BelowOp(S, 0, 0, b, k) = c
      BY <2>4 DEF BelowOp
    <3>2. c \in Seq(0 .. k - 1) /\ Len(c) = Len(b) + 1 /\ c[Len(b) + 1] = k - 1
      BY <2>1, <2>2
    <3>3. \A i \in 1 .. Len(b) : c[i] = b[i]
      BY <2>1, <2>2
    <3> HIDE DEF c
    <3>4. Ordered(c)
      <4> SUFFICES ASSUME NEW i \in 1 .. Len(c), NEW j \in 1 .. Len(c), i < j
                   PROVE  c[i] < c[j]
        BY DEF Ordered
      <4> DEFINE m == Len(b)
                 o == Len(c)
      <4>4. m \in Nat /\ o = m + 1 /\ i \in 1 .. o /\ j \in 1 .. o
        BY <2>2, <3>2
      <4>5. i \in 1 .. m /\ (j \in 1 .. m \/ j = m + 1)
        <5> HIDE DEF m, o
        <5> QED BY <4>4
      <4>1. i \in 1 .. Len(b) /\ c[i] = b[i] /\ b[i] \in 0 .. k - 2
        BY <4>5, <2>2, <3>3
      <4>2. CASE j \in 1 .. Len(b)
        <5>1. b[i] < b[j]
          BY <2>1, <4>1, <4>2 DEF Ordered
        <5> QED BY <5>1, <4>1, <4>2, <3>3
      <4>3. CASE j = Len(b) + 1
        <5>1. c[j] = k - 1
          BY <4>3, <3>2
        <5> QED BY <5>1, <4>1, <2>1
      <4> QED BY <4>2, <4>3, <4>5
    <3>5. Lists(c, S \cap (0 .. k - 1))
      <4> SUFFICES ASSUME NEW e \in Nat
                   PROVE  e \in S \cap (0 .. k - 1) <=> \E x \in 1 .. Len(c) : c[x] = e
        BY DEF Lists
      <4>1. e \in S \cap (0 .. k - 1 - 1) <=> \E x \in 1 .. Len(b) : b[x] = e
        BY <2>1 DEF Lists
      <4>2. e \in S \cap (0 .. k - 1) <=> (e \in S \cap (0 .. k - 1 - 1) \/ e = k - 1)
        BY <2>1, <2>4
      <4>3. (\E x \in 1 .. Len(c) : c[x] = e) <=> ((\E x \in 1 .. Len(b) : b[x] = e) \/ e = k - 1)
        <5>1. 1 .. Len(c) = (1 .. Len(b)) \cup {Len(b) + 1}
          BY <2>2, <3>2
        <5> QED BY <5>1, <3>2, <3>3
      <4> QED BY <4>1, <4>2, <4>3
    <3> QED BY <3>1, <3>2, <3>4, <3>5
  <2> QED BY <2>3, <2>4
<1> HIDE DEF I
<1>4. Listing!Counted(S, 0, 0, <<>>, n) \in I[n]
  BY <1>2, <1>3, Listing!CountedRule
<1>5. Below(n, S) \in I[n]
  BY <1>1, <1>4
<1> QED BY <1>5 DEF I

(* Sizes of disjoint sets sum up to that of their union.                   *)
LEMMA SumIs ==
  ASSUME NEW S, IsFiniteSet(S), NEW g, NEW C,
         \A x \in S : IsFiniteSet(C[x]) /\ g[x] = Cardinality(C[x]),
         \A x, y \in S : x # y => C[x] \cap C[y] = {}
  PROVE  Sum(S, g) = Cardinality(UNION {C[x] : x \in S})
<1> DEFINE U(T) == UNION {C[x] : x \in T}
           it0 == [T \in SUBSET S |-> Cardinality(U(T))]
           R(it) == it = [s \in SUBSET S |->
                      IF s = {} THEN 0
                      ELSE g[CHOOSE x \in s : TRUE] + it[s \ {CHOOSE x \in s : TRUE}]]
           it == CHOOSE i : R(i)
<1>1. \A T \in SUBSET S : IsFiniteSet(T) /\ IsFiniteSet(U(T)) /\ Cardinality(U(T)) \in Nat
  <2> TAKE T \in SUBSET S
  <2>1. IsFiniteSet(T)
    BY FS_Subset
  <2> DEFINE F == {C[x] : x \in T}
  <2>2. IsFiniteSet(F)
    <3> DEFINE f == [x \in T |-> C[x]]
    <3>1. f \in Surjection(T, F)
      BY DEF Surjection
    <3> HIDE DEF f, F
    <3> QED BY <2>1, <3>1, FS_Surjection
  <2>3. \A D \in F : IsFiniteSet(D)
    OBVIOUS
  <2> HIDE DEF F
  <2>4. IsFiniteSet(UNION F)
    BY <2>2, <2>3, FS_UNION
  <2>5. IsFiniteSet(U(T))
    BY <2>4 DEF F
  <2> QED BY <2>1, <2>5, FS_CardinalityType
<1>2. ASSUME NEW T \in SUBSET S, NEW x \in T
      PROVE  Cardinality(U(T)) = g[x] + Cardinality(U(T \ {x}))
  <2> DEFINE A == C[x]
             B == U(T \ {x})
  <2>1. U(T) = A \cup B /\ A \cap B = {}
    <3>1. U(T) = A \cup B
      OBVIOUS
    <3>2. A \cap B = {}
      OBVIOUS
    <3> QED BY <3>1, <3>2
  <2>2. IsFiniteSet(A) /\ g[x] = Cardinality(A)
    OBVIOUS
  <2>3. IsFiniteSet(B) /\ Cardinality(B) \in Nat
    <3>1. T \ {x} \in SUBSET S
      OBVIOUS
    <3> QED BY <3>1, <1>1
  <2> HIDE DEF A, B
  <2>4. Cardinality(A \cup B) = Cardinality(A) + Cardinality(B) - Cardinality(A \cap B)
    BY <2>2, <2>3, FS_Union
  <2>5. Cardinality(A \cap B) = 0 /\ Cardinality(A) \in Nat
    BY <2>1, <2>2, FS_EmptySet, FS_CardinalityType
  <2>6. Cardinality(U(T)) = g[x] + Cardinality(B)
    <3>1. Cardinality(A \cup B) = Cardinality(A) + Cardinality(B)
      BY <2>3, <2>4, <2>5
    <3>2. Cardinality(U(T)) = Cardinality(A \cup B)
      BY <2>1, Zenon
    <3> QED BY <2>2, <3>1, <3>2, Zenon
  <2> QED BY <2>6 DEF B
<1>3. U({}) = {} /\ Cardinality({}) = 0
  BY FS_EmptySet
<1>4. \A T \in SUBSET S : T # {} => (CHOOSE x \in T : TRUE) \in T /\ T \ {CHOOSE x \in T : TRUE} \in SUBSET S
  OBVIOUS
<1> HIDE DEF U
<1>5. R(it0)
  <2> DEFINE h == [s \in SUBSET S |->
                      IF s = {} THEN 0
                      ELSE g[CHOOSE x \in s : TRUE] + it0[s \ {CHOOSE x \in s : TRUE}]]
  <2>1. \A T \in SUBSET S : it0[T] = h[T]
    <3> TAKE T \in SUBSET S
    <3>1. CASE T = {}
      BY <1>3, <3>1
    <3>2. CASE T # {}
      <4> DEFINE x == CHOOSE x \in T : TRUE
      <4>1. x \in T /\ T \ {x} \in SUBSET S
        BY <1>4, <3>2
      <4>2. h[T] = g[x] + it0[T \ {x}]
        BY <3>2, Zenon
      <4> HIDE DEF x
      <4>3. it0[T \ {x}] = Cardinality(U(T \ {x})) /\ it0[T] = Cardinality(U(T))
        BY <4>1
      <4> HIDE DEF h, it0
      <4> QED BY <4>1, <4>2, <4>3, <1>2
    <3> QED BY <3>1, <3>2
  <2>2. it0 = h
    BY <2>1, Zenon
  <2> QED BY <2>2, Zenon
<1>6. R(it)
  BY <1>5, Zenon
<1>7. Sum(S, g) = it[S]
  BY Zenon DEF Sum, MapThenSumSet, MapThenFoldSet
<1> HIDE DEF it
<1>8. \A s \in SUBSET S : it[s] = IF s = {} THEN 0
                           ELSE g[CHOOSE x \in s : TRUE] + it[s \ {CHOOSE x \in s : TRUE}]
  BY <1>6, Zenon
<1> DEFINE K == {k \in Nat : \A T \in SUBSET S : Cardinality(T) = k => it[T] = Cardinality(U(T))}
<1>9. 0 \in K
  <2> SUFFICES ASSUME NEW T \in SUBSET S, Cardinality(T) = 0 PROVE it[T] = Cardinality(U(T))
    OBVIOUS
  <2>1. T = {}
    BY <1>1, FS_EmptySet
  <2> QED BY <2>1, <1>3, <1>8
<1>10. ASSUME NEW k \in Nat, k \in K
       PROVE  k + 1 \in K
  <2> SUFFICES ASSUME NEW T \in SUBSET S, Cardinality(T) = k + 1 PROVE it[T] = Cardinality(U(T))
    OBVIOUS
  <2>1. IsFiniteSet(T)
    BY <1>1
  <2>2. T # {}
    BY FS_EmptySet
  <2> DEFINE x == CHOOSE x \in T : TRUE
  <2>3. x \in T /\ T \ {x} \in SUBSET S
    BY <1>4, <2>2
  <2>4. it[T] = g[x] + it[T \ {x}]
    BY <1>8, <2>2, Zenon
  <2> HIDE DEF x
  <2>5. Cardinality(T \ {x}) = k
    <3>1. Cardinality(T \ {x}) = IF x \in T THEN Cardinality(T) - 1 ELSE Cardinality(T)
      BY <2>1, FS_RemoveElement, Zenon
    <3>2. Cardinality(T \ {x}) = Cardinality(T) - 1
      BY <2>3, <3>1, Zenon
    <3> QED BY <3>2
  <2>6. it[T \ {x}] = Cardinality(U(T \ {x}))
    BY <1>10, <2>3, <2>5
  <2> QED BY <1>2, <2>3, <2>4, <2>6
<1> HIDE DEF K
<1>11. Cardinality(S) \in K
  <2>1. Cardinality(S) \in Nat
    BY FS_CardinalityType
  <2> QED BY <2>1, <1>9, <1>10, Listing!Induction
<1>12. it[S] = Cardinality(U(S))
  BY <1>11 DEF K
<1> QED BY <1>7, <1>12 DEF U

(* Scatter writes every item where it belongs and nothing else.            *)
LEMMA ScatterIs ==
  ASSUME NEW dst, NEW src, NEW at, DOMAIN at \subseteq Int,
         \A i, j \in DOMAIN at : at[i] = at[j] => i = j
  PROVE  /\ DOMAIN Scatter(dst, src, at) = DOMAIN dst
         /\ \A i \in DOMAIN at : at[i] \in DOMAIN dst => Scatter(dst, src, at)[at[i]] = src[i]
         /\ \A j \in DOMAIN dst :
              (\A i \in DOMAIN at : at[i] # j) => Scatter(dst, src, at)[j] = dst[j]
<1> DEFINE from(j) == {i \in DOMAIN at : at[i] = j}
           r == [j \in DOMAIN dst |-> IF from(j) = {} THEN dst[j] ELSE src[Max(from(j))]]
<1>1. Scatter(dst, src, at) = r
  BY Zenon DEF Scatter
<1>2. ASSUME NEW i \in DOMAIN at, at[i] \in DOMAIN dst
      PROVE  r[at[i]] = src[i]
  <2>1. from(at[i]) = {i}
    OBVIOUS
  <2>2. Max({i}) = i
    <3>1. i \in Int
      OBVIOUS
    <3>2. i \in {i} /\ \A y \in {i} : i >= y
      BY <3>1
    <3>3. Max({i}) \in {i}
      BY <3>2, Zenon DEF Max
    <3> QED BY <3>3
  <2>3. r[at[i]] = IF from(at[i]) = {} THEN dst[at[i]] ELSE src[Max(from(at[i]))]
    BY <1>2, Zenon
  <2> HIDE DEF from, r
  <2> QED BY <2>1, <2>2, <2>3
<1>3. ASSUME NEW j \in DOMAIN dst, \A i \in DOMAIN at : at[i] # j
      PROVE  r[j] = dst[j]
  <2>1. from(j) = {}
    BY <1>3
  <2> QED BY <2>1
<1> HIDE DEF r
<1>4. DOMAIN r = DOMAIN dst
  BY DEF r
<1> QED BY <1>1, <1>2, <1>3, <1>4

-----------------------------------------------------------------------------
(* What a deck settles.                                                    *)

(* A sequence has its elements in its set.                                 *)
LEMMA Elements ==
  ASSUME NEW S, NEW t \in Seq(S)
  PROVE  \A i \in 1 .. Len(t) : t[i] \in S
  OBVIOUS

(* The deck's own numbers.                                                 *)
LEMMA DeckIs ==
  ASSUME deck \in Decks
  PROVE  /\ deck.n \in Triple /\ N_PIPELINE \in Nat \ {0} /\ deck.lanes \in {1, 4, 8, 16}
         /\ deck.PBUF_SIZE \in Nat \ {0} /\ deck.newId \in Nat
         /\ deck.inject \subseteq Box /\ deck.draws \subseteq 0 .. UINT_MAX
         /\ Len(deck.species) \in Nat \ {0} /\ 1 \in Species /\ Species \subseteq Nat
         /\ \A s \in Species : /\ deck.species[s].max_np \in Nat
                               /\ deck.species[s].max_nm \in Nat
                               /\ deck.species[s].sort_interval \in Int
  <1>1. DeckOK(deck)
    BY DecksAssumption
  <1>2. deck.species \in Seq([max_np : Nat, max_nm : Nat, sort_interval : Int])
    BY <1>1, Zenon DEF DeckOK
  <1>3. Len(deck.species) \in Nat /\ 1 .. Len(deck.species) # {}
    <2>1. Len(deck.species) \in Nat
      BY <1>2
    <2>2. 1 .. Len(deck.species) # {}
      BY <1>1, Zenon DEF DeckOK
    <2> QED BY <2>1, <2>2
  <1>4. 1 \in 1 .. Len(deck.species) /\ 1 .. Len(deck.species) \subseteq Nat
        /\ Len(deck.species) # 0
    BY <1>3
  <1>5. \A s \in 1 .. Len(deck.species) :
          deck.species[s] \in [max_np : Nat, max_nm : Nat, sort_interval : Int]
    BY <1>2, Elements, Zenon
  <1>6. \A s \in 1 .. Len(deck.species) :
          /\ deck.species[s].max_np \in Nat /\ deck.species[s].max_nm \in Nat
          /\ deck.species[s].sort_interval \in Int
    BY <1>5
  <1> QED BY <1>1, <1>3, <1>4, <1>6 DEF DeckOK, N_PIPELINE, Species, Box

(* Its collision operators.                                                *)
LEMMA OpIs ==
  ASSUME deck \in Decks
  PROVE  /\ Len(deck.ops) \in Nat
         /\ \A k \in 1 .. Len(deck.ops) : deck.ops[k].i \in Species /\ deck.ops[k].j \in Species
<1> DEFINE R == [kind : {"takizuka_abe", "binary", "unary"}, i : Species, j : Species,
                 interval : Nat \ {0}]
<1>1. deck.ops \in Seq(R)
  BY DecksAssumption DEF DeckOK, Species
<1>2. \A x \in R : x.i \in Species /\ x.j \in Species
  OBVIOUS
<1> HIDE DEF R
<1>3. Len(deck.ops) \in Nat
  BY <1>1
<1>4. \A k \in 1 .. Len(deck.ops) : deck.ops[k] \in R
  BY <1>1, Elements
<1> QED BY <1>2, <1>3, <1>4

(* Coordinates of a voxel of the box number it between the first and the   *)
(* last, and short of the end of the ghosts.                               *)
LEMMA BoxIs ==
  ASSUME deck \in Decks
  PROVE  /\ vl \in Nat \ {0} /\ vh \in Nat /\ vl <= vh /\ n_voxel \in Nat /\ vh + 2 <= n_voxel
         /\ Box \subseteq vl .. vh
         /\ \A v \in Box : PastX(v) \in Box
<1> DEFINE n1 == deck.n[1]
           n2 == deck.n[2]
           n3 == deck.n[3]
           a == n1 + 2
           b == n2 + 2
           V(x, y, z) == x + a * (y + b * z)
<1>1. n1 \in Nat \ {0} /\ n2 \in Nat \ {0} /\ n3 \in Nat \ {0}
  BY DeckIs DEF Triple
<1>2. vl = V(1, 1, 1) /\ vh = V(n1, n2, n3) /\ n_voxel = a * b * (n3 + 2)
  BY DEF vl, vh, n_voxel, VOXEL, nv
<1>3. Box = {V(x, y, z) : x \in 1 .. n1, y \in 1 .. n2, z \in 1 .. n3}
  BY DEF Box, BoxOf, VOXEL
<1>4. \A v \in Box : PastX(v) = IF v % a = n1 THEN v - n1 + 1 ELSE v + 1
  BY DEF PastX
<1> HIDE DEF n1, n2, n3
<1>5. a \in Nat \ {0} /\ b \in Nat \ {0} /\ n3 + 2 \in Nat \ {0}
  BY <1>1
<1>6. ASSUME NEW x \in 1 .. n1, NEW y \in 1 .. n2, NEW z \in 1 .. n3
      PROVE  V(1, 1, 1) <= V(x, y, z) /\ V(x, y, z) <= V(n1, n2, n3) /\ V(x, y, z) \in Nat
  <2> HIDE DEF a, b
  <2>1. b * 1 <= b * z /\ b * z <= b * n3 /\ b * z \in Int /\ b * n3 \in Int /\ b * 1 \in Int
    BY <1>1, <1>5, Product
  <2> DEFINE l == 1 + b * 1
             m == y + b * z
             h == n2 + b * n3
  <2>2. l \in Int /\ m \in Int /\ h \in Int /\ l <= m /\ m <= h /\ 0 <= l
    BY <2>1, <1>1, <1>5
  <2> HIDE DEF l, m, h
  <2>3. a * l <= a * m /\ a * m <= a * h /\ a * l \in Int /\ a * m \in Int /\ a * h \in Int /\ a * 0 <= a * l
    BY <2>2, <1>5, Product
  <2>4. 1 + a * l <= x + a * m /\ x + a * m <= n1 + a * h /\ x + a * m \in Nat
    BY <2>3, <1>1, <1>5
  <2> QED BY <2>4 DEF l, m, h
<1>7. V(1, 1, 1) \in Nat \ {0} /\ V(n1, n2, n3) \in Nat /\ V(1, 1, 1) <= V(n1, n2, n3)
  <2>1. 1 \in 1 .. n1 /\ 1 \in 1 .. n2 /\ 1 \in 1 .. n3
    BY <1>1
  <2>2. V(1, 1, 1) \in Nat /\ V(1, 1, 1) <= V(n1, n2, n3)
    BY <1>6, <2>1
  <2>3. n1 \in 1 .. n1 /\ n2 \in 1 .. n2 /\ n3 \in 1 .. n3
    BY <1>1
  <2>4. V(n1, n2, n3) \in Nat
    BY <1>6, <2>3
  <2>5. V(1, 1, 1) # 0
    <3> HIDE DEF a, b
    <3>1. a * 0 <= a * (1 + b * 1) /\ a * (1 + b * 1) \in Int
      BY <1>5, Product
    <3> QED BY <1>5, <3>1
  <2> QED BY <2>2, <2>4, <2>5
<1>8. V(n1, n2, n3) + 2 <= a * b * (n3 + 2)
  <2>1. n1 + 1 \in 0 .. a - 1 /\ n2 \in 0 .. b - 1 /\ n3 \in 0 .. (n3 + 2) - 1
    BY <1>1
  <2> HIDE DEF a, b
  <2>2. (n1 + 1) + a * (n2 + b * n3) \in 0 .. a * b * (n3 + 2) - 1
    BY <1>5, <2>1, EncodeBound
  <2>3. a * b * (n3 + 2) \in Int /\ a * (n2 + b * n3) \in Int
    BY <1>1, <1>5
  <2> QED BY <1>1, <2>2, <2>3
<1>9. a * b * (n3 + 2) \in Nat
  BY <1>5
<1>10. ASSUME NEW x \in 1 .. n1, NEW y \in 1 .. n2, NEW z \in 1 .. n3
       PROVE  /\ V(x, y, z) % a = n1 => V(x, y, z) - n1 + 1 = V(1, y, z)
              /\ V(x, y, z) % a # n1 => V(x, y, z) + 1 = V(x + 1, y, z) /\ x + 1 \in 1 .. n1
  <2> DEFINE m == y + b * z
  <2>1. m \in Int /\ x \in 0 .. a - 1
    BY <1>1, <1>5
  <2> HIDE DEF a, b, m
  <2>2. (x + a * m) % a = x /\ a * m \in Int
    BY <2>1, <1>5, Parts, Product
  <2> QED BY <1>1, <2>1, <2>2 DEF m
<1> HIDE DEF a, b, V
<1>11. Box \subseteq vl .. vh
  BY <1>2, <1>3, <1>6
<1>12. ASSUME NEW v \in Box
       PROVE  PastX(v) \in Box
  <2>1. PICK x \in 1 .. n1, y \in 1 .. n2, z \in 1 .. n3 : v = V(x, y, z)
    BY <1>3
  <2>2. 1 \in 1 .. n1
    BY <1>1
  <2>3. CASE v % a = n1
    BY <1>3, <1>4, <1>10, <2>1, <2>2, <2>3
  <2>4. CASE v % a # n1
    BY <1>3, <1>4, <1>10, <2>1, <2>4
  <2> QED BY <2>3, <2>4
<1> QED BY <1>2, <1>7, <1>8, <1>9, <1>11, <1>12

(* The voxels of a subsort are those between two bounds.                   *)
LEMMA SubsortBounds ==
  ASSUME deck \in Decks, NEW v \in vl .. vh, NEW k \in 0 .. N_PIPELINE
  PROVE  /\ V2P(v, N_PIPELINE) \in 0 .. N_PIPELINE - 1
         /\ P2V(k, N_PIPELINE) <= v <=> k <= V2P(v, N_PIPELINE)
<1> DEFINE P == N_PIPELINE
           L == vh - vl + 1
           x == v - vl
           f == (x * P) \div L
           c == (k * L + P - 1) \div P
<1>1. P \in Nat \ {0} /\ L \in Nat \ {0} /\ x \in 0 .. L - 1 /\ k \in 0 .. P /\ vl \in Nat
  <2>1. N_PIPELINE \in Nat \ {0}
    BY DeckIs, Zenon
  <2>2. vl \in Nat \ {0} /\ vh \in Nat /\ vl <= vh
    BY BoxIs, Zenon
  <2> QED BY <2>1, <2>2
<1>2. V2P(v, P) = f /\ P2V(k, P) = vl + c /\ v = vl + x
  BY <1>1, BoxIs DEF V2P, P2V
<1> HIDE DEF P, L, x
<1>3. x * P \in Nat /\ k * L + P - 1 \in Nat /\ k * L \in Nat
  BY <1>1
<1> DEFINE r1 == (x * P) % L
           r2 == (k * L + P - 1) % P
<1>4. /\ f \in Int /\ f \in Nat /\ x * P = L * f + r1 /\ r1 \in Nat /\ r1 < L
      /\ c \in Int /\ k * L + P - 1 = P * c + r2 /\ r2 \in Nat /\ r2 < P
  BY <1>1, <1>3, Division
<1> HIDE DEF f, c, r1, r2
<1>5. L * f \in Int /\ P * c \in Int /\ P * x \in Int /\ L * k \in Int /\ L * P \in Int
  BY <1>1, <1>4, Product
<1>6. x * P = P * x /\ k * L = L * k
  BY <1>1
<1>7. f < P
  <2>1. P * x + P <= P * L
    BY <1>1, Product
  <2>2. P * L = L * P
    BY <1>1
  <2>3. L * f < L * P
    BY <1>1, <1>4, <1>5, <1>6, <2>1, <2>2
  <2>4. ~ (P <= f)
    <3> SUFFICES ASSUME P <= f PROVE FALSE
      OBVIOUS
    <3>1. L * P <= L * f
      BY <1>1, <1>4, Product
    <3> QED BY <3>1, <2>3, <1>5
  <2> QED BY <2>4, <1>1, <1>4
<1>8. k <= f <=> L * k <= P * x
  <2>1. ASSUME k <= f PROVE L * k <= P * x
    <3>1. L * k <= L * f
      BY <1>1, <1>4, <2>1, Product
    <3> QED BY <3>1, <1>4, <1>5, <1>6
  <2>2. ASSUME f < k PROVE P * x < L * k
    <3>1. L * f + L <= L * k
      BY <1>1, <1>4, <2>2, Product
    <3> QED BY <3>1, <1>1, <1>4, <1>5, <1>6
  <2> QED BY <2>1, <2>2, <1>1, <1>4, <1>5
<1>9. c <= x <=> L * k <= P * x
  <2>1. ASSUME c <= x PROVE L * k <= P * x
    <3>1. P * c <= P * x
      BY <1>1, <1>4, <2>1, Product
    <3> QED BY <3>1, <1>1, <1>4, <1>5, <1>6
  <2>2. ASSUME x < c PROVE P * x < L * k
    <3>1. P * x + P <= P * c
      BY <1>1, <1>4, <2>2, Product
    <3> QED BY <3>1, <1>1, <1>4, <1>5, <1>6
  <2> QED BY <2>1, <2>2, <1>1, <1>4, <1>5
<1>10. (vl + c <= vl + x <=> c <= x)
  BY <1>1, <1>4
<1> QED BY <1>1, <1>2, <1>4, <1>7, <1>8, <1>9, <1>10 DEF P

(* The bounds go from the first voxel to past the last.                    *)
LEMMA SubsortEnds ==
  ASSUME deck \in Decks
  PROVE  /\ P2V(0, N_PIPELINE) = vl /\ P2V(N_PIPELINE, N_PIPELINE) = vh + 1
         /\ \A k \in 0 .. N_PIPELINE : P2V(k, N_PIPELINE) \in vl .. vh + 1
         /\ \A k \in 0 .. N_PIPELINE - 1 : P2V(k, N_PIPELINE) <= P2V(k + 1, N_PIPELINE)
<1> DEFINE P == N_PIPELINE
           L == vh - vl + 1
           c(k) == (k * L + P - 1) \div P
<1>1. P \in Nat \ {0} /\ L \in Nat \ {0} /\ vl \in Nat /\ vh + 1 = vl + L
  <2>1. N_PIPELINE \in Nat \ {0}
    BY DeckIs, Zenon
  <2>2. vl \in Nat \ {0} /\ vh \in Nat /\ vl <= vh
    BY BoxIs, Zenon
  <2> QED BY <2>1, <2>2
<1>2. \A k \in 0 .. P : P2V(k, P) = vl + c(k)
  BY DEF P2V
<1> HIDE DEF P, L
<1>3. c(0) = 0
  <2>1. P * 0 <= 0 * L + P - 1 /\ 0 * L + P - 1 < P * 0 + P /\ 0 * L + P - 1 \in Int
    BY <1>1
  <2> DEFINE a == 0 * L + P - 1
  <2>2. a \div P = 0
    <3> HIDE DEF a
    <3>1. a \in Int /\ P * 0 <= a /\ a < P * 0 + P
      BY <2>1 DEF a
    <3>2. P \in Nat \ {0} /\ L \in Int /\ 0 \in Int
      BY <1>1
    <3> QED BY <3>1, <3>2, Quotient, Zenon
  <2> QED BY <2>2
<1>4. c(P) = L
  <2>1. P * L <= P * L + P - 1 /\ P * L + P - 1 < P * L + P /\ P * L + P - 1 \in Int
    BY <1>1
  <2> DEFINE a == P * L + P - 1
  <2>2. a \div P = L
    <3> HIDE DEF a
    <3>1. a \in Int /\ P * L <= a /\ a < P * L + P
      BY <2>1 DEF a
    <3>2. P \in Nat \ {0} /\ L \in Int /\ 0 \in Int
      BY <1>1
    <3> QED BY <3>1, <3>2, Quotient, Zenon
  <2> QED BY <2>2
<1>5. ASSUME NEW j \in 0 .. P, NEW k \in 0 .. P, j <= k
      PROVE  c(j) <= c(k) /\ c(j) \in Int /\ c(k) \in Int
  <2>1. L * j <= L * k /\ L * j \in Int /\ L * k \in Int
    BY <1>1, <1>5, Product
  <2> DEFINE a == j * L + P - 1
             b == k * L + P - 1
  <2>2. a \in Int /\ b \in Int /\ a <= b
    BY <1>1, <2>1
  <2> HIDE DEF a, b
  <2>3. /\ a \div P \in Int /\ a = P * (a \div P) + (a % P) /\ a % P \in Nat
        /\ b \div P \in Int /\ b = P * (b \div P) + (b % P) /\ b % P < P /\ b % P \in Nat
    BY <1>1, <2>2, Division
  <2>4. P * (a \div P) < P * (b \div P) + P
    BY <1>1, <2>2, <2>3
  <2>5. a \div P <= b \div P
    BY <1>1, <2>3, <2>4, Product
  <2> QED BY <2>3, <2>5 DEF a, b
<1> HIDE DEF c
<1>6. 0 \in 0 .. P /\ P \in 0 .. P
  BY <1>1
<1>7. \A k \in 0 .. P : P2V(k, P) \in vl .. vh + 1
  <2> TAKE k \in 0 .. P
  <2>1. c(0) <= c(k) /\ c(k) <= c(P) /\ c(k) \in Int
    BY <1>1, <1>5, <1>6
  <2> QED BY <1>1, <1>2, <1>3, <1>4, <2>1
<1>8. \A k \in 0 .. P - 1 : P2V(k, P) <= P2V(k + 1, P)
  <2> TAKE k \in 0 .. P - 1
  <2>1. k \in 0 .. P /\ k + 1 \in 0 .. P /\ k <= k + 1
    BY <1>1
  <2>2. c(k) <= c(k + 1) /\ c(k) \in Int /\ c(k + 1) \in Int
    BY <1>5, <2>1
  <2> QED BY <1>1, <1>2, <2>1, <2>2
<1>9. P2V(0, P) = vl /\ P2V(P, P) = vh + 1
  BY <1>1, <1>2, <1>3, <1>4, <1>6
<1> QED BY <1>7, <1>8, <1>9 DEF P

-----------------------------------------------------------------------------
(* The passes of the sort.                                                 *)

(* A share is of the items there are.                                      *)
LEMMA ShareIn ==
  ASSUME NEW N \in Nat, NEW b \in Nat \ {0}, NEW P \in Nat \ {0}, NEW t \in 0 .. P
  PROVE  Share(N, b, t, P) \subseteq 0 .. N - 1
<1> DEFINE d(r) == DISTRIBUTE(N, b, r, P)
<1>1. P \in 0 .. P /\ t \in 0 .. P
  OBVIOUS
<1>2. \A r \in 0 .. P : d(r).i \in Int /\ d(r).n \in Int
  BY ShareTypes
<1>3. d(P).i + d(P).n = N /\ d(P).n \in Nat
  <2>1. d(P).i + d(P).n = N
    BY <1>1, Aligned
  <2>2. d(P).n = N % b
    <3>1. ShareAt(N, b, P, P)
      BY <1>1, ShareIsAt, Zenon
    <3> QED BY <3>1, Zenon DEF ShareAt
  <2> QED BY <2>1, <2>2, Division
<1>4. d(t).i \in Nat
  <2>1. d(t).i = b * Cut(N \div b, t, P) /\ Cut(N \div b, t, P) \in Nat
    <3>1. ShareAt(N, b, t, P)
      BY ShareIsAt, Zenon
    <3> QED BY <3>1, Zenon DEF ShareAt
  <2>2. b * 0 <= b * Cut(N \div b, t, P)
    BY <2>1, Product
  <2> QED BY <1>2, <2>1, <2>2
<1>5. d(t).i + d(t).n <= N
  <2>1. CASE t = P
    BY <1>1, <1>2, <1>3, <2>1
  <2>2. CASE t < P
    <3>1. d(t).i + d(t).n <= d(P).i
      BY <1>1, <2>2, SharesInOrder
    <3> QED BY <1>1, <1>2, <1>3, <3>1
  <2> QED BY <2>1, <2>2
<1>6. Share(N, b, t, P) = d(t).i .. d(t).i + d(t).n - 1
  BY DEF Share
<1>7. d(t).i \in Int /\ d(t).n \in Int
  BY <1>2
<1> DEFINE i == d(t).i
           m == d(t).n
<1>8. i \in Nat /\ m \in Int /\ i + m <= N /\ Share(N, b, t, P) = i .. i + m - 1
  BY <1>4, <1>5, <1>6, <1>7, Zenon
<1> HIDE DEF i, m
<1> QED BY <1>8

(* Every item is of one of the ranks, the earlier ones of the lower.       *)
LEMMA SortShares ==
  ASSUME NEW n \in Nat, NEW P \in Nat \ {0}
  PROVE  /\ \A i \in 0 .. n - 1 : \E r \in 0 .. P - 1 : i \in Share(n, 1, r, P)
         /\ \A r, t \in 0 .. P : \A h \in Share(n, 1, r, P), i \in Share(n, 1, t, P) :
              r < t => h < i
<1>1. ASSUME NEW i \in 0 .. n - 1
      PROVE  \E r \in 0 .. P - 1 : i \in Share(n, 1, r, P)
  <2>1. PICK r \in 0 .. P : i \in Share(n, 1, r, P)
    BY SharesCover
  <2>2. r # P
    <3> SUFFICES ASSUME r = P PROVE FALSE
      OBVIOUS
    <3>1. P \in 0 .. P /\ 1 \in Nat \ {0}
      OBVIOUS
    <3>2. DISTRIBUTE(n, 1, P, P).n = n % 1
      <4>1. ShareAt(n, 1, P, P)
        BY <3>1, ShareIsAt
      <4> QED BY <4>1, Zenon DEF ShareAt
    <3>3. n % 1 = 0
      OBVIOUS
    <3>4. DISTRIBUTE(n, 1, P, P).i \in Int
      BY <3>1, ShareTypes
    <3>5. Share(n, 1, P, P) = {}
      BY <3>2, <3>3, <3>4 DEF Share
    <3> QED BY <2>1, <3>5
  <2> QED BY <2>1, <2>2
<1>2. ASSUME NEW r \in 0 .. P, NEW t \in 0 .. P, r < t,
             NEW h \in Share(n, 1, r, P), NEW i \in Share(n, 1, t, P)
      PROVE  h < i
  <2> DEFINE c == DISTRIBUTE(n, 1, r, P)
             d == DISTRIBUTE(n, 1, t, P)
  <2>1. c.i \in Int /\ c.n \in Int /\ d.i \in Int /\ d.n \in Int
    BY ShareTypes
  <2>2. c.i + c.n <= d.i
    BY <1>2, SharesInOrder
  <2>3. h \in c.i .. c.i + c.n - 1 /\ i \in d.i .. d.i + d.n - 1
    BY DEF Share
  <2> HIDE DEF c, d
  <2> QED BY <2>1, <2>2, <2>3
<1> QED BY <1>1, <1>2

(* A list of n particles in the box; its voxels and its subsorts.          *)
Settled(q, n) ==
  n \in Nat /\ DOMAIN q = 0 .. n - 1 /\ \A i \in 0 .. n - 1 : q[i].i \in vl .. vh
VKey(q) == [i \in DOMAIN q |-> q[i].i]
QKey(q) == [i \in DOMAIN q |-> V2P(q[i].i, N_PIPELINE)]

(* They are keys, those of a subsort within its bounds.                    *)
LEMMA KeysAre ==
  ASSUME deck \in Decks, NEW q, NEW n, Settled(q, n)
  PROVE  /\ VKey(q) \in Keys(n) /\ QKey(q) \in Keys(n)
         /\ \A i \in 0 .. n - 1 : /\ VKey(q)[i] = q[i].i /\ VKey(q)[i] \in vl .. vh
                                  /\ QKey(q)[i] = V2P(q[i].i, N_PIPELINE)
                                  /\ QKey(q)[i] \in 0 .. N_PIPELINE - 1
         /\ \A i \in 0 .. n - 1, k \in 0 .. N_PIPELINE :
              P2V(k, N_PIPELINE) <= VKey(q)[i] <=> k <= QKey(q)[i]
<1>1. n \in Nat /\ DOMAIN q = 0 .. n - 1 /\ \A i \in 0 .. n - 1 : q[i].i \in vl .. vh
  BY DEF Settled
<1>2. \A i \in 0 .. n - 1 : /\ VKey(q)[i] = q[i].i
                            /\ QKey(q)[i] = V2P(q[i].i, N_PIPELINE)
  BY <1>1 DEF VKey, QKey
<1>3. \A i \in 0 .. n - 1 : QKey(q)[i] \in 0 .. N_PIPELINE - 1
  <2>1. N_PIPELINE \in Nat \ {0}
    BY DeckIs
  <2>2. 0 \in 0 .. N_PIPELINE
    BY <2>1
  <2> QED BY <1>1, <1>2, <2>2, SubsortBounds
<1>4. VKey(q) \in Keys(n)
  <2>1. \A i \in 0 .. n - 1 : q[i].i \in Int
    BY <1>1, BoxIs
  <2> QED BY <1>1, <2>1 DEF Keys, VKey
<1>5. QKey(q) \in Keys(n)
  <2>1. \A i \in 0 .. n - 1 : V2P(q[i].i, N_PIPELINE) \in Int
    BY <1>2, <1>3
  <2> QED BY <1>1, <2>1 DEF Keys, QKey
<1>6. \A i \in 0 .. n - 1, k \in 0 .. N_PIPELINE :
        P2V(k, N_PIPELINE) <= VKey(q)[i] <=> k <= QKey(q)[i]
  BY <1>1, <1>2, SubsortBounds
<1> QED BY <1>1, <1>2, <1>3, <1>4, <1>5, <1>6

(* Counting subsorts below k is counting voxels below its first.           *)
LEMMA SubsortLess ==
  ASSUME deck \in Decks, NEW q, NEW n, Settled(q, n), NEW k \in 0 .. N_PIPELINE
  PROVE  Less(QKey(q), k) = Less(VKey(q), P2V(k, N_PIPELINE))
<1>1. DOMAIN QKey(q) = 0 .. n - 1 /\ DOMAIN VKey(q) = 0 .. n - 1
  BY DEF QKey, VKey, Settled
<1>2. ASSUME NEW h \in 0 .. n - 1
      PROVE  QKey(q)[h] < k <=> VKey(q)[h] < P2V(k, N_PIPELINE)
  <2>1. VKey(q)[h] \in Int /\ QKey(q)[h] \in Int /\ k \in Int /\ P2V(k, N_PIPELINE) \in Int
    <3>1. VKey(q)[h] \in vl .. vh /\ QKey(q)[h] \in 0 .. N_PIPELINE - 1
      BY KeysAre, Zenon
    <3>2. P2V(k, N_PIPELINE) \in vl .. vh + 1
      BY SubsortEnds, Zenon
    <3> QED BY <3>1, <3>2
  <2>2. P2V(k, N_PIPELINE) <= VKey(q)[h] <=> k <= QKey(q)[h]
    BY KeysAre, Zenon
  <2> QED BY <2>1, <2>2
<1>3. {h \in DOMAIN QKey(q) : QKey(q)[h] < k} = {h \in DOMAIN VKey(q) : VKey(q)[h] < P2V(k, N_PIPELINE)}
  BY <1>1, <1>2
<1> QED BY <1>3 DEF Less

(* No key is below the first voxel and all are below what follows the last.*)
LEMMA GhostCounts ==
  ASSUME deck \in Decks, NEW q, NEW n, Settled(q, n), NEW v \in Int
  PROVE  /\ v <= vl => Less(VKey(q), v) = 0
         /\ vh < v => Less(VKey(q), v) = n
<1>1. DOMAIN VKey(q) = 0 .. n - 1 /\ \A i \in 0 .. n - 1 : VKey(q)[i] \in vl .. vh
  BY KeysAre DEF VKey, Settled
<1>2. vl \in Int /\ vh \in Int
  BY BoxIs
<1>3. ASSUME v <= vl PROVE Less(VKey(q), v) = 0
  <2>1. {h \in DOMAIN VKey(q) : VKey(q)[h] < v} = {}
    BY <1>1, <1>2, <1>3
  <2> QED BY <2>1, FS_EmptySet DEF Less
<1>4. ASSUME vh < v PROVE Less(VKey(q), v) = n
  <2>1. {h \in DOMAIN VKey(q) : VKey(q)[h] < v} = 0 .. n - 1
    BY <1>1, <1>2, <1>4
  <2>2. Cardinality(0 .. n - 1) = n
    BY FS_Interval DEF Settled
  <2> QED BY <2>1, <2>2 DEF Less
<1> QED BY <1>3, <1>4

(* What is scattered to its places is there, and nothing else changed.     *)
LEMMA ScatterPlaced ==
  ASSUME NEW n \in Nat, NEW key \in Keys(n), NEW dst, DOMAIN dst = 0 .. n - 1, NEW src,
         NEW at, DOMAIN at \subseteq 0 .. n - 1, \A i \in DOMAIN at : at[i] = Place(key, i)
  PROVE  LET s == Scatter(dst, src, at)
         IN /\ DOMAIN s = 0 .. n - 1
            /\ \A i \in DOMAIN at : s[Place(key, i)] = src[i]
            /\ \A j \in 0 .. n - 1 : (\A i \in DOMAIN at : Place(key, i) # j) => s[j] = dst[j]
<1> DEFINE s == Scatter(dst, src, at)
<1>1. \A i, j \in DOMAIN at : at[i] = at[j] => i = j
  <2>1. \A i, j \in 0 .. n - 1 : Place(key, i) = Place(key, j) => i = j
    BY PlaceIs
  <2> QED BY <2>1
<1>2. DOMAIN at \subseteq Int
  OBVIOUS
<1>3. /\ DOMAIN s = DOMAIN dst
      /\ \A i \in DOMAIN at : at[i] \in DOMAIN dst => s[at[i]] = src[i]
      /\ \A j \in DOMAIN dst : (\A i \in DOMAIN at : at[i] # j) => s[j] = dst[j]
  BY <1>1, <1>2, ScatterIs
<1> HIDE DEF s
<1>4. \A i \in DOMAIN at : s[Place(key, i)] = src[i]
  <2>1. \A i \in 0 .. n - 1 : Place(key, i) \in 0 .. n - 1
    BY PlaceIs
  <2> QED BY <1>3, <2>1
<1>5. \A j \in 0 .. n - 1 : (\A i \in DOMAIN at : Place(key, i) # j) => s[j] = dst[j]
  BY <1>3
<1> QED BY <1>3, <1>4, <1>5 DEF s

(* The same, said at once.                                                 *)
Placing(n, key, at) ==
  /\ n \in Nat /\ key \in Keys(n) /\ DOMAIN at \subseteq 0 .. n - 1
  /\ \A i \in DOMAIN at : at[i] = Place(key, i)
Lands(n, key, dst, src, at, s) ==
  /\ DOMAIN s = 0 .. n - 1
  /\ \A i \in DOMAIN at : s[Place(key, i)] = src[i]
  /\ \A j \in 0 .. n - 1 : (\A i \in DOMAIN at : Place(key, i) # j) => s[j] = dst[j]
(* Scattered, items with different places land there and what has no place *)
(* is kept.                                                                *)
LEMMA ScatterLands ==
  ASSUME NEW n, NEW key, NEW dst, NEW src, NEW at, Placing(n, key, at), DOMAIN dst = 0 .. n - 1
  PROVE  Lands(n, key, dst, src, at, Scatter(dst, src, at))
<1>1. /\ n \in Nat /\ key \in Keys(n) /\ DOMAIN at \subseteq 0 .. n - 1
      /\ \A i \in DOMAIN at : at[i] = Place(key, i)
  BY DEF Placing
<1>2. DOMAIN Scatter(dst, src, at) = 0 .. n - 1
  BY <1>1, ScatterPlaced
<1>3. \A i \in DOMAIN at : Scatter(dst, src, at)[Place(key, i)] = src[i]
  BY <1>1, ScatterPlaced
<1>4. \A j \in 0 .. n - 1 : (\A i \in DOMAIN at : Place(key, i) # j)
                             => Scatter(dst, src, at)[j] = dst[j]
  BY <1>1, ScatterPlaced
<1> QED BY <1>2, <1>3, <1>4 DEF Lands

(* A subsort counts its voxels and puts its particles in their places.     *)
SubsortDone(q, n, dst, part, k, r) ==
  /\ DOMAIN r.partition = 0 .. n_voxel /\ DOMAIN r.p = 0 .. n - 1
  /\ \A v \in 0 .. n_voxel :
       r.partition[v] = IF v \in P2V(k, N_PIPELINE) .. P2V(k + 1, N_PIPELINE)
                          THEN Less(VKey(q), v) ELSE part[v]
  /\ \A i \in 0 .. n - 1 : QKey(q)[i] = k => r.p[Place(VKey(q), i)] = q[i]
  /\ \A j \in 0 .. n - 1 :
       (\A i \in 0 .. n - 1 : QKey(q)[i] = k => Place(VKey(q), i) # j) => r.p[j] = dst[j]
(* subsort_pipeline_scalar puts the particles of its subsort at their      *)
(* places and writes the partition of its voxels (sort_p_pipeline.cc).     *)
LEMMA SubsortIs ==
  ASSUME deck \in Decks, NEW q, NEW n, Settled(q, n), NEW dst, DOMAIN dst = 0 .. n - 1,
         NEW part, DOMAIN part = 0 .. n_voxel, NEW k \in 0 .. N_PIPELINE - 1,
         NEW i0 \in Int, NEW i1 \in Int, i0 = Less(QKey(q), k),
         \A i \in Int : i \in i0 .. i1 - 1 <=> i \in 0 .. n - 1 /\ QKey(q)[i] = k
  PROVE  SubsortDone(q, n, dst, part, k, subsort_pipeline_scalar(q, dst, part, k, i0, i1, N_PIPELINE))
<1> DEFINE key == VKey(q)
           v0 == P2V(k, N_PIPELINE)
           v1 == P2V(k + 1, N_PIPELINE)
           mine == i0 .. i1 - 1
           new == [v \in DOMAIN part |->
                     IF v \in v0 .. v1
                       THEN i0 + Cardinality({i \in mine : q[i].i \in v0 .. v - 1})
                       ELSE part[v]]
           at == [i \in mine |-> new[q[i].i]
                    + Cardinality({h \in mine : h < i /\ q[h].i = q[i].i})]
           r == subsort_pipeline_scalar(q, dst, part, k, i0, i1, N_PIPELINE)
<1>1. r.partition = new /\ r.p = Scatter(dst, q, at)
  BY DEF subsort_pipeline_scalar
<1>2. /\ n \in Nat /\ key \in Keys(n) /\ DOMAIN key = 0 .. n - 1
      /\ \A i \in 0 .. n - 1 : key[i] = q[i].i /\ key[i] \in vl .. vh /\ key[i] \in Int
      /\ vl \in Int /\ vh \in Int /\ vh + 1 <= n_voxel /\ 1 <= vl /\ n_voxel \in Int
  <2>1. n \in Nat /\ key \in Keys(n) /\ DOMAIN key = 0 .. n - 1
    BY KeysAre DEF Settled, VKey
  <2>2. \A i \in 0 .. n - 1 : key[i] = q[i].i /\ key[i] \in vl .. vh
    BY KeysAre
  <2>3. vl \in Int /\ vh \in Int /\ vh + 1 <= n_voxel /\ 1 <= vl /\ n_voxel \in Int
    BY BoxIs
  <2> QED BY <2>1, <2>2, <2>3
<1>3. /\ k \in 0 .. N_PIPELINE /\ k + 1 \in 0 .. N_PIPELINE /\ k \in Int
      /\ v0 \in vl .. vh + 1 /\ v1 \in vl .. vh + 1
  <2>1. N_PIPELINE \in Nat \ {0}
    BY DeckIs
  <2>2. k \in 0 .. N_PIPELINE /\ k + 1 \in 0 .. N_PIPELINE /\ k \in Int
    BY <2>1
  <2> QED BY <2>2, SubsortEnds
<1>4. \A i \in Int : i \in mine <=> i \in 0 .. n - 1 /\ key[i] \in v0 .. v1 - 1
  <2> TAKE i \in Int
  <2>1. CASE i \notin 0 .. n - 1
    BY <2>1
  <2>2. CASE i \in 0 .. n - 1
    <3>1. /\ v0 <= key[i] <=> k <= QKey(q)[i]
          /\ v1 <= key[i] <=> k + 1 <= QKey(q)[i]
          /\ QKey(q)[i] \in Int
      BY <1>3, <2>2, KeysAre
    <3>2. i \in mine <=> QKey(q)[i] = k
      BY <2>2
    <3>3. key[i] \in Int /\ v0 \in Int /\ v1 \in Int /\ k \in Int
      BY <1>2, <1>3, <2>2
    <3> DEFINE a == key[i]
               b == QKey(q)[i]
    <3>4. /\ v0 <= a <=> k <= b
          /\ v1 <= a <=> k + 1 <= b
          /\ b \in Int /\ a \in Int /\ v0 \in Int /\ v1 \in Int /\ k \in Int
      BY <3>1, <3>3
    <3> HIDE DEF v0, v1, mine, key, a, b
    <3>5. b = k <=> a \in v0 .. v1 - 1
      BY <3>4
    <3> QED BY <2>2, <3>2, <3>5 DEF a, b
  <2> QED BY <2>1, <2>2
<1>5. i0 = Less(key, v0)
  BY <1>3, SubsortLess
<1>6. mine \subseteq 0 .. n - 1
  BY <1>4
<1> HIDE DEF key, v0, v1, mine
<1>7. ASSUME NEW v \in v0 .. v1
      PROVE  i0 + Cardinality({i \in mine : q[i].i \in v0 .. v - 1}) = Less(key, v)
  <2> DEFINE A == {h \in DOMAIN key : key[h] < v0}
             B == {i \in mine : q[i].i \in v0 .. v - 1}
             C == {h \in DOMAIN key : key[h] < v}
  <2>1. C \subseteq 0 .. n - 1
    BY <1>2
  <2>2. C = A \cup B
    <3>1. \A h \in 0 .. n - 1 : h \in B <=> v0 <= key[h] /\ key[h] < v
      <4> TAKE h \in 0 .. n - 1
      <4>1. h \in mine <=> key[h] \in v0 .. v1 - 1
        BY <1>4
      <4>2. q[h].i = key[h] /\ key[h] \in Int /\ v0 \in Int /\ v1 \in Int /\ v \in Int /\ v <= v1
        BY <1>2, <1>3
      <4> QED BY <4>1, <4>2
    <3>2. \A h \in 0 .. n - 1 : (h \in A <=> key[h] < v0) /\ (h \in C <=> key[h] < v)
      BY <1>2
    <3>3. A \subseteq 0 .. n - 1 /\ B \subseteq 0 .. n - 1
      BY <1>2, <1>6
    <3>4. \A h \in 0 .. n - 1 : h \in C <=> h \in A \/ h \in B
      <4> TAKE h \in 0 .. n - 1
      <4>1. key[h] \in Int /\ v0 \in Int /\ v \in Int /\ v0 <= v
        BY <1>2, <1>3
      <4> QED BY <3>1, <3>2, <4>1
    <3> HIDE DEF A, B, C
    <3> QED BY <2>1, <3>3, <3>4
  <2>3. A \cap B = {}
    <3> SUFFICES ASSUME NEW h \in A, h \in B PROVE FALSE
      OBVIOUS
    <3>1. h \in 0 .. n - 1 /\ key[h] < v0 /\ q[h].i \in v0 .. v - 1
      BY <1>2
    <3> QED BY <1>2, <1>3, <3>1
  <2> HIDE DEF A, B, C
  <2>4. Cardinality(C) = Cardinality(A) + Cardinality(B)
    BY <1>2, <2>1, <2>2, <2>3, TwoParts
  <2>5. Less(key, v) = Cardinality(C) /\ i0 = Cardinality(A)
    BY <1>5 DEF Less, A, C
  <2>6. i0 + Cardinality(B) = Less(key, v)
    BY <2>4, <2>5
  <2> QED BY <2>6 DEF B
<1>8. DOMAIN new = 0 .. n_voxel
      /\ \A v \in 0 .. n_voxel : new[v] = IF v \in v0 .. v1 THEN Less(key, v) ELSE part[v]
  BY <1>7
<1> HIDE DEF new
<1>9. ASSUME NEW i \in mine
      PROVE  at[i] = Place(key, i)
  <2>1. i \in Int /\ i \in 0 .. n - 1 /\ key[i] \in v0 .. v1 - 1 /\ q[i].i = key[i]
    BY <1>2, <1>4, <1>6
  <2>2. key[i] \in 0 .. n_voxel /\ key[i] \in v0 .. v1
    BY <1>2, <1>3, <2>1
  <2>3. new[q[i].i] = Less(key, key[i])
    BY <1>8, <2>1, <2>2
  <2>4. {h \in mine : h < i /\ q[h].i = q[i].i} = {h \in DOMAIN key : h < i /\ key[h] = key[i]}
    <3>1. \A h \in 0 .. n - 1 : key[h] = key[i] => h \in mine
      BY <1>4, <2>1
    <3>2. \A h \in 0 .. n - 1 : q[h].i = key[h]
      BY <1>2
    <3> QED BY <1>2, <1>6, <2>1, <3>1, <3>2
  <2>5. at[i] = Less(key, key[i]) + Alike(key, i)
    BY <2>3, <2>4 DEF Alike
  <2> HIDE DEF at
  <2>6. Place(key, i) = Less(key, key[i]) + Alike(key, i)
    BY <1>2, <2>1, PlaceSplit
  <2> QED BY <2>5, <2>6
<1>10. DOMAIN at = mine
  OBVIOUS
<1> HIDE DEF at
<1>11. \A i \in 0 .. n - 1 : i \in mine <=> QKey(q)[i] = k
  BY DEF mine
<1> DEFINE s == Scatter(dst, q, at)
<1>14. /\ DOMAIN s = 0 .. n - 1
       /\ \A i \in DOMAIN at : s[Place(key, i)] = q[i]
       /\ \A j \in 0 .. n - 1 : (\A i \in DOMAIN at : Place(key, i) # j) => s[j] = dst[j]
  <2>1. Placing(n, key, at)
    BY <1>2, <1>6, <1>9, <1>10 DEF Placing
  <2>2. Lands(n, key, dst, q, at, s)
    BY <2>1, ScatterLands
  <2> QED BY <2>2 DEF Lands
<1> HIDE DEF s
<1>15. \A i \in 0 .. n - 1 : QKey(q)[i] = k => s[Place(key, i)] = q[i]
  BY <1>10, <1>11, <1>14
<1>16. \A j \in 0 .. n - 1 : (\A i \in 0 .. n - 1 : QKey(q)[i] = k => Place(key, i) # j) => s[j] = dst[j]
  <2> SUFFICES ASSUME NEW j \in 0 .. n - 1,
                      \A i \in 0 .. n - 1 : QKey(q)[i] = k => Place(key, i) # j
               PROVE  s[j] = dst[j]
    OBVIOUS
  <2>1. \A i \in DOMAIN at : Place(key, i) # j
    BY <1>6, <1>10, <1>11
  <2> QED BY <2>1, <1>14
<1>17. r.p = s /\ DOMAIN s = 0 .. n - 1 /\ r.partition = new
  BY <1>1, <1>14 DEF s
<1> HIDE DEF r
<1>18. /\ DOMAIN r.partition = 0 .. n_voxel /\ DOMAIN r.p = 0 .. n - 1
       /\ \A v \in 0 .. n_voxel : r.partition[v] = IF v \in v0 .. v1 THEN Less(key, v) ELSE part[v]
       /\ \A i \in 0 .. n - 1 : QKey(q)[i] = k => r.p[Place(key, i)] = q[i]
       /\ \A j \in 0 .. n - 1 :
                 (\A i \in 0 .. n - 1 : QKey(q)[i] = k => Place(key, i) # j)
                   => r.p[j] = dst[j]
  BY <1>8, <1>15, <1>16, <1>17
<1> QED BY <1>18 DEF r, key, v0, v1, SubsortDone

-----------------------------------------------------------------------------
(* The coarse pass.                                                        *)

Of(n, r) == Share(n, 1, r, N_PIPELINE)
CpAt(k, r) == k + cp_stride * r
Tally(q, n, k, r) == Cardinality({i \in Of(n, r) : QKey(q)[i] = k})
InEarlier(n, h, r) == \E t \in 0 .. r - 1 : h \in Of(n, t)
Start(q, n, k, r) ==
  Less(QKey(q), k) + Cardinality({h \in DOMAIN QKey(q) : QKey(q)[h] = k /\ InEarlier(n, h, r)})

(* The stride keeps the counts of the ranks apart.                         *)
LEMMA Strides ==
  ASSUME deck \in Decks, NEW k \in 0 .. N_PIPELINE - 1, NEW r \in 0 .. N_PIPELINE - 1
  PROVE  /\ cp_stride \in Nat /\ N_PIPELINE <= cp_stride /\ CpAt(k, r) \in 0 .. cp_stride * N_PIPELINE
         /\ \A l, t \in 0 .. N_PIPELINE - 1 :
              /\ CpAt(l, t) - cp_stride * r \in 0 .. N_PIPELINE - 1 <=> t = r
              /\ CpAt(l, t) = CpAt(k, r) <=> l = k /\ t = r
              /\ CpAt(l, r) - cp_stride * r = l
<1> DEFINE P == N_PIPELINE
           c == cp_stride
           m == (P + 4 - 1) \div 4
<1>1. P \in Nat \ {0} /\ k \in 0 .. P - 1 /\ r \in 0 .. P - 1
  BY DeckIs
<1>2. c = 4 * m /\ m \in Nat /\ P <= 4 * m
  <2>1. P + 4 - 1 \in Nat /\ 4 \in Nat \ {0}
    BY <1>1
  <2>2. c = 4 * m
    BY DEF cp_stride, POW2_CEIL
  <2> HIDE DEF P, c
  <2>3. P + 4 - 1 = 4 * m + ((P + 4 - 1) % 4) /\ (P + 4 - 1) % 4 < 4 /\ m \in Nat
        /\ (P + 4 - 1) % 4 \in Nat
    BY <2>1, Division
  <2> QED BY <1>1, <2>2, <2>3
<1> HIDE DEF m
<1>3. c \in Nat \ {0} /\ P <= c
  BY <1>1, <1>2
<1>4. \A l, t : CpAt(l, t) = l + c * t
  BY DEF CpAt
<1> HIDE DEF P, c
<1>5. CpAt(k, r) \in 0 .. c * P
  <2>1. c * 0 <= c * r /\ c * r + c <= c * P /\ c * r \in Int /\ c * P \in Int
    BY <1>1, <1>3, Product
  <2> QED BY <1>1, <1>3, <1>4, <2>1
<1>6. ASSUME NEW l \in 0 .. P - 1, NEW t \in 0 .. P - 1
      PROVE  /\ CpAt(l, t) - c * r \in 0 .. P - 1 <=> t = r
             /\ CpAt(l, t) = CpAt(k, r) <=> l = k /\ t = r
             /\ CpAt(l, r) - c * r = l
  <2>1. /\ c * t \in Int /\ c * r \in Int
        /\ t < r => c * t + c <= c * r
        /\ r < t => c * r + c <= c * t
    BY <1>1, <1>3, Product
  <2>2. CpAt(l, t) = l + c * t /\ CpAt(l, r) = l + c * r /\ CpAt(k, r) = k + c * r
    BY <1>4
  <2>3. CASE t = r
    BY <1>1, <2>1, <2>2, <2>3
  <2>4. CASE t < r
    BY <1>1, <1>3, <2>1, <2>2, <2>4
  <2>5. CASE r < t
    BY <1>1, <1>3, <2>1, <2>2, <2>5
  <2> QED BY <1>1, <2>3, <2>4, <2>5
<1> QED BY <1>3, <1>5, <1>6 DEF P, c

(* The counters of two subsorts or two ranks are different words of        *)
(* coarse_partition.                                                       *)
LEMMA CellsApart ==
  ASSUME deck \in Decks
  PROVE  \A k, r, l, t \in 0 .. N_PIPELINE - 1 : CpAt(l, t) = CpAt(k, r) <=> l = k /\ t = r
<1> SUFFICES ASSUME NEW k \in 0 .. N_PIPELINE - 1, NEW r \in 0 .. N_PIPELINE - 1
             PROVE  \A l, t \in 0 .. N_PIPELINE - 1 : CpAt(l, t) = CpAt(k, r) <=> l = k /\ t = r
  OBVIOUS
<1>1. \A l, t \in 0 .. N_PIPELINE - 1 :
              /\ CpAt(l, t) - cp_stride * r \in 0 .. N_PIPELINE - 1 <=> t = r
              /\ CpAt(l, t) = CpAt(k, r) <=> l = k /\ t = r
              /\ CpAt(l, r) - cp_stride * r = l
  BY Strides
<1> QED BY <1>1

(* What one rank counts, it counts where nobody else does.                 *)
LEMMA CoarseCountIs ==
  ASSUME deck \in Decks, NEW s \in Species, Settled(p[s], np(s)),
         NEW rank \in Pipelines, DOMAIN coarse_partition = 0 .. cp_stride * N_PIPELINE
  PROVE  LET c == coarse_count_pipeline_scalar(s, rank)
         IN /\ DOMAIN c = DOMAIN coarse_partition
            /\ \A k, r \in Pipelines :
                 c[CpAt(k, r)] = IF r = rank THEN Tally(p[s], np(s), k, r)
                                             ELSE coarse_partition[CpAt(k, r)]
<1> DEFINE c == coarse_count_pipeline_scalar(s, rank)
           n == np(s)
<1>1. DOMAIN c = DOMAIN coarse_partition
  BY DEF coarse_count_pipeline_scalar
<1>2. ASSUME NEW k \in Pipelines, NEW r \in Pipelines
      PROVE  c[CpAt(k, r)] = IF r = rank THEN Tally(p[s], n, k, r)
                                         ELSE coarse_partition[CpAt(k, r)]
  <2>1. k \in 0 .. N_PIPELINE - 1 /\ r \in 0 .. N_PIPELINE - 1 /\ rank \in 0 .. N_PIPELINE - 1
    BY DEF Pipelines
  <2>2. /\ CpAt(k, r) \in DOMAIN coarse_partition
        /\ CpAt(k, r) - cp_stride * rank \in 0 .. N_PIPELINE - 1 <=> r = rank
        /\ CpAt(k, rank) - cp_stride * rank = k
    BY <2>1, Strides
  <2> DEFINE x == CpAt(k, r)
  <2>3. c[x] = IF x - cp_stride * rank \in 0 .. N_PIPELINE - 1
                 THEN Cardinality({i \in SortShare(s, rank) :
                           V2P(p[s][i].i, N_PIPELINE) = x - cp_stride * rank})
                 ELSE coarse_partition[x]
    BY <2>2 DEF coarse_count_pipeline_scalar
  <2>4. SortShare(s, rank) = Of(n, rank)
    BY DEF SortShare, Of, Share
  <2>5. CASE r # rank
    BY <2>2, <2>3, <2>5
  <2>6. CASE r = rank
    <3>1. c[x] = Cardinality({i \in Of(n, rank) : V2P(p[s][i].i, N_PIPELINE) = k})
      BY <2>2, <2>3, <2>4, <2>6
    <3>2. Of(n, rank) \subseteq 0 .. n - 1
      <4>1. n \in Nat /\ N_PIPELINE \in Nat \ {0} /\ rank \in 0 .. N_PIPELINE /\ 1 \in Nat \ {0}
        BY <2>1, DeckIs DEF Settled
      <4> QED BY <4>1, ShareIn DEF Of
    <3>3. \A i \in Of(n, rank) : QKey(p[s])[i] = V2P(p[s][i].i, N_PIPELINE)
      BY <3>2, KeysAre
    <3>4. {i \in Of(n, rank) : V2P(p[s][i].i, N_PIPELINE) = k} = {i \in Of(n, rank) : QKey(p[s])[i] = k}
      BY <3>3
    <3> QED BY <2>6, <3>1, <3>4 DEF Tally
  <2> QED BY <2>5, <2>6
<1> QED BY <1>1, <1>2

(* The shares of the sort, of a list of n.                                 *)
LEMMA OfIs ==
  ASSUME deck \in Decks, NEW n \in Nat
  PROVE  /\ \A r \in Pipelines : Of(n, r) \subseteq 0 .. n - 1
         /\ \A i \in 0 .. n - 1 : \E r \in Pipelines : i \in Of(n, r)
         /\ \A r, t \in Pipelines : \A h \in Of(n, r), i \in Of(n, t) : r < t => h < i
<1>1. N_PIPELINE \in Nat \ {0} /\ 1 \in Nat \ {0}
  BY DeckIs
<1>2. \A r \in Pipelines : r \in 0 .. N_PIPELINE /\ r \in 0 .. N_PIPELINE - 1
  BY <1>1 DEF Pipelines
<1>3. \A r \in Pipelines : Of(n, r) \subseteq 0 .. n - 1
  BY <1>1, <1>2, ShareIn DEF Of
<1>4. \A i \in 0 .. n - 1 : \E r \in Pipelines : i \in Of(n, r)
  BY <1>1, SortShares DEF Of, Pipelines
<1>5. \A r, t \in 0 .. N_PIPELINE : \A h \in Of(n, r), i \in Of(n, t) : r < t => h < i
  BY <1>1, SortShares DEF Of
<1> QED BY <1>2, <1>3, <1>4, <1>5

(* The counts, once they are all there, become the places where the        *)
(* particles of a subsort that a rank has begin.                           *)
LEMMA CoarsePartitionIs ==
  ASSUME deck \in Decks, NEW q, NEW n, Settled(q, n),
         DOMAIN coarse_partition = 0 .. cp_stride * N_PIPELINE,
         \A k, r \in Pipelines : coarse_partition[CpAt(k, r)] = Tally(q, n, k, r)
  PROVE  /\ DOMAIN CoarsePartition = DOMAIN coarse_partition
         /\ \A k, r \in Pipelines : CoarsePartition[CpAt(k, r)] = Start(q, n, k, r)
<1> DEFINE cell == {<<x, r>> : x \in 0 .. N_PIPELINE - 1, r \in 0 .. N_PIPELINE - 1}
           at(c) == c[1] + cp_stride * c[2]
           before(c) == {b \in cell : b[1] < c[1] \/ (b[1] = c[1] /\ b[2] < c[2])}
           g == [b \in cell |-> coarse_partition[at(b)]]
           key == QKey(q)
           C == [b \in cell |-> {i \in Of(n, b[2]) : key[i] = b[1]}]
<1>1. /\ DOMAIN CoarsePartition = DOMAIN coarse_partition
      /\ \A x \in DOMAIN coarse_partition :
           CoarsePartition[x] = IF \E c \in cell : at(c) = x
                                  THEN Sum(before(CHOOSE c \in cell : at(c) = x), g)
                                  ELSE coarse_partition[x]
  BY DEF CoarsePartition
<1>2. /\ n \in Nat /\ N_PIPELINE \in Nat \ {0} /\ DOMAIN key = 0 .. n - 1
      /\ \A i \in 0 .. n - 1 : key[i] \in Int
  <2>1. n \in Nat /\ N_PIPELINE \in Nat \ {0}
    BY DeckIs DEF Settled
  <2>2. key \in Keys(n)
    BY KeysAre
  <2> QED BY <2>1, <2>2 DEF Keys
<1>3. cell = (0 .. N_PIPELINE - 1) \X (0 .. N_PIPELINE - 1)
  OBVIOUS
<1>4. \A b \in cell : b[1] \in Pipelines /\ b[2] \in Pipelines /\ b = <<b[1], b[2]>>
  BY <1>3 DEF Pipelines
<1>5. \A b \in cell : at(b) = CpAt(b[1], b[2])
  BY DEF CpAt
<1>9. \A b \in cell : \A i : i \in C[b] <=> i \in Of(n, b[2]) /\ key[i] = b[1]
  <2> HIDE DEF cell, key
  <2> QED OBVIOUS
<1>10. ASSUME NEW b \in cell PROVE g[b] = Cardinality(C[b])
  <2>1. g[b] = coarse_partition[at(b)]
    <3> HIDE DEF cell, at
    <3> QED OBVIOUS
  <2>2. g[b] = coarse_partition[CpAt(b[1], b[2])]
    BY <1>5, <2>1
  <2>3. b[1] \in Pipelines /\ b[2] \in Pipelines
    BY <1>4
  <2>4. g[b] = Tally(q, n, b[1], b[2])
    <3> HIDE DEF cell, g
    <3> QED BY <2>2, <2>3
  <2>5. C[b] = {i \in Of(n, b[2]) : key[i] = b[1]}
    <3> HIDE DEF cell, key
    <3> QED OBVIOUS
  <2> HIDE DEF g, C, cell
  <2> QED BY <2>4, <2>5 DEF Tally
<1> HIDE DEF cell, C, g
<1>6. \A b \in cell : C[b] \subseteq 0 .. n - 1 /\ IsFiniteSet(C[b])
  <2> SUFFICES ASSUME NEW b \in cell PROVE C[b] \subseteq 0 .. n - 1 /\ IsFiniteSet(C[b])
    BY Zenon
  <2>1. C[b] \subseteq 0 .. n - 1
    BY <1>2, <1>4, <1>9, OfIs
  <2> QED BY <1>2, <2>1, Few
<1>7. \A a, b \in cell : a # b => C[a] \cap C[b] = {}
  <2> SUFFICES ASSUME NEW a \in cell, NEW b \in cell, NEW i, i \in C[a], i \in C[b] PROVE a = b
    BY Zenon
  <2>1. i \in Of(n, a[2]) /\ i \in Of(n, b[2]) /\ key[i] = a[1] /\ key[i] = b[1]
    BY <1>9
  <2>2. i \in Int
    BY <1>2, <1>6
  <2>3. a[2] = b[2]
    <3>1. a[2] \in Int /\ b[2] \in Int
      BY <1>2, <1>4 DEF Pipelines
    <3>2. ~ (a[2] < b[2]) /\ ~ (b[2] < a[2])
      BY <1>2, <1>4, <2>1, <2>2, OfIs
    <3> QED BY <3>1, <3>2
  <2>4. a[1] = b[1] /\ a = <<a[1], a[2]>> /\ b = <<b[1], b[2]>>
    BY <1>4, <2>1
  <2> QED BY <2>3, <2>4
<1>8. ASSUME NEW k \in Pipelines, NEW r \in Pipelines
      PROVE  CoarsePartition[CpAt(k, r)] = Start(q, n, k, r)
  <2> DEFINE c0 == <<k, r>>
             B == before(c0)
  <2>1. c0 \in cell /\ at(c0) = CpAt(k, r)
    BY DEF Pipelines, CpAt, cell
  <2>2. CpAt(k, r) \in DOMAIN coarse_partition
    BY Strides DEF Pipelines
  <2>3. \A c \in cell : at(c) = CpAt(k, r) => c = c0
    <3> TAKE c \in cell
    <3>1. c[1] \in 0 .. N_PIPELINE - 1 /\ c[2] \in 0 .. N_PIPELINE - 1
      BY <1>4 DEF Pipelines
    <3>2. k \in 0 .. N_PIPELINE - 1 /\ r \in 0 .. N_PIPELINE - 1
      BY DEF Pipelines
    <3>5. \A l, t \in 0 .. N_PIPELINE - 1 : CpAt(l, t) = CpAt(k, r) <=> l = k /\ t = r
      BY <3>2, CellsApart
    <3>3. CpAt(c[1], c[2]) = CpAt(k, r) => c[1] = k /\ c[2] = r
      BY <3>1, <3>5
    <3>4. at(c) = CpAt(c[1], c[2])
      BY <1>5
    <3> QED BY <1>4, <3>3, <3>4
  <2>4. (CHOOSE c \in cell : at(c) = CpAt(k, r)) = c0
    <3> HIDE DEF cell, at, c0
    <3> QED BY <2>1, <2>3
  <2>5. CoarsePartition[CpAt(k, r)] = Sum(B, g)
    <3>1. \E c \in cell : at(c) = CpAt(k, r)
      <4> HIDE DEF cell, at, c0
      <4> QED BY <2>1
    <3>2. CoarsePartition[CpAt(k, r)] = Sum(before(CHOOSE c \in cell : at(c) = CpAt(k, r)), g)
      <4> HIDE DEF cell, at, c0, before, g
      <4> QED BY <1>1, <2>2, <3>1
    <3> HIDE DEF cell, at, c0, before, g
    <3> QED BY <3>2, <2>4
  <2>6. B \subseteq cell /\ IsFiniteSet(B)
    <3>1. IsFiniteSet(0 .. N_PIPELINE - 1)
      BY <1>2, FS_Interval
    <3>2. IsFiniteSet((0 .. N_PIPELINE - 1) \X (0 .. N_PIPELINE - 1))
      BY <3>1, FS_Product, Zenon
    <3>4. IsFiniteSet(cell)
      BY <1>3, <3>2
    <3>3. B \in SUBSET cell
      OBVIOUS
    <3> HIDE DEF cell, B
    <3> QED BY <3>4, <3>3, FS_Subset
  <2> DEFINE U == UNION {C[x] : x \in B}
             A1 == {h \in DOMAIN key : key[h] < k}
             A2 == {h \in DOMAIN key : key[h] = k /\ InEarlier(n, h, r)}
  <2>7. Sum(B, g) = Cardinality(U)
    <3>1. \A x \in B : IsFiniteSet(C[x]) /\ g[x] = Cardinality(C[x])
      <4> HIDE DEF B
      <4> QED BY <2>6, <1>6, <1>10
    <3>2. \A x, y \in B : x # y => C[x] \cap C[y] = {}
      <4> HIDE DEF cell, B, C, g
      <4> QED BY <2>6, <1>7
    <3> HIDE DEF B
    <3>3. IsFiniteSet(B)
      BY <2>6
    <3>4. Sum(B, g) = Cardinality(UNION {C[x] : x \in B})
      <4> HIDE DEF U, at, before, key, c0
      <4> QED BY <3>1, <3>2, <3>3, SumIs
    <3> QED BY <3>4
  <2>8. /\ \A i : i \in U <=> \E b \in B : i \in C[b]
        /\ \A i : i \in A1 <=> i \in 0 .. n - 1 /\ key[i] < k
        /\ \A i : i \in A2 <=> i \in 0 .. n - 1 /\ key[i] = k /\ InEarlier(n, i, r)
        /\ \A b \in B : b \in cell /\ (b[1] < k \/ (b[1] = k /\ b[2] < r))
        /\ \A b \in cell : \A i : i \in C[b] <=> i \in Of(n, b[2]) /\ key[i] = b[1]
    <3>1. \A i : i \in U <=> \E b \in B : i \in C[b]
      <4> HIDE DEF B, C
      <4> QED OBVIOUS
    <3>2. \A i : i \in A1 <=> i \in 0 .. n - 1 /\ key[i] < k
      <4> HIDE DEF key
      <4> QED BY <1>2
    <3>3. \A i : i \in A2 <=> i \in 0 .. n - 1 /\ key[i] = k /\ InEarlier(n, i, r)
      <4> HIDE DEF key
      <4> QED BY <1>2
    <3>4. \A b \in B : b \in cell /\ (b[1] < k \/ (b[1] = k /\ b[2] < r))
      OBVIOUS
    <3> HIDE DEF U, A1, A2, B, key
    <3> QED BY <1>9, <3>1, <3>2, <3>3, <3>4
  <2>14. \A l \in Pipelines : \A t \in Pipelines :
           /\ <<l, t>> \in cell
           /\ l < k \/ (l = k /\ t < r) => <<l, t>> \in B
    BY DEF Pipelines, cell
  <2>15. \A b \in cell : b[1] \in 0 .. N_PIPELINE - 1 /\ b[2] \in 0 .. N_PIPELINE - 1
    BY <1>4 DEF Pipelines
  <2>16. k \in 0 .. N_PIPELINE - 1 /\ r \in 0 .. N_PIPELINE - 1
    BY DEF Pipelines
  <2>17. \A i \in 0 .. n - 1 : key[i] \in Pipelines
    <3>1. \A i \in 0 .. n - 1 : key[i] \in 0 .. N_PIPELINE - 1
      BY KeysAre
    <3> QED BY <3>1 DEF Pipelines
  <2> HIDE DEF U, A1, A2, B, key
  <2>9. ASSUME NEW i \in U PROVE i \in A1 \/ i \in A2
    <3>1. PICK b \in B : i \in C[b]
      BY <2>8
    <3>2. b \in cell /\ (b[1] < k \/ (b[1] = k /\ b[2] < r)) /\ i \in Of(n, b[2]) /\ key[i] = b[1]
      BY <2>8, <3>1
    <3>3. i \in 0 .. n - 1 /\ b[2] \in 0 .. N_PIPELINE - 1
      BY <1>6, <2>15, <3>1, <3>2
    <3>4. CASE b[1] < k
      BY <2>8, <3>2, <3>3, <3>4
    <3>5. CASE b[1] = k /\ b[2] < r
      <4>1. b[2] \in 0 .. r - 1
        BY <1>2, <2>16, <3>3, <3>5
      <4>2. InEarlier(n, i, r)
        BY <3>2, <4>1 DEF InEarlier
      <4> QED BY <2>8, <3>2, <3>3, <3>5, <4>2
    <3> QED BY <3>2, <3>4, <3>5
  <2>10. ASSUME NEW i, i \in A1 \/ i \in A2 PROVE i \in U
    <3>1. CASE i \in A1
      <4>1. i \in 0 .. n - 1 /\ key[i] < k /\ key[i] \in Pipelines
        BY <2>8, <2>17, <3>1
      <4>2. PICK t \in Pipelines : i \in Of(n, t)
        BY <1>2, <4>1, OfIs
      <4>3. <<key[i], t>> \in B /\ <<key[i], t>> \in cell
        BY <2>14, <4>1, <4>2
      <4>4. i \in C[<<key[i], t>>]
        BY <2>8, <4>2, <4>3
      <4> QED BY <2>8, <4>3, <4>4
    <3>2. CASE i \in A2
      <4>1. i \in 0 .. n - 1 /\ key[i] = k /\ InEarlier(n, i, r)
        BY <2>8, <3>2
      <4>2. PICK t \in 0 .. r - 1 : i \in Of(n, t)
        BY <4>1 DEF InEarlier
      <4>3. t \in Pipelines /\ t < r
        BY <1>2, <2>16 DEF Pipelines
      <4>4. <<k, t>> \in B /\ <<k, t>> \in cell
        BY <2>14, <4>3
      <4>5. i \in C[<<k, t>>]
        BY <2>8, <4>1, <4>2, <4>4
      <4> QED BY <2>8, <4>4, <4>5
    <3> QED BY <2>10, <3>1, <3>2
  <2>11. A1 \cap A2 = {} /\ U \subseteq 0 .. n - 1 /\ U = A1 \cup A2
    <3>1. U = A1 \cup A2
      BY <2>9, <2>10
    <3>2. A1 \subseteq 0 .. n - 1 /\ A2 \subseteq 0 .. n - 1
      BY <2>8
    <3>3. A1 \cap A2 = {}
      <4> SUFFICES ASSUME NEW i \in A1, i \in A2 PROVE FALSE
        OBVIOUS
      <4>1. key[i] < k /\ key[i] = k /\ k \in Int
        BY <2>8, <2>16
      <4> QED BY <4>1
    <3> QED BY <3>1, <3>2, <3>3
  <2>12. Cardinality(U) = Cardinality(A1) + Cardinality(A2)
    BY <1>2, <2>11, TwoParts
  <2>13. Start(q, n, k, r) = Cardinality(A1) + Cardinality(A2)
    BY DEF Start, Less, A1, A2, key
  <2> QED BY <2>5, <2>7, <2>12, <2>13
<1> QED BY <1>1, <1>8

(* A rank's particles go to their places among all.                        *)
LEMMA CoarseSortIs ==
  ASSUME deck \in Decks, NEW s \in Species, Settled(p[s], np(s)), NEW rank \in Pipelines,
         DOMAIN aux = 0 .. np(s) - 1,
         \A k, r \in Pipelines : coarse_partition[CpAt(k, r)] = Start(p[s], np(s), k, r)
  PROVE  LET a == coarse_sort_pipeline_scalar(s, rank)
             key == QKey(p[s])
         IN /\ DOMAIN a = 0 .. np(s) - 1
            /\ \A i \in Of(np(s), rank) : a[Place(key, i)] = p[s][i]
            /\ \A j \in 0 .. np(s) - 1 :
                 (\A i \in Of(np(s), rank) : Place(key, i) # j) => a[j] = aux[j]
<1> DEFINE n == np(s)
           src == p[s]
           key == QKey(src)
           share == Of(n, rank)
           qq == [i \in share |-> V2P(src[i].i, N_PIPELINE)]
           at == [i \in share |-> coarse_partition[cp_stride * rank + qq[i]]
                        + Cardinality({h \in share : h < i /\ qq[h] = qq[i]})]
           a == Scatter(aux, src, at)
<1>1. coarse_sort_pipeline_scalar(s, rank) = a
  BY DEF coarse_sort_pipeline_scalar, SortShare, Of, Share
<1>2. n \in Nat /\ N_PIPELINE \in Nat \ {0} /\ key \in Keys(n) /\ DOMAIN key = 0 .. n - 1
      /\ share \subseteq 0 .. n - 1 /\ rank \in Int
  <2>1. n \in Nat /\ N_PIPELINE \in Nat \ {0}
    BY DeckIs DEF Settled
  <2>2. key \in Keys(n)
    BY KeysAre
  <2>3. share \subseteq 0 .. n - 1
    BY <2>1, OfIs
  <2>4. rank \in Int
    BY <2>1 DEF Pipelines
  <2> QED BY <2>1, <2>2, <2>3, <2>4 DEF Keys
<1>3. \A i \in share : qq[i] = key[i] /\ key[i] \in Pipelines /\ key[i] \in Int
  <2>1. \A i \in 0 .. n - 1 : key[i] = V2P(src[i].i, N_PIPELINE) /\ key[i] \in 0 .. N_PIPELINE - 1
    BY KeysAre
  <2> QED BY <1>2, <2>1 DEF Pipelines
<1>4. DOMAIN at = share
  OBVIOUS
<1>5. ASSUME NEW i \in share PROVE at[i] = Place(key, i)
  <2> DEFINE k == key[i]
             A == {h \in DOMAIN key : key[h] = k /\ InEarlier(n, h, rank)}
             B == {h \in share : h < i /\ key[h] = k}
             D == {h \in DOMAIN key : h < i /\ key[h] = k}
  <2>1. at[i] = coarse_partition[cp_stride * rank + key[i]]
                  + Cardinality({h \in share : h < i /\ qq[h] = qq[i]})
    BY <1>3
  <2>2. {h \in share : h < i /\ qq[h] = qq[i]} = B
    BY <1>3
  <2>3. cp_stride * rank + k = CpAt(k, rank)
    <3>1. cp_stride \in Int /\ k \in Int /\ rank \in Int
      <4>1. 0 \in 0 .. N_PIPELINE - 1
        BY <1>2
      <4>2. cp_stride \in Nat
        BY <4>1, Strides
      <4>3. k \in Int
        BY <1>3
      <4> HIDE DEF k
      <4> QED BY <1>2, <4>2, <4>3
    <3> HIDE DEF k
    <3> QED BY <3>1 DEF CpAt
  <2>4. coarse_partition[CpAt(k, rank)] = Less(key, k) + Cardinality(A)
    BY <1>3 DEF Start
  <2>5. D = A \cup B
    <3>1. \A h \in 0 .. n - 1 : h < i => InEarlier(n, h, rank) \/ h \in share
      <4> SUFFICES ASSUME NEW h \in 0 .. n - 1, h < i PROVE InEarlier(n, h, rank) \/ h \in share
        OBVIOUS
      <4>1. PICK t \in Pipelines : h \in Of(n, t)
        BY <1>2, OfIs
      <4>2. t \in Int /\ 0 <= t /\ i \in Int /\ h \in Int
        BY <1>2 DEF Pipelines
      <4>3. ~ (rank < t)
        <5> SUFFICES ASSUME rank < t PROVE FALSE
          OBVIOUS
        <5>1. i < h
          BY <1>2, <4>1, OfIs
        <5> QED BY <4>2, <5>1
      <4> QED BY <1>2, <4>1, <4>2, <4>3 DEF InEarlier
    <3>2. \A h \in 0 .. n - 1 : InEarlier(n, h, rank) => h < i /\ h \notin share
      <4> SUFFICES ASSUME NEW h \in 0 .. n - 1, NEW t \in 0 .. rank - 1, h \in Of(n, t)
                   PROVE  h < i /\ h \notin share
        BY DEF InEarlier
      <4>1. t \in Pipelines /\ t < rank
        BY <1>2 DEF Pipelines
      <4>2. h < i
        BY <1>2, <4>1, OfIs
      <4>3. h \in share => h < h
        BY <1>2, <4>1, OfIs
      <4> QED BY <4>2, <4>3
    <3> HIDE DEF key, share, k
    <3> QED BY <1>2, <3>1, <3>2
  <2>6. A \cap B = {}
    <3> SUFFICES ASSUME NEW h \in share, InEarlier(n, h, rank) PROVE FALSE
      OBVIOUS
    <3>1. PICK t \in 0 .. rank - 1 : h \in Of(n, t)
      BY DEF InEarlier
    <3>2. t \in Pipelines /\ t < rank /\ h \in Int
      BY <1>2 DEF Pipelines
    <3>3. h < h
      BY <1>2, <3>1, <3>2, OfIs
    <3> QED BY <3>2, <3>3
  <2>7. D \subseteq 0 .. n - 1
    BY <1>2
  <2>8. Cardinality(D) = Cardinality(A) + Cardinality(B)
    <3> HIDE DEF A, B, D
    <3> QED BY <1>2, <2>5, <2>6, <2>7, TwoParts
  <2>9. Place(key, i) = Less(key, k) + Cardinality(D)
    <3>1. i \in 0 .. n - 1
      BY <1>2
    <3>2. Place(key, i) = Less(key, k) + Alike(key, i)
      BY <1>2, <3>1, PlaceSplit
    <3> QED BY <3>2 DEF Alike
  <2>10. at[i] = coarse_partition[CpAt(k, rank)] + Cardinality(B)
    BY <2>1, <2>2, <2>3
  <2>11. Less(key, k) \in Int /\ Cardinality(A) \in Int /\ Cardinality(B) \in Int
    <3>1. A \subseteq 0 .. n - 1 /\ B \subseteq 0 .. n - 1
      BY <1>2
    <3>2. Cardinality(A) \in Nat /\ Cardinality(B) \in Nat
      <4> HIDE DEF A, B
      <4> QED BY <1>2, <3>1, Few
    <3>3. Less(key, k) \in 0 .. n
      BY <1>2, <1>3, LessOrder
    <3> QED BY <3>2, <3>3
  <2> HIDE DEF at, A, B, D, k, key
  <2> QED BY <2>4, <2>8, <2>9, <2>10, <2>11
<1> HIDE DEF at, key, share, src, n
<1>6. DOMAIN at \subseteq 0 .. n - 1 /\ \A i \in DOMAIN at : at[i] = Place(key, i)
  BY <1>2, <1>4, <1>5
<1>7. DOMAIN aux = 0 .. n - 1
  BY DEF n
<1>8. /\ DOMAIN a = 0 .. n - 1
      /\ \A i \in DOMAIN at : a[Place(key, i)] = src[i]
      /\ \A j \in 0 .. n - 1 : (\A i \in DOMAIN at : Place(key, i) # j) => a[j] = aux[j]
  <2>1. Placing(n, key, at)
    BY <1>2, <1>6 DEF Placing
  <2>2. Lands(n, key, aux, src, at, a)
    BY <1>7, <2>1, ScatterLands
  <2> QED BY <2>2 DEF Lands
<1> HIDE DEF a
<1>9. /\ DOMAIN a = 0 .. n - 1
      /\ \A i \in share : a[Place(key, i)] = src[i]
      /\ \A j \in 0 .. n - 1 : (\A i \in share : Place(key, i) # j) => a[j] = aux[j]
  BY <1>4, <1>8
<1> QED BY <1>1, <1>9 DEF key, share, src, n

-----------------------------------------------------------------------------
(* Lists of particles, and what reordering them keeps.                     *)

Whole(x) == x = [id |-> x.id, i |-> x.i, t |-> x.t, c |-> x.c]
List(q, n) ==
  /\ n \in Nat /\ DOMAIN q = 0 .. n - 1
  /\ \A i \in 0 .. n - 1 : Whole(q[i])
  /\ \A i, j \in 0 .. n - 1 : q[i].id = q[j].id => i = j
Ids(q) == {q[i].id : i \in DOMAIN q}
Plain(q) == q = [i \in DOMAIN q |-> q[i]]

(* f says where each particle of a went in b.                              *)
Reorders(a, b, n, f) ==
  /\ DOMAIN b = 0 .. n - 1 /\ f \in [0 .. n - 1 -> 0 .. n - 1]
  /\ \A i, j \in 0 .. n - 1 : f[i] = f[j] => i = j
  /\ \A k \in 0 .. n - 1 : \E i \in 0 .. n - 1 : f[i] = k
  /\ \A i \in 0 .. n - 1 : b[f[i]] = a[i]
Reordered(a, b, n) == \E f : Reorders(a, b, n, f)

(* Reordered, a list is one still, with the same particles.                *)
LEMMA ReorderedList ==
  ASSUME NEW n, NEW a, NEW b, Reordered(a, b, n), List(a, n)
  PROVE  /\ List(b, n) /\ Ids(b) = Ids(a)
         /\ \A j \in 0 .. n - 1 : \E i \in 0 .. n - 1 : b[j] = a[i]
         /\ \A i \in 0 .. n - 1 : \E j \in 0 .. n - 1 : b[j] = a[i]
<1>1. PICK f : Reorders(a, b, n, f)
  BY DEF Reordered
<1>2. /\ DOMAIN b = 0 .. n - 1 /\ \A i \in 0 .. n - 1 : f[i] \in 0 .. n - 1
      /\ \A k \in 0 .. n - 1 : \E i \in 0 .. n - 1 : f[i] = k
      /\ \A i \in 0 .. n - 1 : b[f[i]] = a[i]
  BY <1>1 DEF Reorders
<1>3. /\ n \in Nat /\ DOMAIN a = 0 .. n - 1 /\ \A i \in 0 .. n - 1 : Whole(a[i])
      /\ \A i, j \in 0 .. n - 1 : a[i].id = a[j].id => i = j
  BY DEF List
<1>4. \A j \in 0 .. n - 1 : \E i \in 0 .. n - 1 : b[j] = a[i] /\ j = f[i]
  BY <1>2
<1>5. \A j \in 0 .. n - 1 : Whole(b[j])
  BY <1>3, <1>4
<1>6. ASSUME NEW j \in 0 .. n - 1, NEW k \in 0 .. n - 1, b[j].id = b[k].id PROVE j = k
  <2>1. PICK g \in 0 .. n - 1 : b[j] = a[g] /\ j = f[g]
    BY <1>4
  <2>2. PICK h \in 0 .. n - 1 : b[k] = a[h] /\ k = f[h]
    BY <1>4
  <2> QED BY <1>3, <1>6, <2>1, <2>2
<1>7. \A i \in 0 .. n - 1 : \E j \in 0 .. n - 1 : b[j] = a[i]
  BY <1>2
<1>8. Ids(b) = Ids(a)
  <2>1. ASSUME NEW j \in 0 .. n - 1 PROVE b[j].id \in {a[i].id : i \in 0 .. n - 1}
    <3>1. PICK i \in 0 .. n - 1 : b[j] = a[i]
      BY <1>4
    <3> QED BY <3>1
  <2>2. ASSUME NEW i \in 0 .. n - 1 PROVE a[i].id \in {b[j].id : j \in 0 .. n - 1}
    <3>1. PICK j \in 0 .. n - 1 : b[j] = a[i]
      BY <1>7
    <3>2. a[i].id = b[j].id
      BY <3>1
    <3> QED BY <3>2
  <2>3. Ids(a) = {a[i].id : i \in 0 .. n - 1} /\ Ids(b) = {b[j].id : j \in 0 .. n - 1}
    BY <1>2, <1>3 DEF Ids
  <2> QED BY <2>1, <2>2, <2>3
<1> QED BY <1>2, <1>3, <1>4, <1>5, <1>6, <1>7, <1>8 DEF List

(* As many particles are in a voxel as before.                             *)
InVoxel(q, n, v) == Cardinality({j \in 0 .. n - 1 : q[j].i = v})
(* A reordering leaves as many particles in every voxel.                   *)
LEMMA ReorderedCount ==
  ASSUME NEW n \in Nat, NEW a, NEW b, Reordered(a, b, n), NEW v
  PROVE  InVoxel(b, n, v) = InVoxel(a, n, v)
<1> DEFINE H == {h \in 0 .. n - 1 : a[h].i = v}
           J == {j \in 0 .. n - 1 : b[j].i = v}
<1>1. PICK f : Reorders(a, b, n, f)
  BY DEF Reordered
<1>2. /\ \A i \in 0 .. n - 1 : f[i] \in 0 .. n - 1
      /\ \A i, j \in 0 .. n - 1 : f[i] = f[j] => i = j
      /\ \A k \in 0 .. n - 1 : \E i \in 0 .. n - 1 : f[i] = k
      /\ \A i \in 0 .. n - 1 : b[f[i]] = a[i]
  BY <1>1 DEF Reorders
<1> DEFINE g == [h \in H |-> f[h]]
<1>3. g \in [H -> J]
  BY <1>2
<1>4. \A x, y \in H : g[x] = g[y] => x = y
  BY <1>2
<1>5. \A j \in J : \E h \in H : g[h] = j
  <2> SUFFICES ASSUME NEW j \in 0 .. n - 1, b[j].i = v PROVE \E h \in H : g[h] = j
    OBVIOUS
  <2>1. PICK h \in 0 .. n - 1 : f[h] = j
    BY <1>2
  <2>2. h \in H
    BY <1>2, <2>1
  <2>3. g[h] = j
    BY <2>1, <2>2
  <2> HIDE DEF g, H
  <2> QED BY <2>2, <2>3
<1>6. IsFiniteSet(H)
  <2>1. H \subseteq 0 .. n - 1
    OBVIOUS
  <2> HIDE DEF H
  <2> QED BY <2>1, Few
<1> HIDE DEF H, J, g
<1>7. ExistsBijection(H, J)
  BY <1>3, <1>4, <1>5 DEF ExistsBijection, Bijection, Injection, Surjection, IsInjective
<1>8. Cardinality(J) = Cardinality(H)
  BY <1>6, <1>7, FS_Bijection
<1> QED BY <1>8 DEF H, J, InVoxel

(* Nothing moved, or two exchanged.                                        *)
LEMMA ReorderedSame ==
  ASSUME NEW n, NEW a, DOMAIN a = 0 .. n - 1
  PROVE  Reordered(a, a, n)
<1> DEFINE f == [i \in 0 .. n - 1 |-> i]
<1>1. Reorders(a, a, n, f)
  BY DEF Reorders
<1> HIDE DEF f
<1> QED BY <1>1 DEF Reordered

Exchange(a, i, j) == [a EXCEPT ![i] = a[j], ![j] = a[i]]
Exchanged(n, a, i, j, b) ==
  /\ DOMAIN b = 0 .. n - 1 /\ b[i] = a[j] /\ b[j] = a[i]
  /\ \A k \in 0 .. n - 1 : k # i /\ k # j => b[k] = a[k]
(* Exchange swaps two particles and touches no other.                      *)
LEMMA ExchangeIs ==
  ASSUME NEW n, NEW a, DOMAIN a = 0 .. n - 1, NEW i \in 0 .. n - 1, NEW j \in 0 .. n - 1
  PROVE  Exchanged(n, a, i, j, Exchange(a, i, j))
BY DEF Exchange, Exchanged

(* A swap of a reordered list is a reordering.                             *)
LEMMA ReorderedExchange ==
  ASSUME NEW n, NEW q, NEW a, Reordered(q, a, n), NEW i \in 0 .. n - 1, NEW j \in 0 .. n - 1
  PROVE  Reordered(q, Exchange(a, i, j), n)
<1> DEFINE b == Exchange(a, i, j)
<1>1. PICK f : Reorders(q, a, n, f)
  BY DEF Reordered
<1>2. /\ DOMAIN a = 0 .. n - 1
      /\ \A k \in 0 .. n - 1 : f[k] \in 0 .. n - 1
      /\ \A k, l \in 0 .. n - 1 : f[k] = f[l] => k = l
      /\ \A k \in 0 .. n - 1 : \E l \in 0 .. n - 1 : f[l] = k
      /\ \A k \in 0 .. n - 1 : a[f[k]] = q[k]
  BY <1>1 DEF Reorders
<1>3. /\ DOMAIN b = 0 .. n - 1 /\ b[i] = a[j] /\ b[j] = a[i]
      /\ \A k \in 0 .. n - 1 : k # i /\ k # j => b[k] = a[k]
  <2>1. Exchanged(n, a, i, j, b)
    BY <1>2, ExchangeIs
  <2> QED BY <2>1 DEF Exchanged
<1> DEFINE T(k) == IF k = i THEN j ELSE IF k = j THEN i ELSE k
           g == [k \in 0 .. n - 1 |-> T(f[k])]
<1>4. g \in [0 .. n - 1 -> 0 .. n - 1] /\ \A k \in 0 .. n - 1 : g[k] = T(f[k])
  BY <1>2
<1>5. \A k, l \in 0 .. n - 1 : g[k] = g[l] => k = l
  <2> TAKE k, l \in 0 .. n - 1
  <2> HAVE g[k] = g[l]
  <2>1. T(f[k]) = T(f[l])
    BY <1>4, Zenon
  <2>2. f[k] = f[l]
    BY <2>1
  <2> QED BY <1>2, <2>2, Zenon
<1>6. \A k \in 0 .. n - 1 : \E l \in 0 .. n - 1 : g[l] = k
  <2> SUFFICES ASSUME NEW k \in 0 .. n - 1 PROVE \E l \in 0 .. n - 1 : g[l] = k
    OBVIOUS
  <2>1. PICK l \in 0 .. n - 1 : f[l] = T(k)
    BY <1>2
  <2>2. g[l] = k
    BY <1>4, <2>1
  <2> QED BY <2>2
<1> HIDE DEF b, g
<1>7. \A k \in 0 .. n - 1 : b[g[k]] = q[k]
  <2> SUFFICES ASSUME NEW k \in 0 .. n - 1 PROVE b[g[k]] = q[k]
    OBVIOUS
  <2>1. g[k] = T(f[k]) /\ f[k] \in 0 .. n - 1 /\ a[f[k]] = q[k]
    BY <1>2, <1>4
  <2>2. CASE f[k] = i
    BY <1>3, <2>1, <2>2
  <2>3. CASE f[k] # i /\ f[k] = j
    BY <1>3, <2>1, <2>3
  <2>4. CASE f[k] # i /\ f[k] # j
    BY <1>3, <2>1, <2>4
  <2> QED BY <2>2, <2>3, <2>4
<1>8. Reorders(q, b, n, g)
  BY <1>3, <1>4, <1>5, <1>6, <1>7 DEF Reorders
<1> QED BY <1>8 DEF Reordered, b

-----------------------------------------------------------------------------
(* What a sort leaves.                                                     *)

Bracketed(q, part) ==
  \A v \in 0 .. n_voxel - 2 : {i \in DOMAIN q : q[i].i = v} = part[v] .. part[v + 1] - 1
SortedOut(src, n, q, part) ==
  Reordered(src, q, n) /\ DOMAIN part = 0 .. n_voxel /\ Bracketed(q, part)

(* With every particle at its place and every count in the partition.      *)
LEMMA PlacedIsSorted ==
  ASSUME deck \in Decks, NEW src, NEW n, Settled(src, n), NEW q, DOMAIN q = 0 .. n - 1,
         \A i \in 0 .. n - 1 : q[Place(VKey(src), i)] = src[i],
         NEW part, DOMAIN part = 0 .. n_voxel,
         \A v \in 0 .. n_voxel - 1 : part[v] = Less(VKey(src), v)
  PROVE  SortedOut(src, n, q, part)
<1> DEFINE key == VKey(src)
<1>1. n \in Nat /\ key \in Keys(n) /\ \A i \in 0 .. n - 1 : key[i] = src[i].i
  BY KeysAre DEF Settled
<1> DEFINE f == [i \in 0 .. n - 1 |-> Place(key, i)]
<1>2. /\ \A i \in 0 .. n - 1 : Place(key, i) \in 0 .. n - 1
      /\ \A i, j \in 0 .. n - 1 : Place(key, i) = Place(key, j) => i = j
      /\ \A k \in 0 .. n - 1 : \E i \in 0 .. n - 1 : Place(key, i) = k
  BY <1>1, PlaceIs
<1> HIDE DEF key
<1>3. \A i \in 0 .. n - 1 : f[i] = Place(key, i)
  OBVIOUS
<1>4. f \in [0 .. n - 1 -> 0 .. n - 1]
  BY <1>2
<1>5. \A i \in 0 .. n - 1 : q[Place(key, i)] = src[i]
  BY DEF key
<1> HIDE DEF f
<1>6. Reorders(src, q, n, f)
  BY <1>2, <1>3, <1>4, <1>5 DEF Reorders
<1>7. ASSUME NEW v \in 0 .. n_voxel - 2
      PROVE  {i \in DOMAIN q : q[i].i = v} = part[v] .. part[v + 1] - 1
  <2>1. n_voxel \in Nat
    BY BoxIs
  <2>2. v \in Int /\ v + 1 \in Int /\ v \in 0 .. n_voxel - 1 /\ v + 1 \in 0 .. n_voxel - 1
    BY <2>1
  <2>3. part[v] = Less(key, v) /\ part[v + 1] = Less(key, v + 1)
    BY <2>2 DEF key
  <2>4. Less(key, v) \in 0 .. n /\ Less(key, v + 1) \in 0 .. n
    BY <1>1, <2>2, LessOrder
  <2>5. \A j \in 0 .. n - 1 : q[j].i = v <=> j \in Less(key, v) .. Less(key, v + 1) - 1
    <3> SUFFICES ASSUME NEW j \in 0 .. n - 1
                 PROVE  q[j].i = v <=> j \in Less(key, v) .. Less(key, v + 1) - 1
      OBVIOUS
    <3>1. PICK i \in 0 .. n - 1 : Place(key, i) = j
      BY <1>2
    <3>2. q[j].i = key[i]
      BY <1>1, <1>5, <3>1
    <3>3. key[i] = v <=> Place(key, i) \in Less(key, v) .. Less(key, v + 1) - 1
      BY <1>1, <2>2, PlaceBracket
    <3> QED BY <3>1, <3>2, <3>3
  <2> QED BY <1>1, <2>3, <2>4, <2>5
<1> QED BY <1>6, <1>7 DEF SortedOut, Reordered, Bracketed

-----------------------------------------------------------------------------
(* The sorts in one pass.                                                  *)

(* The keys of a list in the box are voxels, none of them a ghost beyond   *)
(* the last.                                                               *)
LEMMA SettledKeys ==
  ASSUME deck \in Decks, NEW q, NEW n, Settled(q, n)
  PROVE  /\ n \in Nat /\ VKey(q) \in Keys(n) /\ DOMAIN VKey(q) = 0 .. n - 1 /\ DOMAIN q = 0 .. n - 1
         /\ \A i \in 0 .. n - 1 : VKey(q)[i] = q[i].i /\ q[i].i \in vl .. vh /\ q[i].i \in Int
         /\ vl \in Int /\ vh \in Int /\ n_voxel \in Nat /\ 1 <= vl /\ vh + 2 <= n_voxel
<1>1. n \in Nat /\ VKey(q) \in Keys(n) /\ DOMAIN VKey(q) = 0 .. n - 1 /\ DOMAIN q = 0 .. n - 1
  BY KeysAre DEF Settled, VKey
<1>2. \A i \in 0 .. n - 1 : VKey(q)[i] = q[i].i /\ q[i].i \in vl .. vh
  BY KeysAre
<1>3. vl \in Int /\ vh \in Int /\ n_voxel \in Nat /\ 1 <= vl /\ vh + 2 <= n_voxel
  BY BoxIs
<1> QED BY <1>1, <1>2, <1>3

(* With one pipeline the only subsort has all the particles.               *)
LEMMA OneSort ==
  ASSUME deck \in Decks, N_PIPELINE = 1, NEW q, NEW n, Settled(q, n),
         NEW dst, DOMAIN dst = 0 .. n - 1, NEW part, DOMAIN part = 0 .. n_voxel
  PROVE  LET r == subsort_pipeline_scalar(q, dst, part, 0, 0, n, 1)
         IN SortedOut(q, n, r.p, ClearGhosts(r.partition, n))
<1> DEFINE r == subsort_pipeline_scalar(q, dst, part, 0, 0, n, 1)
           key == VKey(q)
           new == ClearGhosts(r.partition, n)
<1>1. /\ n \in Nat /\ key \in Keys(n) /\ DOMAIN q = 0 .. n - 1
      /\ vl \in Int /\ vh \in Int /\ n_voxel \in Nat /\ 1 <= vl /\ vh + 2 <= n_voxel
  BY SettledKeys
<1>2. \A i \in 0 .. n - 1 : QKey(q)[i] = 0
  <2>1. \A i \in 0 .. n - 1 : QKey(q)[i] \in 0 .. N_PIPELINE - 1
    BY KeysAre
  <2> QED BY <2>1
<1>3. 0 = Less(QKey(q), 0)
  <2>1. DOMAIN QKey(q) = 0 .. n - 1
    BY <1>1 DEF QKey
  <2>2. {h \in DOMAIN QKey(q) : QKey(q)[h] < 0} = {}
    BY <1>2, <2>1
  <2> QED BY <2>2, FS_EmptySet DEF Less
<1>4. P2V(0, 1) = vl /\ P2V(1, 1) = vh + 1
  BY SubsortEnds
<1>5. \A i \in Int : i \in 0 .. n - 1 <=> i \in 0 .. n - 1 /\ QKey(q)[i] = 0
  BY <1>2
<1>6. /\ DOMAIN r.partition = 0 .. n_voxel /\ DOMAIN r.p = 0 .. n - 1
      /\ \A v \in 0 .. n_voxel :
           r.partition[v] = IF v \in P2V(0, 1) .. P2V(0 + 1, 1) THEN Less(key, v) ELSE part[v]
      /\ \A i \in 0 .. n - 1 : QKey(q)[i] = 0 => r.p[Place(key, i)] = q[i]
  <2>1. 0 \in 0 .. N_PIPELINE - 1 /\ 0 \in Int /\ n \in Int
    BY <1>1
  <2> DEFINE R == subsort_pipeline_scalar(q, dst, part, 0, 0, n, N_PIPELINE)
  <2>2. /\ DOMAIN R.partition = 0 .. n_voxel /\ DOMAIN R.p = 0 .. n - 1
        /\ \A v \in 0 .. n_voxel :
             R.partition[v] = IF v \in P2V(0, N_PIPELINE) .. P2V(0 + 1, N_PIPELINE)
                                THEN Less(key, v) ELSE part[v]
        /\ \A i \in 0 .. n - 1 : QKey(q)[i] = 0 => R.p[Place(key, i)] = q[i]
    <3>1. SubsortDone(q, n, dst, part, 0, R)
      BY <1>3, <1>5, <2>1, SubsortIs
    <3> QED BY <3>1 DEF SubsortDone
  <2>3. R = r
    OBVIOUS
  <2> HIDE DEF R, r
  <2> QED BY <2>2, <2>3
<1> HIDE DEF r
<1>7. DOMAIN new = 0 .. n_voxel /\ \A v \in 0 .. n_voxel - 1 : new[v] = Less(key, v)
  <2>1. DOMAIN new = 0 .. n_voxel
    BY <1>6 DEF ClearGhosts
  <2>2. ASSUME NEW v \in 0 .. n_voxel - 1 PROVE new[v] = Less(key, v)
    <3>1. v \in 0 .. n_voxel /\ v \in Int
      BY <1>1
    <3>2. new[v] = IF v < vl THEN 0 ELSE IF v \in vh + 1 .. n_voxel - 1 THEN n ELSE r.partition[v]
      BY <1>6, <3>1 DEF ClearGhosts
    <3>3. CASE v < vl
      <4>1. v <= vl
        BY <1>1, <3>1, <3>3
      <4>2. Less(key, v) = 0
        BY <3>1, <4>1, GhostCounts
      <4> QED BY <3>2, <3>3, <4>2
    <3>4. CASE vh < v
      <4>1. Less(key, v) = n
        BY <3>1, <3>4, GhostCounts
      <4>2. v \in vh + 1 .. n_voxel - 1 /\ (v < vl => n = 0)
        <5>1. v < vl => Less(key, v) = 0
          BY <1>1, <3>1, GhostCounts
        <5> QED BY <1>1, <3>1, <3>4, <4>1, <5>1
      <4> HIDE DEF new
      <4> QED BY <3>2, <4>1, <4>2
    <3>5. CASE vl <= v /\ v <= vh
      <4>1. v \in vl .. vh + 1 /\ ~ (v < vl) /\ v \notin vh + 1 .. n_voxel - 1
        BY <1>1, <3>1, <3>5
      <4> HIDE DEF new
      <4>2. r.partition[v] = Less(key, v)
        BY <1>4, <1>6, <3>1, <4>1
      <4> QED BY <3>2, <4>1, <4>2
    <3> QED BY <1>1, <3>1, <3>3, <3>4, <3>5
  <2> QED BY <2>1, <2>2
<1> HIDE DEF new
<1>8. \A i \in 0 .. n - 1 : r.p[Place(VKey(q), i)] = q[i]
  BY <1>2, <1>6
<1>9. \A v \in 0 .. n_voxel - 1 : new[v] = Less(VKey(q), v)
  BY <1>7
<1>10. SortedOut(q, n, r.p, new)
  BY <1>6, <1>7, <1>8, <1>9, PlacedIsSorted
<1> QED BY <1>10 DEF r, new

(* The legacy pass of counting.                                            *)
LEMMA CountingIs ==
  ASSUME deck \in Decks, NEW q, NEW n, Settled(q, n)
  PROVE  /\ DOMAIN CountingPartition(q) = 0 .. n_voxel
         /\ \A v \in 0 .. n_voxel : CountingPartition(q)[v] = Less(VKey(q), v)
<1>1. DOMAIN VKey(q) = DOMAIN q /\ \A i \in DOMAIN q : VKey(q)[i] = q[i].i
  BY DEF VKey
<1>2. ASSUME NEW v \in 0 .. n_voxel PROVE CountingPartition(q)[v] = Less(VKey(q), v)
  <2>1. {i \in DOMAIN q : q[i].i < v} = {h \in DOMAIN VKey(q) : VKey(q)[h] < v}
    BY <1>1
  <2>2. CountingPartition(q)[v] = Cardinality({i \in DOMAIN q : q[i].i < v})
    BY DEF CountingPartition
  <2> QED BY <2>1, <2>2 DEF Less
<1> QED BY <1>2 DEF CountingPartition

(* The copy in order.                                                      *)
LEMMA OutOfPlaceIs ==
  ASSUME deck \in Decks, NEW q, NEW n, Settled(q, n)
  PROVE  SortedOut(q, n, OutOfPlace(q, CountingPartition(q)), CountingPartition(q))
<1> DEFINE key == VKey(q)
           part == CountingPartition(q)
           at == [i \in DOMAIN q |-> part[q[i].i]
                    + Cardinality({h \in DOMAIN q : h < i /\ q[h].i = q[i].i})]
           b == Scatter(q, q, at)
<1>1. /\ n \in Nat /\ key \in Keys(n) /\ DOMAIN q = 0 .. n - 1 /\ DOMAIN key = 0 .. n - 1
      /\ \A i \in 0 .. n - 1 : key[i] = q[i].i /\ q[i].i \in vl .. vh /\ q[i].i \in Int
      /\ vl \in Int /\ vh \in Int /\ n_voxel \in Nat /\ 1 <= vl /\ vh + 2 <= n_voxel
  BY SettledKeys
<1>2. OutOfPlace(q, part) = b
  BY DEF OutOfPlace
<1>3. DOMAIN part = 0 .. n_voxel /\ \A v \in 0 .. n_voxel : part[v] = Less(key, v)
  BY CountingIs
<1>4. DOMAIN at = 0 .. n - 1
  BY <1>1
<1> HIDE DEF key, part
<1>5. ASSUME NEW i \in 0 .. n - 1 PROVE at[i] = Place(key, i)
  <2>1. at[i] = part[q[i].i] + Cardinality({h \in DOMAIN q : h < i /\ q[h].i = q[i].i})
    BY <1>1
  <2>2. {h \in DOMAIN q : h < i /\ q[h].i = q[i].i} = {h \in DOMAIN key : h < i /\ key[h] = key[i]}
    BY <1>1
  <2>3. q[i].i \in 0 .. n_voxel
    BY <1>1
  <2>4. at[i] = Less(key, key[i]) + Alike(key, i)
    BY <1>1, <1>3, <2>1, <2>2, <2>3 DEF Alike
  <2> HIDE DEF at
  <2> QED BY <1>1, <2>4, PlaceSplit
<1> HIDE DEF at
<1>6. Placing(n, key, at)
  BY <1>1, <1>4, <1>5 DEF Placing
<1>7. Lands(n, key, q, q, at, b)
  BY <1>1, <1>6, ScatterLands
<1> HIDE DEF b
<1>8. DOMAIN b = 0 .. n - 1 /\ \A i \in 0 .. n - 1 : b[Place(VKey(q), i)] = q[i]
  BY <1>4, <1>7 DEF Lands, key
<1>9. \A v \in 0 .. n_voxel - 1 : part[v] = Less(VKey(q), v)
  <2>1. \A v \in 0 .. n_voxel - 1 : v \in 0 .. n_voxel
    BY <1>1
  <2> QED BY <1>3, <2>1 DEF key
<1>10. SortedOut(q, n, b, part)
  BY <1>3, <1>8, <1>9, PlacedIsSorted
<1> QED BY <1>2, <1>10 DEF part

-----------------------------------------------------------------------------
(* The sort in place: cycles of exchanges.                                 *)

CycleOp(part, y, z, a, e) ==
        IF a.i >= n_voxel THEN a
        ELSE IF a.src = -1 /\ a.next[a.i] >= part[a.i + 1]
          THEN [a EXCEPT !.i = @ + 1]
        ELSE LET src == IF a.src = -1 THEN a.next[a.i] ELSE a.src
                 v == a.p[src].i
                 dest == a.next[v]
             IN [i |-> a.i, next |-> [a.next EXCEPT ![v] = @ + 1],
                 src |-> IF src = dest THEN -1 ELSE src,
                 p |-> [a.p EXCEPT ![dest] = a.p[src], ![src] = a.p[dest]]]
Cycling == INSTANCE Loops WITH Op <- CycleOp

(* The turns that only move on.                                            *)
LEMMA CyclePasses ==
  ASSUME NEW part, NEW a, NEW e
  PROVE  /\ a.i >= n_voxel => CycleOp(part, 0, 0, a, e) = a
         /\ ~ (a.i >= n_voxel) /\ a.src = -1 /\ a.next[a.i] >= part[a.i + 1]
              => CycleOp(part, 0, 0, a, e) = [a EXCEPT !.i = @ + 1]
  BY Zenon DEF CycleOp

(* What is at its voxel already; what the cycles keep; and their measure.  *)
AtHome(part, a, n) == {j \in 0 .. n - 1 : \E v \in 0 .. n_voxel - 1 : j \in part[v] .. a.next[v] - 1}
Cycles(q, n, part, a) ==
  /\ a = [i |-> a.i, next |-> a.next, src |-> a.src, p |-> a.p]
  /\ a.i \in 0 .. n_voxel /\ DOMAIN a.next = 0 .. n_voxel /\ a.src \in Int
  /\ \A v \in 0 .. n_voxel - 1 : a.next[v] \in part[v] .. part[v + 1]
  /\ \A v \in 0 .. n_voxel - 1 : \A j \in part[v] .. a.next[v] - 1 : a.p[j].i = v
  /\ \A v \in 0 .. n_voxel - 1 : v < a.i => a.next[v] = part[v + 1]
  /\ Reordered(q, a.p, n)
  /\ a.src # -1 => a.i < n_voxel /\ a.src = a.next[a.i] /\ a.src < part[a.i + 1]
Turns(part, a, n, k) == a.i = n_voxel \/ a.i + Cardinality(AtHome(part, a, n)) >= k

(* Where the particles of every voxel belong.                              *)
Counts(q, n, part) ==
  /\ DOMAIN part = 0 .. n_voxel /\ \A v \in 0 .. n_voxel : part[v] \in 0 .. n
  /\ \A v, w \in 0 .. n_voxel : v <= w => part[v] <= part[w]
  /\ \A v \in 0 .. n_voxel - 1 : Cardinality({h \in 0 .. n - 1 : q[h].i = v}) = part[v + 1] - part[v]
(* The partition that sort_p counts first has the number of particles of   *)
(* every voxel.                                                            *)
LEMMA CountsAre ==
  ASSUME deck \in Decks, NEW q, NEW n, Settled(q, n)
  PROVE  Counts(q, n, CountingPartition(q))
<1> DEFINE key == VKey(q)
           part == CountingPartition(q)
<1>1. /\ n \in Nat /\ key \in Keys(n) /\ DOMAIN key = 0 .. n - 1
      /\ \A i \in 0 .. n - 1 : key[i] = q[i].i /\ key[i] \in Int
      /\ n_voxel \in Nat
  BY SettledKeys
<1>2. DOMAIN part = 0 .. n_voxel /\ \A v \in 0 .. n_voxel : part[v] = Less(key, v)
  BY CountingIs
<1> HIDE DEF key, part
<1>3. \A v \in 0 .. n_voxel : part[v] \in 0 .. n
  <2> SUFFICES ASSUME NEW v \in 0 .. n_voxel PROVE part[v] \in 0 .. n
    OBVIOUS
  <2>1. v \in Int
    BY <1>1
  <2>2. Less(key, v) \in 0 .. n
    BY <1>1, <2>1, LessOrder
  <2> QED BY <1>2, <2>2
<1>4. ASSUME NEW v \in 0 .. n_voxel, NEW w \in 0 .. n_voxel, v <= w PROVE part[v] <= part[w]
  <2>1. v \in Int /\ w \in Int
    BY <1>1
  <2>2. Less(key, v) <= Less(key, w)
    BY <1>1, <1>4, <2>1, LessOrder
  <2> QED BY <1>2, <2>2
<1>5. ASSUME NEW v \in 0 .. n_voxel - 1
      PROVE  Cardinality({h \in 0 .. n - 1 : q[h].i = v}) = part[v + 1] - part[v]
  <2> DEFINE A == {h \in DOMAIN key : key[h] < v}
             B == {h \in 0 .. n - 1 : q[h].i = v}
             C == {h \in DOMAIN key : key[h] < v + 1}
  <2>1. v \in Int /\ v \in 0 .. n_voxel /\ v + 1 \in 0 .. n_voxel
    BY <1>1
  <2>2. \A h \in 0 .. n - 1 : /\ h \in A <=> key[h] < v
                              /\ h \in B <=> key[h] = v
                              /\ h \in C <=> key[h] < v + 1
    BY <1>1
  <2>3. A \subseteq 0 .. n - 1 /\ B \subseteq 0 .. n - 1 /\ C \subseteq 0 .. n - 1
    BY <1>1
  <2>4. part[v] = Cardinality(A) /\ part[v + 1] = Cardinality(C)
    BY <1>2, <2>1 DEF Less
  <2> HIDE DEF A, B, C
  <2>5. \A h \in 0 .. n - 1 : /\ h \in C <=> h \in A \/ h \in B
                              /\ ~ (h \in A /\ h \in B)
    <3> TAKE h \in 0 .. n - 1
    <3>1. h \in A <=> key[h] < v
      BY <2>2, Zenon
    <3>2. h \in B <=> key[h] = v
      BY <2>2, Zenon
    <3>3. h \in C <=> key[h] < v + 1
      BY <2>2, Zenon
    <3> QED BY <1>1, <2>1, <3>1, <3>2, <3>3
  <2>6. C = A \cup B
    BY <2>3, <2>5
  <2>10. A \cap B = {}
    BY <2>3, <2>5
  <2>11. n \in Nat /\ C \subseteq 0 .. n - 1
    BY <1>1, <2>3
  <2>7. Cardinality(C) = Cardinality(A) + Cardinality(B)
    BY <2>6, <2>10, <2>11, TwoParts
  <2>8. Cardinality(A) \in Nat /\ Cardinality(B) \in Nat
    BY <1>1, <2>3, Few
  <2>9. Cardinality(B) = part[v + 1] - part[v]
    BY <2>4, <2>7, <2>8
  <2> QED BY <2>9 DEF B
<1> QED BY <1>2, <1>3, <1>4, <1>5 DEF Counts, part

(* One turn of a cycle puts a particle home and leaves the others there.   *)
LEMMA CycleTurn ==
  ASSUME deck \in Decks, NEW q, NEW n, Settled(q, n), NEW part, Counts(q, n, part),
         NEW a, Cycles(q, n, part, a), NEW k \in Nat, Turns(part, a, n, k), NEW e,
         ~ (a.i >= n_voxel), ~ (a.src = -1 /\ a.next[a.i] >= part[a.i + 1])
  PROVE  LET b == CycleOp(part, 0, 0, a, e)
         IN Cycles(q, n, part, b) /\ Turns(part, b, n, k + 1)
<1> DEFINE src == IF a.src = -1 THEN a.next[a.i] ELSE a.src
           v == a.p[src].i
           dest == a.next[v]
           b == CycleOp(part, 0, 0, a, e)
           H == AtHome(part, a, n)
<1>1. /\ n \in Nat /\ n_voxel \in Nat /\ vl \in Int /\ vh \in Int /\ 1 <= vl /\ vh + 2 <= n_voxel
      /\ \A i \in 0 .. n - 1 : q[i].i \in vl .. vh
  BY SettledKeys
<1>2. /\ DOMAIN part = 0 .. n_voxel /\ \A w \in 0 .. n_voxel : part[w] \in 0 .. n
      /\ \A w, x \in 0 .. n_voxel : w <= x => part[w] <= part[x]
      /\ \A w \in 0 .. n_voxel - 1 :
           Cardinality({h \in 0 .. n - 1 : q[h].i = w}) = part[w + 1] - part[w]
  BY DEF Counts
<1>3. /\ a = [i |-> a.i, next |-> a.next, src |-> a.src, p |-> a.p]
      /\ a.i \in 0 .. n_voxel /\ DOMAIN a.next = 0 .. n_voxel /\ a.src \in Int
      /\ \A w \in 0 .. n_voxel - 1 : a.next[w] \in part[w] .. part[w + 1]
      /\ \A w \in 0 .. n_voxel - 1 : \A j \in part[w] .. a.next[w] - 1 : a.p[j].i = w
      /\ \A w \in 0 .. n_voxel - 1 : w < a.i => a.next[w] = part[w + 1]
      /\ Reordered(q, a.p, n)
      /\ a.src # -1 => a.i < n_voxel /\ a.src = a.next[a.i] /\ a.src < part[a.i + 1]
  BY DEF Cycles
<1>4. a.i \in 0 .. n_voxel - 1 /\ a.i \in 0 .. n_voxel /\ a.i + 1 \in 0 .. n_voxel
  <2>1. a.i \in 0 .. n_voxel
    BY <1>3
  <2> QED BY <1>1, <2>1
<1>5. \A w \in 0 .. n_voxel - 1 : /\ w \in 0 .. n_voxel /\ w + 1 \in 0 .. n_voxel /\ w \in Int
                                  /\ part[w] \in 0 .. n /\ part[w + 1] \in 0 .. n
                                  /\ a.next[w] \in 0 .. n
  <2> SUFFICES ASSUME NEW w \in 0 .. n_voxel - 1
               PROVE  /\ w \in 0 .. n_voxel /\ w + 1 \in 0 .. n_voxel /\ w \in Int
                      /\ part[w] \in 0 .. n /\ part[w + 1] \in 0 .. n /\ a.next[w] \in 0 .. n
    OBVIOUS
  <2>1. w \in 0 .. n_voxel /\ w + 1 \in 0 .. n_voxel /\ w \in Int
    BY <1>1
  <2>2. part[w] \in 0 .. n /\ part[w + 1] \in 0 .. n
    BY <1>2, <2>1
  <2>3. a.next[w] \in part[w] .. part[w + 1]
    BY <1>3
  <2> QED BY <1>1, <2>1, <2>2, <2>3
<1>6. src = a.next[a.i] /\ src < part[a.i + 1] /\ part[a.i] <= src /\ src \in 0 .. n - 1
  <2>1. a.next[a.i] \in part[a.i] .. part[a.i + 1] /\ a.next[a.i] \in 0 .. n
        /\ part[a.i + 1] \in 0 .. n /\ part[a.i] \in 0 .. n
    BY <1>3, <1>4, <1>5
  <2>2. CASE a.src = -1
    <3>1. a.next[a.i] < part[a.i + 1]
      BY <2>1, <2>2
    <3> QED BY <1>1, <2>1, <2>2, <3>1
  <2>3. CASE a.src # -1
    <3>1. src = a.src /\ a.src = a.next[a.i] /\ a.src < part[a.i + 1]
      BY <1>3, <2>3
    <3> QED BY <1>1, <2>1, <3>1
  <2> QED BY <2>2, <2>3
<1>7. DOMAIN a.p = 0 .. n - 1 /\ \A j \in 0 .. n - 1 : \E h \in 0 .. n - 1 : a.p[j] = q[h]
  <2>1. PICK f : Reorders(q, a.p, n, f)
    BY <1>3 DEF Reordered
  <2>2. DOMAIN a.p = 0 .. n - 1 /\ \A j \in 0 .. n - 1 : \E h \in 0 .. n - 1 : f[h] = j
    BY <2>1, Zenon DEF Reorders
  <2>3. \A h \in 0 .. n - 1 : a.p[f[h]] = q[h]
    BY <2>1, Zenon DEF Reorders
  <2>4. \A j \in 0 .. n - 1 : \E h \in 0 .. n - 1 : a.p[j] = q[h]
    <3> TAKE j \in 0 .. n - 1
    <3>1. PICK h \in 0 .. n - 1 : f[h] = j
      BY <2>2, Zenon
    <3>2. a.p[j] = q[h]
      BY <2>3, <3>1, Zenon
    <3> QED BY <3>2, Zenon
  <2> QED BY <2>2, <2>4, Zenon
<1>8. v \in vl .. vh /\ v \in 0 .. n_voxel - 1
  <2>1. PICK h \in 0 .. n - 1 : a.p[src] = q[h]
    BY <1>6, <1>7
  <2>2. v = q[h].i
    BY <2>1
  <2> HIDE DEF v
  <2> QED BY <1>1, <2>2
<1>9. b = [i |-> a.i, next |-> [a.next EXCEPT ![v] = @ + 1],
           src |-> IF src = dest THEN -1 ELSE src, p |-> Exchange(a.p, dest, src)]
  BY Zenon DEF CycleOp, Exchange
<1> HIDE DEF b, src
<1>10. \A w, x \in 0 .. n_voxel - 1 : w < x => part[w + 1] <= part[x]
  <2> SUFFICES ASSUME NEW w \in 0 .. n_voxel - 1, NEW x \in 0 .. n_voxel - 1, w < x
               PROVE  part[w + 1] <= part[x]
    OBVIOUS
  <2>1. w + 1 \in 0 .. n_voxel /\ x \in 0 .. n_voxel /\ w + 1 <= x
    BY <1>5
  <2> QED BY <1>2, <2>1
<1>11. v = a.p[src].i /\ dest = a.next[v]
  OBVIOUS
<1> HIDE DEF v, dest
<1>12. \A w \in 0 .. n_voxel - 1 : src \notin part[w] .. a.next[w] - 1
  <2> SUFFICES ASSUME NEW w \in 0 .. n_voxel - 1, part[w] <= src, src < a.next[w] PROVE FALSE
    BY <1>5, <1>6
  <2>1. a.next[w] \in part[w] .. part[w + 1] /\ a.next[a.i] = src /\ src \in Int /\ a.i \in Int /\ w \in Int
        /\ part[w] \in Int /\ part[w + 1] \in Int /\ part[a.i] \in Int /\ part[a.i + 1] \in Int
    <3>1. a.next[w] \in part[w] .. part[w + 1]
      BY <1>3, Zenon
    <3>2. part[w] \in 0 .. n /\ part[w + 1] \in 0 .. n /\ part[a.i] \in 0 .. n /\ part[a.i + 1] \in 0 .. n
      BY <1>4, <1>5, Zenon
    <3> QED BY <1>4, <1>6, <3>1, <3>2
  <2>2. CASE w = a.i
    BY <2>1, <2>2
  <2>3. CASE w < a.i
    <3>1. part[w + 1] <= part[a.i]
      BY <1>4, <1>10, <2>3
    <3> QED BY <1>6, <2>1, <3>1
  <2>4. CASE a.i < w
    <3>1. part[a.i + 1] <= part[w]
      BY <1>4, <1>10, <2>4, Zenon
    <3> QED BY <1>6, <2>1, <3>1
  <2> QED BY <2>1, <2>2, <2>3, <2>4
<1>13. dest < part[v + 1] /\ part[v] <= dest /\ dest \in 0 .. n - 1
  <2> USE <1>11
  <2> DEFINE S == {j \in 0 .. n - 1 : a.p[j].i = v}
             T == part[v] .. a.next[v] - 1
  <2>1. Cardinality(S) = part[v + 1] - part[v]
    <3>1. Cardinality(S) = Cardinality({h \in 0 .. n - 1 : q[h].i = v})
      <4>1. InVoxel(a.p, n, v) = InVoxel(q, n, v)
        BY <1>1, <1>3, ReorderedCount
      <4> QED BY <4>1 DEF InVoxel
    <3> QED BY <1>2, <1>8, <3>1
  <2>2. a.next[v] \in part[v] .. part[v + 1] /\ part[v] \in 0 .. n /\ part[v + 1] \in 0 .. n
    BY <1>3, <1>5, <1>8
  <2>3. T \subseteq S
    <3> SUFFICES ASSUME NEW j \in part[v] .. a.next[v] - 1 PROVE j \in 0 .. n - 1 /\ a.p[j].i = v
      BY Zenon
    <3> HIDE DEF S, T
    <3>1. a.p[j].i = v
      BY <1>3, <1>8, Zenon
    <3> QED BY <1>1, <2>2, <3>1
  <2>4. src \in S /\ src \notin T /\ S \subseteq 0 .. n - 1
    BY <1>6, <1>8, <1>11, <1>12, Zenon
  <2>5. Cardinality(T) = a.next[v] - part[v]
    <3>1. part[v] \in Int /\ a.next[v] - 1 \in Int /\ a.next[v] \in Int
      BY <2>2
    <3>2. Cardinality(T) = IF part[v] > a.next[v] - 1 THEN 0 ELSE a.next[v] - 1 - part[v] + 1
      BY <3>1, FS_Interval
    <3> HIDE DEF T
    <3> QED BY <2>2, <3>1, <3>2
  <2> HIDE DEF S, T
  <2>6. Cardinality(T) + 1 <= Cardinality(S)
    BY <1>1, <2>3, <2>4, ProperPart
  <2> QED BY <1>1, <2>1, <2>2, <2>5, <2>6
<1>14. \A w \in 0 .. n_voxel - 1 : dest \notin part[w] .. a.next[w] - 1
  <2> SUFFICES ASSUME NEW w \in 0 .. n_voxel - 1, part[w] <= dest, dest < a.next[w] PROVE FALSE
    BY <1>5, <1>13
  <2>1. a.next[w] \in part[w] .. part[w + 1] /\ dest \in Int /\ v \in Int /\ w \in Int
        /\ part[w] \in Int /\ part[w + 1] \in Int /\ part[v] \in Int /\ part[v + 1] \in Int
    <3>1. a.next[w] \in part[w] .. part[w + 1]
      BY <1>3, Zenon
    <3>2. part[w] \in 0 .. n /\ part[w + 1] \in 0 .. n /\ part[v] \in 0 .. n /\ part[v + 1] \in 0 .. n
      BY <1>5, <1>8, Zenon
    <3> QED BY <1>8, <1>13, <3>1, <3>2
  <2>2. CASE w = v
    BY <1>11, <2>1, <2>2
  <2>3. CASE w < v
    <3>1. part[w + 1] <= part[v]
      BY <1>8, <1>10, <2>3
    <3> QED BY <1>13, <2>1, <3>1
  <2>4. CASE v < w
    <3>1. part[v + 1] <= part[w]
      BY <1>8, <1>10, <2>4
    <3> QED BY <1>13, <2>1, <3>1
  <2> QED BY <2>1, <2>2, <2>3, <2>4
<1>15. dest = a.next[v] /\ dest \in Int
  BY <1>11, <1>13
<1>16. /\ b.i = a.i /\ b.src = (IF src = dest THEN -1 ELSE src) /\ b.p = Exchange(a.p, dest, src)
       /\ DOMAIN b.next = 0 .. n_voxel
       /\ \A w \in 0 .. n_voxel - 1 : b.next[w] = IF w = v THEN dest + 1 ELSE a.next[w]
       /\ b = [i |-> b.i, next |-> b.next, src |-> b.src, p |-> b.p]
  <2>1. v \in DOMAIN a.next
    BY <1>3, <1>5, <1>8
  <2>2. \A w \in 0 .. n_voxel - 1 : w \in DOMAIN a.next
    BY <1>3, <1>5
  <2> QED BY <1>3, <1>9, <1>15, <2>1, <2>2
<1>17. Exchanged(n, a.p, dest, src, b.p)
  BY <1>6, <1>7, <1>13, <1>16, ExchangeIs
<1>18. /\ b.p[dest] = a.p[src] /\ b.p[src] = a.p[dest]
       /\ \A j \in 0 .. n - 1 : j # dest /\ j # src => b.p[j] = a.p[j]
  BY <1>17 DEF Exchanged
<1>19. \A w \in 0 .. n_voxel - 1 : b.next[w] \in part[w] .. part[w + 1]
  <2> SUFFICES ASSUME NEW w \in 0 .. n_voxel - 1 PROVE b.next[w] \in part[w] .. part[w + 1]
    OBVIOUS
  <2>1. CASE w = v
    <3>1. b.next[w] = dest + 1
      BY <1>16, <2>1, Zenon
    <3>2. part[v] \in 0 .. n /\ part[v + 1] \in 0 .. n
      BY <1>5, <2>1, Zenon
    <3> QED BY <1>13, <1>15, <2>1, <3>1, <3>2
  <2>2. CASE w # v
    <3>1. b.next[w] = a.next[w]
      BY <1>16, <2>2, Zenon
    <3> QED BY <1>3, <3>1, Zenon
  <2> QED BY <2>1, <2>2
<1>20. ASSUME NEW w \in 0 .. n_voxel - 1, NEW j \in part[w] .. b.next[w] - 1 PROVE b.p[j].i = w
  <2>1. CASE j \in part[w] .. a.next[w] - 1
    <3>1. j # dest /\ j # src
      BY <1>12, <1>14, <2>1
    <3>2. j \in 0 .. n - 1
      BY <1>1, <1>5, <2>1
    <3>3. a.p[j].i = w
      BY <1>3, <2>1, Zenon
    <3> QED BY <1>18, <3>1, <3>2, <3>3
  <2>2. CASE j \notin part[w] .. a.next[w] - 1
    <3>1. w = v
      BY <1>16, <2>2
    <3>2. j = dest
      BY <1>5, <1>15, <1>16, <2>2, <3>1
    <3> QED BY <1>11, <1>18, <3>1, <3>2
  <2> QED BY <2>1, <2>2
<1>21. \A w \in 0 .. n_voxel - 1 : w < b.i => b.next[w] = part[w + 1]
  <2> SUFFICES ASSUME NEW w \in 0 .. n_voxel - 1, w < a.i PROVE b.next[w] = part[w + 1]
    BY <1>16
  <2>1. a.next[w] = part[w + 1]
    BY <1>3, Zenon
  <2>2. w # v
    <3> SUFFICES ASSUME w = v PROVE FALSE
      OBVIOUS
    <3>1. dest = part[v + 1] /\ part[v + 1] \in Int
      BY <1>5, <1>8, <1>15, <2>1
    <3> QED BY <1>13, <1>15, <3>1
  <2> QED BY <1>16, <2>1, <2>2
<1>22. Reordered(q, b.p, n)
  BY <1>3, <1>6, <1>13, <1>16, ReorderedExchange
<1>23. b.src # -1 => b.i < n_voxel /\ b.src = b.next[b.i] /\ b.src < part[b.i + 1]
  <2> SUFFICES ASSUME src # dest PROVE a.i < n_voxel /\ src = b.next[a.i] /\ src < part[a.i + 1]
    BY <1>16
  <2>1. a.i # v
    BY <1>6, <1>15
  <2>2. b.next[a.i] = a.next[a.i]
    BY <1>4, <1>16, <2>1, Zenon
  <2> QED BY <1>1, <1>4, <1>6, <2>2
<1>24. b.src \in Int
  BY <1>6, <1>16
<1>25. Cycles(q, n, part, b)
  BY <1>3, <1>16, <1>19, <1>20, <1>21, <1>22, <1>23, <1>24 DEF Cycles
<1>26. Turns(part, b, n, k + 1)
  <2> DEFINE J == AtHome(part, b, n)
  <2>1. H \subseteq J
    <3> SUFFICES ASSUME NEW j \in 0 .. n - 1, NEW w \in 0 .. n_voxel - 1, j \in part[w] .. a.next[w] - 1
                 PROVE  \E x \in 0 .. n_voxel - 1 : j \in part[x] .. b.next[x] - 1
      BY DEF AtHome
    <3>1. j \in part[w] .. b.next[w] - 1
      BY <1>5, <1>15, <1>16
    <3> QED BY <3>1
  <2>2. dest \in J
    <3>1. dest \in part[v] .. b.next[v] - 1
      BY <1>5, <1>8, <1>13, <1>16
    <3> QED BY <1>8, <1>13, <3>1 DEF AtHome
  <2>3. dest \notin H
    BY <1>14 DEF AtHome
  <2>4. J \subseteq 0 .. n - 1 /\ H \subseteq 0 .. n - 1
    BY DEF AtHome
  <2> HIDE DEF H, J
  <2>5. Cardinality(H) + 1 <= Cardinality(J) /\ Cardinality(H) \in Nat /\ Cardinality(J) \in Nat
    <3>1. Cardinality(H) + 1 <= Cardinality(J)
      BY <1>1, <2>1, <2>2, <2>3, <2>4, ProperPart
    <3>2. Cardinality(H) \in Nat /\ Cardinality(J) \in Nat
      BY <1>1, <2>4, Few
    <3> QED BY <3>1, <3>2
  <2>6. a.i + Cardinality(H) >= k
    BY <1>1, <1>4 DEF Turns, H
  <2>7. b.i + Cardinality(J) >= k + 1
    BY <1>4, <1>16, <2>5, <2>6
  <2> QED BY <2>7 DEF Turns, J
<1> QED BY <1>25, <1>26 DEF b

(* What the cycles work on.                                                *)
CycleStates(q, n) ==
  [i : Int, next : [0 .. n_voxel -> Int], src : Int, p : [0 .. n - 1 -> {q[h] : h \in 0 .. n - 1}]]

(* Every turn moves on.                                                    *)
LEMMA CycleStep ==
  ASSUME deck \in Decks, NEW q, NEW n, Settled(q, n), NEW part, Counts(q, n, part),
         NEW a \in CycleStates(q, n), Cycles(q, n, part, a), NEW k \in Nat, Turns(part, a, n, k), NEW e
  PROVE  LET b == CycleOp(part, 0, 0, a, e)
         IN b \in CycleStates(q, n) /\ Cycles(q, n, part, b) /\ Turns(part, b, n, k + 1)
<1> DEFINE b == CycleOp(part, 0, 0, a, e)
<1>1. n \in Nat /\ n_voxel \in Nat
  BY SettledKeys
<1>2. /\ a = [i |-> a.i, next |-> a.next, src |-> a.src, p |-> a.p]
      /\ a.i \in 0 .. n_voxel /\ DOMAIN a.next = 0 .. n_voxel /\ a.src \in Int
      /\ \A w \in 0 .. n_voxel - 1 : a.next[w] \in part[w] .. part[w + 1]
      /\ \A w \in 0 .. n_voxel - 1 : \A j \in part[w] .. a.next[w] - 1 : a.p[j].i = w
      /\ \A w \in 0 .. n_voxel - 1 : w < a.i => a.next[w] = part[w + 1]
      /\ Reordered(q, a.p, n)
      /\ a.src # -1 => a.i < n_voxel /\ a.src = a.next[a.i] /\ a.src < part[a.i + 1]
  BY Zenon DEF Cycles
<1>3. CASE a.i >= n_voxel
  <2>1. b = a
    BY <1>3, CyclePasses, Zenon
  <2> HIDE DEF b
  <2>2. a.i = n_voxel
    <3>1. a.i \in 0 .. n_voxel
      BY <1>2, Zenon
    <3> QED BY <1>1, <1>3, <3>1
  <2>3. Turns(part, a, n, k + 1)
    BY <2>2, Zenon DEF Turns
  <2> QED BY <2>1, <2>3, Zenon DEF b
<1>4. CASE ~ (a.i >= n_voxel) /\ (a.src = -1 /\ a.next[a.i] >= part[a.i + 1])
  <2>1. b = [a EXCEPT !.i = @ + 1]
    BY <1>4, CyclePasses, Zenon
  <2> HIDE DEF b
  <2>3. b = [i |-> a.i + 1, next |-> a.next, src |-> a.src, p |-> a.p]
    BY <1>2, <2>1
  <2>2. b \in CycleStates(q, n)
    <3>1. /\ a.i \in Int /\ a.next \in [0 .. n_voxel -> Int] /\ a.src \in Int
          /\ a.p \in [0 .. n - 1 -> {q[h] : h \in 0 .. n - 1}]
      BY DEF CycleStates
    <3> QED BY <2>3, <3>1 DEF CycleStates
  <2>4. b.i = a.i + 1 /\ b.next = a.next /\ b.src = -1 /\ b.p = a.p
    BY <1>4, <2>3
  <2>5. b = [i |-> b.i, next |-> b.next, src |-> b.src, p |-> b.p]
    BY <1>4, <2>3, <2>4
  <2>6. a.i \in 0 .. n_voxel - 1 /\ b.i \in 0 .. n_voxel
    BY <1>1, <1>2, <1>4, <2>4
  <2>7. \A v \in 0 .. n_voxel : part[v] \in Int
    BY <1>1 DEF Counts
  <2>8. \A w \in 0 .. n_voxel - 1 : w < b.i => b.next[w] = part[w + 1]
    <3> SUFFICES ASSUME NEW w \in 0 .. n_voxel - 1, w < a.i + 1 PROVE a.next[w] = part[w + 1]
      BY <2>4
    <3>1. CASE w < a.i
      BY <1>2, <3>1
    <3>2. CASE w = a.i
      <4>1. a.next[w] \in part[w] .. part[w + 1] /\ a.next[w] >= part[w + 1]
        BY <1>2, <1>4, <3>2
      <4>2. part[w] \in Int /\ part[w + 1] \in Int
        BY <1>1, <2>7
      <4> QED BY <4>1, <4>2
    <3> QED BY <1>1, <1>2, <3>1, <3>2
  <2>9. Cycles(q, n, part, b)
    BY <1>2, <2>4, <2>5, <2>6, <2>8 DEF Cycles
  <2>10. Turns(part, b, n, k + 1)
    <3>1. AtHome(part, b, n) = AtHome(part, a, n)
      BY <2>4 DEF AtHome
    <3> DEFINE H == AtHome(part, a, n)
    <3>2. H \subseteq 0 .. n - 1
      BY DEF AtHome
    <3>3. a.i # n_voxel
      BY <1>1, <2>6
    <3>4. a.i + Cardinality(H) >= k
      BY <3>3 DEF Turns
    <3> HIDE DEF H
    <3>5. Cardinality(H) \in Nat
      BY <1>1, <3>2, Few
    <3>6. b.i + Cardinality(H) >= k + 1
      BY <1>1, <2>4, <2>6, <3>4, <3>5
    <3> QED BY <3>1, <3>6 DEF Turns, H
  <2> QED BY <2>2, <2>9, <2>10 DEF b
<1>5. CASE ~ (a.i >= n_voxel) /\ ~ (a.src = -1 /\ a.next[a.i] >= part[a.i + 1])
  <2>1. Cycles(q, n, part, b) /\ Turns(part, b, n, k + 1)
    BY <1>5, CycleTurn
  <2>2. b \in CycleStates(q, n)
    <3> DEFINE src == IF a.src = -1 THEN a.next[a.i] ELSE a.src
               v == a.p[src].i
               dest == a.next[v]
               next == [a.next EXCEPT ![v] = @ + 1]
               pp == [a.p EXCEPT ![dest] = a.p[src], ![src] = a.p[dest]]
    <3>1. b = [i |-> a.i, next |-> next, src |-> IF src = dest THEN -1 ELSE src, p |-> pp]
      BY <1>5, Zenon DEF CycleOp
    <3>2. /\ a.i \in Int /\ a.next \in [0 .. n_voxel -> Int] /\ a.src \in Int
          /\ a.p \in [0 .. n - 1 -> {q[h] : h \in 0 .. n - 1}]
      BY DEF CycleStates
    <3>3. next \in [0 .. n_voxel -> Int]
      <4> HIDE DEF v
      <4>1. CASE v \in 0 .. n_voxel
        <5>2. a.next[v] \in Int
          BY <3>2, <4>1
        <5>1. a.next[v] + 1 \in Int
          BY <5>2
        <5> QED BY <3>2, <5>1
      <4>2. CASE v \notin 0 .. n_voxel
        <5>1. next = a.next
          BY <3>2, <4>2
        <5> QED BY <3>2, <5>1
      <4> QED BY <4>1, <4>2
    <3>4. Reordered(q, b.p, n) /\ b.src \in Int
      BY <2>1 DEF Cycles
    <3>5. DOMAIN b.p = 0 .. n - 1 /\ \A j \in 0 .. n - 1 : b.p[j] \in {q[h] : h \in 0 .. n - 1}
      <4>1. PICK f : Reorders(q, b.p, n, f)
        BY <3>4 DEF Reordered
      <4> HIDE DEF b
      <4>2. /\ DOMAIN b.p = 0 .. n - 1
            /\ \A j \in 0 .. n - 1 : \E i \in 0 .. n - 1 : f[i] = j
            /\ \A i \in 0 .. n - 1 : b.p[f[i]] = q[i]
        BY <4>1, Zenon DEF Reorders
      <4> QED BY <4>2
    <3>6. pp = [j \in DOMAIN a.p |-> pp[j]] /\ b.p = pp
      <4>1. b.p = pp
        <5> HIDE DEF b, next, pp
        <5> QED BY <3>1
      <4>2. pp = [j \in DOMAIN a.p |-> pp[j]]
        <5> HIDE DEF b, next, dest, src
        <5> QED OBVIOUS
      <4> QED BY <4>1, <4>2, Zenon
    <3>7. pp \in [0 .. n - 1 -> {q[h] : h \in 0 .. n - 1}]
      <4>1. DOMAIN pp = 0 .. n - 1 /\ \A j \in 0 .. n - 1 : pp[j] \in {q[h] : h \in 0 .. n - 1}
        <5> HIDE DEF b, pp
        <5> QED BY <3>5, <3>6
      <4>2. pp = [j \in 0 .. n - 1 |-> pp[j]]
        <5> HIDE DEF pp
        <5> QED BY <3>2, <3>6
      <4> HIDE DEF pp
      <4> QED BY <4>1, <4>2
    <3>8. (IF src = dest THEN -1 ELSE src) \in Int
      <4>1. b.src = IF src = dest THEN -1 ELSE src
        <5> HIDE DEF b, next, pp, dest, src
        <5> QED BY <3>1
      <4> HIDE DEF b, dest, src
      <4> QED BY <3>4, <4>1
    <3> HIDE DEF b, next, pp, dest, src
    <3> QED BY <3>1, <3>2, <3>3, <3>7, <3>8, Zenon DEF CycleStates
  <2> QED BY <2>1, <2>2
<1> QED BY <1>3, <1>4, <1>5

(* The sort in place is that many turns.                                   *)
LEMMA InPlaceLoop ==
  ASSUME NEW q, NEW part
  PROVE  InPlace(q, part) =
           Cycling!Left(part, 0, 0, [i |-> 0, next |-> part, src |-> -1, p |-> q],
                        [x \in 1 .. n_voxel + Cardinality(DOMAIN q) |-> x]).p
BY Zenon DEF InPlace, CycleOp, Cycling!Left, FoldLeft, MapThenFoldSet, Max, Cycling!Greatest

(* After that many turns everything is at home.                            *)
LEMMA InPlaceIs ==
  ASSUME deck \in Decks, NEW q, NEW n, Settled(q, n), q = [j \in DOMAIN q |-> q[j]]
  PROVE  /\ SortedOut(q, n, InPlace(q, CountingPartition(q)), CountingPartition(q))
         /\ Plain(InPlace(q, CountingPartition(q)))
<1> DEFINE part == CountingPartition(q)
           N == n_voxel + Cardinality(DOMAIN q)
           turns == [x \in 1 .. N |-> x]
           base == [i |-> 0, next |-> part, src |-> -1, p |-> q]
           a == Cycling!Left(part, 0, 0, base, turns)
           I == [k \in 0 .. N |-> {x \in CycleStates(q, n) : Cycles(q, n, part, x) /\ Turns(part, x, n, k)}]
<1>1. InPlace(q, part) = a.p
  BY InPlaceLoop, Zenon
<1>2. /\ n \in Nat /\ n_voxel \in Nat /\ DOMAIN q = 0 .. n - 1 /\ N = n_voxel + n /\ N \in Nat
      /\ \A i \in 0 .. n - 1 : q[i].i \in vl .. vh
      /\ vl \in Int /\ vh \in Int /\ 1 <= vl /\ vh + 2 <= n_voxel
  <2>1. n \in Nat /\ n_voxel \in Nat /\ DOMAIN q = 0 .. n - 1
    BY SettledKeys
  <2>2. Cardinality(0 .. n - 1) = n
    <3>1. 0 \in Int /\ n - 1 \in Int
      BY <2>1
    <3>2. Cardinality(0 .. n - 1) = IF 0 > n - 1 THEN 0 ELSE n - 1 - 0 + 1
      BY <3>1, FS_Interval
    <3> QED BY <2>1, <3>2
  <2>3. /\ \A i \in 0 .. n - 1 : q[i].i \in vl .. vh
        /\ vl \in Int /\ vh \in Int /\ 1 <= vl /\ vh + 2 <= n_voxel
    BY SettledKeys
  <2>4. N = n_voxel + n
    BY <2>1, <2>2
  <2> HIDE DEF N
  <2> QED BY <2>1, <2>3, <2>4
<1>3. Counts(q, n, part)
  BY CountsAre
<1>4. /\ DOMAIN part = 0 .. n_voxel /\ \A w \in 0 .. n_voxel : part[w] \in 0 .. n
      /\ \A w, x \in 0 .. n_voxel : w <= x => part[w] <= part[x]
      /\ \A w \in 0 .. n_voxel - 1 : InVoxel(q, n, w) = part[w + 1] - part[w]
  BY <1>3 DEF Counts, InVoxel
<1>5. part = [w \in 0 .. n_voxel |-> part[w]]
  BY DEF CountingPartition
<1> HIDE DEF part, N
<1>6. base \in I[0]
  <2>1. base \in CycleStates(q, n)
    <3>1. part \in [0 .. n_voxel -> Int]
      BY <1>4, <1>5
    <3>2. q \in [0 .. n - 1 -> {q[h] : h \in 0 .. n - 1}]
      BY <1>2
    <3> QED BY <3>1, <3>2 DEF CycleStates
  <2>2. base.i = 0 /\ base.next = part /\ base.src = -1 /\ base.p = q
        /\ base = [i |-> base.i, next |-> base.next, src |-> base.src, p |-> base.p]
    OBVIOUS
  <2> HIDE DEF base
  <2>3. Reordered(q, base.p, n)
    BY <1>2, <2>2, ReorderedSame
  <2>4. \A w \in 0 .. n_voxel - 1 : /\ base.next[w] \in part[w] .. part[w + 1]
                                    /\ part[w] .. base.next[w] - 1 = {}
    <3> SUFFICES ASSUME NEW w \in 0 .. n_voxel - 1
                 PROVE  part[w] \in part[w] .. part[w + 1] /\ part[w] .. part[w] - 1 = {}
      BY <2>2
    <3>1. w \in 0 .. n_voxel /\ w + 1 \in 0 .. n_voxel /\ w <= w + 1
      BY <1>2
    <3>2. part[w] <= part[w + 1] /\ part[w] \in 0 .. n /\ part[w + 1] \in 0 .. n
      BY <1>4, <3>1
    <3> QED BY <3>2
  <2>5. Cycles(q, n, part, base)
    BY <1>2, <1>4, <2>2, <2>3, <2>4 DEF Cycles
  <2>6. Turns(part, base, n, 0)
    <3>1. AtHome(part, base, n) \subseteq 0 .. n - 1
      BY DEF AtHome
    <3>2. Cardinality(AtHome(part, base, n)) \in Nat
      BY <1>2, <3>1, Few
    <3> QED BY <2>2, <3>2 DEF Turns
  <2> QED BY <1>2, <2>1, <2>5, <2>6
<1>7. \A k \in 1 .. N : \A x \in I[k - 1] : CycleOp(part, 0, 0, x, turns[k]) \in I[k]
  <2> SUFFICES ASSUME NEW k \in 1 .. N, NEW x \in I[k - 1]
               PROVE  CycleOp(part, 0, 0, x, turns[k]) \in I[k]
    BY Zenon
  <2>1. k - 1 \in 0 .. N /\ k \in 0 .. N /\ k - 1 \in Nat /\ (k - 1) + 1 = k
    BY <1>2
  <2>2. x \in CycleStates(q, n) /\ Cycles(q, n, part, x) /\ Turns(part, x, n, k - 1)
    BY <2>1
  <2> DEFINE b == CycleOp(part, 0, 0, x, turns[k])
  <2>3. b \in CycleStates(q, n) /\ Cycles(q, n, part, b) /\ Turns(part, b, n, (k - 1) + 1)
    <3> HIDE DEF turns, I
    <3> QED BY <1>3, <2>1, <2>2, CycleStep
  <2> HIDE DEF b
  <2>4. b \in I[k]
    BY <2>1, <2>3
  <2> QED BY <2>4 DEF b
<1>8. a \in I[N]
  <2>1. DOMAIN turns = 1 .. N
    OBVIOUS
  <2> HIDE DEF turns, I, base
  <2> QED BY <1>2, <1>6, <1>7, <2>1, Cycling!LeftRule, Zenon
<1> HIDE DEF a
<1>9. Cycles(q, n, part, a) /\ Turns(part, a, n, N)
  BY <1>2, <1>8
<1>10. a.i = n_voxel
  <2>1. AtHome(part, a, n) \subseteq 0 .. n - 1
    BY DEF AtHome
  <2> DEFINE H == AtHome(part, a, n)
  <2> HIDE DEF H
  <2>2. Cardinality(H) \in Nat /\ Cardinality(H) <= n
    BY <1>2, <2>1, Few DEF H
  <2>3. a.i \in 0 .. n_voxel
    BY <1>9 DEF Cycles
  <2>4. a.i = n_voxel \/ a.i + Cardinality(H) >= N
    BY <1>9 DEF Turns, H
  <2> QED BY <1>2, <2>2, <2>3, <2>4
<1>11. /\ \A w \in 0 .. n_voxel - 1 : a.next[w] = part[w + 1]
       /\ \A w \in 0 .. n_voxel - 1 : \A j \in part[w] .. a.next[w] - 1 : a.p[j].i = w
       /\ Reordered(q, a.p, n)
  <2>1. /\ \A w \in 0 .. n_voxel - 1 : w < a.i => a.next[w] = part[w + 1]
        /\ \A w \in 0 .. n_voxel - 1 : \A j \in part[w] .. a.next[w] - 1 : a.p[j].i = w
        /\ Reordered(q, a.p, n)
    BY <1>9 DEF Cycles
  <2> QED BY <1>2, <1>10, <2>1
<1>12. DOMAIN a.p = 0 .. n - 1
  BY <1>11 DEF Reordered, Reorders
<1>13. ASSUME NEW v \in 0 .. n_voxel - 2
       PROVE  {i \in DOMAIN a.p : a.p[i].i = v} = part[v] .. part[v + 1] - 1
  <2> DEFINE S == {i \in 0 .. n - 1 : a.p[i].i = v}
             T == part[v] .. part[v + 1] - 1
  <2>1. v \in 0 .. n_voxel - 1 /\ v \in 0 .. n_voxel /\ v + 1 \in 0 .. n_voxel /\ v <= v + 1
    BY <1>2
  <2>2. part[v] \in 0 .. n /\ part[v + 1] \in 0 .. n /\ part[v] <= part[v + 1]
    BY <1>4, <2>1
  <2>3. T \subseteq S
    <3> SUFFICES ASSUME NEW j \in T PROVE j \in S
      OBVIOUS
    <3>1. j \in part[v] .. a.next[v] - 1
      BY <1>11, <2>1
    <3>2. a.p[j].i = v
      BY <1>11, <2>1, <3>1, Zenon
    <3>3. j \in part[v] .. part[v + 1] - 1
      OBVIOUS
    <3>4. n \in Int
      BY <1>2
    <3>5. j \in 0 .. n - 1
      BY ONLY <2>2, <3>3, <3>4
    <3> QED BY <3>2, <3>5
  <2>4. Cardinality(S) = part[v + 1] - part[v]
    <3>1. InVoxel(a.p, n, v) = InVoxel(q, n, v)
      BY <1>2, <1>11, ReorderedCount
    <3> QED BY <1>4, <2>1, <3>1 DEF InVoxel
  <2>5. Cardinality(T) = part[v + 1] - part[v]
    <3>1. part[v] \in Int /\ part[v + 1] - 1 \in Int /\ part[v + 1] \in Int
      BY <1>2, <2>2
    <3>2. Cardinality(T) = IF part[v] > part[v + 1] - 1 THEN 0 ELSE part[v + 1] - 1 - part[v] + 1
      BY <3>1, FS_Interval
    <3> QED BY <2>2, <3>1, <3>2
  <2>6. IsFiniteSet(S)
    <3>1. S \subseteq 0 .. n - 1
      OBVIOUS
    <3> HIDE DEF S
    <3> QED BY <1>2, <3>1, Few
  <2>7. S = T
    <3> HIDE DEF S, T
    <3>1. T \in SUBSET S
      BY <2>3
    <3> QED BY <2>4, <2>5, <2>6, <3>1, FS_Subset
  <2> QED BY <1>12, <2>7
<1>14. SortedOut(q, n, a.p, part)
  BY <1>4, <1>11, <1>13 DEF SortedOut, Bracketed
<1>15. Plain(a.p)
  <2>1. a \in CycleStates(q, n)
    BY <1>2, <1>8
  <2>2. a.p \in [0 .. n - 1 -> {q[h] : h \in 0 .. n - 1}]
    BY <2>1 DEF CycleStates
  <2> QED BY <2>2 DEF Plain
<1> QED BY <1>1, <1>14, <1>15 DEF part

(* The legacy sort of a species that has particles.                        *)
LEMMA LegacyIs ==
  ASSUME deck \in Decks, NEW s \in Species, Settled(p[s], np(s)), np(s) > 0,
         p[s] = [j \in DOMAIN p[s] |-> p[s][j]]
  PROVE  SortedOut(p[s], np(s), legacy_sort_p(s).p, legacy_sort_p(s).partition)
<1> DEFINE part == CountingPartition(p[s])
<1>1. legacy_sort_p(s) = [p |-> IF deck.out_of_place THEN OutOfPlace(p[s], part) ELSE InPlace(p[s], part),
                          partition |-> part]
  BY DEF legacy_sort_p
<1>2. SortedOut(p[s], np(s), OutOfPlace(p[s], part), part)
  BY OutOfPlaceIs
<1>3. SortedOut(p[s], np(s), InPlace(p[s], part), part)
  BY InPlaceIs
<1> HIDE DEF part
<1> QED BY <1>1, <1>2, <1>3

-----------------------------------------------------------------------------
(* The kernels over the particle list: which particles a rank meets.       *)
Met(n, r) == Visited(n, r, N_PIPELINE, Lanes(r))

(* A kernel has 1, 4, 8 or 16 lanes, and the host one.                     *)
LEMMA LanesAre ==
  ASSUME deck \in Decks, NEW r \in 0 .. N_PIPELINE
  PROVE  /\ Lanes(r) \in {1, 4, 8, 16}
         /\ r = N_PIPELINE => Lanes(r) = 1
BY DeckIs DEF Lanes

(* In blocks of the vectors' width a rank misses nothing of its share.     *)
LEMMA MetIsShare ==
  ASSUME deck \in Decks, NEW n \in Nat, NEW r \in 0 .. N_PIPELINE
  PROVE  Met(n, r) = Share(n, 16, r, N_PIPELINE)
<1> DEFINE P == N_PIPELINE
           d == DISTRIBUTE(n, 16, r, P)
           w == Lanes(r)
<1>1. P \in Nat \ {0} /\ 16 \in Nat \ {0}
  BY DeckIs
<1>2. d.i \in Int /\ d.n \in Int
  BY <1>1, ShareTypes
<1>3. w \in {1, 4, 8, 16} /\ (r = P => w = 1)
  BY LanesAre
<1>4. r < P => d.n % 16 = 0
  BY <1>1, Aligned
<1>5. Met(n, r) = d.i .. d.i + w * (d.n \div w) - 1
  BY DEF Met, Visited
<1>6. Share(n, 16, r, P) = d.i .. d.i + d.n - 1
  BY DEF Share
<1>7. r < P \/ r = P
  BY <1>1
<1> HIDE DEF P, d, w
<1>8. w * (d.n \div w) = d.n
  <2>1. CASE w = 1
    BY <1>2, <2>1
  <2>2. CASE w # 1
    <3>1. d.n % 16 = 0
      BY <1>3, <1>4, <1>7, <2>2
    <3>2. d.n = 16 * (d.n \div 16)
      BY <1>2, <3>1, Division
    <3> DEFINE x == d.n \div 16
    <3>3. x \in Int /\ d.n = 16 * x
      BY <1>2, <3>2
    <3> HIDE DEF x
    <3>4. d.n \div 4 = 4 * x /\ d.n \div 8 = 2 * x /\ d.n \div 16 = x
      BY <3>3
    <3> QED BY <1>3, <2>2, <3>3, <3>4
  <2> QED BY <2>1, <2>2
<1> QED BY <1>5, <1>6, <1>8 DEF P

(* Every particle is met by exactly one rank, by the lower the earlier.    *)
LEMMA MetIs ==
  ASSUME deck \in Decks, NEW n \in Nat
  PROVE  /\ \A r \in 0 .. N_PIPELINE : Met(n, r) \subseteq 0 .. n - 1
         /\ \A i \in 0 .. n - 1 : \E r \in 0 .. N_PIPELINE : i \in Met(n, r)
         /\ \A r, t \in 0 .. N_PIPELINE : \A h \in Met(n, r), i \in Met(n, t) : r < t => h < i
<1>1. N_PIPELINE \in Nat \ {0} /\ 16 \in Nat \ {0}
  BY DeckIs
<1>2. \A r \in 0 .. N_PIPELINE : Met(n, r) = Share(n, 16, r, N_PIPELINE)
  BY MetIsShare
<1>3. ASSUME NEW r \in 0 .. N_PIPELINE PROVE Met(n, r) \subseteq 0 .. n - 1
  <2>1. Share(n, 16, r, N_PIPELINE) \subseteq 0 .. n - 1
    BY <1>1, ShareIn
  <2> QED BY <1>2, <2>1
<1>4. ASSUME NEW i \in 0 .. n - 1 PROVE \E r \in 0 .. N_PIPELINE : i \in Met(n, r)
  <2>1. PICK r \in 0 .. N_PIPELINE : i \in Share(n, 16, r, N_PIPELINE)
    BY <1>1, SharesCover
  <2> QED BY <1>2, <2>1
<1>5. ASSUME NEW r \in 0 .. N_PIPELINE, NEW t \in 0 .. N_PIPELINE, r < t,
             NEW h \in Met(n, r), NEW i \in Met(n, t)
      PROVE  h < i
  <2> DEFINE d(x) == DISTRIBUTE(n, 16, x, N_PIPELINE)
  <2>1. d(r).i + d(r).n <= d(t).i
    BY <1>1, <1>5, SharesInOrder
  <2>2. d(r).i \in Int /\ d(r).n \in Int /\ d(t).i \in Int /\ d(t).n \in Int
    BY <1>1, ShareTypes
  <2>3. h \in d(r).i .. d(r).i + d(r).n - 1 /\ i \in d(t).i .. d(t).i + d(t).n - 1
    BY <1>2 DEF Share
  <2> HIDE DEF d
  <2> QED BY <2>1, <2>2, <2>3
<1> QED BY <1>3, <1>4, <1>5

(* Two ranks meet no particle in common.                                   *)
LEMMA MetOnce ==
  ASSUME deck \in Decks, NEW n \in Nat, NEW r \in 0 .. N_PIPELINE, NEW t \in 0 .. N_PIPELINE, r # t
  PROVE  Met(n, r) \cap Met(n, t) = {}
<1> SUFFICES ASSUME NEW i \in Met(n, r), i \in Met(n, t) PROVE FALSE
  OBVIOUS
<1>1. i \in Int
  BY MetIs
<1>2. r < t \/ t < r
  BY DeckIs
<1>3. r < t => i < i
  BY MetIs
<1>4. t < r => i < i
  BY MetIs
<1> QED BY <1>1, <1>2, <1>3, <1>4

(* Whatever the version, a kernel does what it is for to those it meets.   *)
LEMMA KernelsAre ==
  ASSUME deck \in Decks, NEW q, NEW s, NEW m, NEW r \in 0 .. N_PIPELINE
  PROVE  /\ center_p_pipeline(q, r) = Kick(q, Met(Cardinality(DOMAIN q), r), 1)
         /\ uncenter_p_pipeline(q, r) = Kick(q, Met(Cardinality(DOMAIN q), r), -1)
         /\ energy_p_pipeline(q, r) = Cardinality(Met(Cardinality(DOMAIN q), r))
         /\ accumulate_hydro_p_pipeline(q, r) = Cardinality(Met(Cardinality(DOMAIN q), r))
         /\ advance_p_pipeline(s, r, m) = Advance(s, r, Lanes(r), m)
<1>1. Lanes(r) \in {1, 4, 8, 16}
  BY LanesAre
<1>2. center_p_pipeline(q, r) = Kick(q, Met(Cardinality(DOMAIN q), r), 1)
  BY <1>1 DEF center_p_pipeline, center_p_pipeline_scalar, center_p_pipeline_v4,
              center_p_pipeline_v8, center_p_pipeline_v16, Met, Mine
<1>3. uncenter_p_pipeline(q, r) = Kick(q, Met(Cardinality(DOMAIN q), r), -1)
  BY <1>1 DEF uncenter_p_pipeline, uncenter_p_pipeline_scalar, uncenter_p_pipeline_v4,
              uncenter_p_pipeline_v8, uncenter_p_pipeline_v16, Met, Mine
<1>4. energy_p_pipeline(q, r) = Cardinality(Met(Cardinality(DOMAIN q), r))
  BY <1>1 DEF energy_p_pipeline, energy_p_pipeline_scalar, energy_p_pipeline_v4,
              energy_p_pipeline_v8, energy_p_pipeline_v16, Met, Mine
<1>5. accumulate_hydro_p_pipeline(q, r) = Cardinality(Met(Cardinality(DOMAIN q), r))
  BY <1>1 DEF accumulate_hydro_p_pipeline, accumulate_hydro_p_pipeline_scalar,
              accumulate_hydro_p_pipeline_v4, accumulate_hydro_p_pipeline_v8,
              accumulate_hydro_p_pipeline_v16, Met, Mine
<1>6. advance_p_pipeline(s, r, m) = Advance(s, r, Lanes(r), m)
  BY <1>1 DEF advance_p_pipeline, advance_p_pipeline_scalar, advance_p_pipeline_v4,
              advance_p_pipeline_v8, advance_p_pipeline_v16
<1> QED BY <1>2, <1>3, <1>4, <1>5, <1>6

-----------------------------------------------------------------------------
(* What a kick changes: the time of those it is for.                       *)
Kicked(q, n, S, dt, b) ==
  /\ DOMAIN b = 0 .. n - 1
  /\ \A i \in 0 .. n - 1 : b[i] = IF i \in S THEN [q[i] EXCEPT !.t = @ + dt] ELSE q[i]
(* A kick changes the times of those it is for, and nothing else.          *)
LEMMA KickIs ==
  ASSUME NEW q, NEW n, DOMAIN q = 0 .. n - 1, NEW S, NEW dt
  PROVE  Kicked(q, n, S, dt, Kick(q, S, dt))
BY DEF Kicked, Kick

(* A kicked particle is a particle, the same one in the same voxel.        *)
LEMMA WholeKick ==
  ASSUME NEW x, Whole(x), NEW dt
  PROVE  LET y == [x EXCEPT !.t = @ + dt]
         IN Whole(y) /\ y.id = x.id /\ y.i = x.i /\ y.t = x.t + dt /\ y.c = x.c
<1>1. x = [id |-> x.id, i |-> x.i, t |-> x.t, c |-> x.c]
  BY DEF Whole
<1> DEFINE y == [x EXCEPT !.t = @ + dt]
<1>2. y = [id |-> x.id, i |-> x.i, t |-> x.t + dt, c |-> x.c]
  BY <1>1
<1>3. y.id = x.id /\ y.i = x.i /\ y.t = x.t + dt /\ y.c = x.c
  BY <1>2
<1> HIDE DEF y
<1>4. Whole(y)
  BY <1>2, <1>3 DEF Whole
<1> QED BY <1>3, <1>4 DEF y

(* A list of the same particles in the same places.                        *)
Alter(q, b, n) ==
  /\ List(b, n)
  /\ \A i \in 0 .. n - 1 : b[i].id = q[i].id /\ b[i].i = q[i].i
(* A list altered so has the same particles.                               *)
LEMMA AlterIds ==
  ASSUME NEW q, NEW n, List(q, n), NEW b, Alter(q, b, n)
  PROVE  Ids(b) = Ids(q)
<1>1. DOMAIN q = 0 .. n - 1 /\ DOMAIN b = 0 .. n - 1 /\ \A i \in 0 .. n - 1 : b[i].id = q[i].id
  BY DEF Alter, List
<1> QED BY <1>1 DEF Ids

(* A kicked list is a list of the same particles in the same voxels.       *)
LEMMA KickedList ==
  ASSUME NEW q, NEW n, List(q, n), NEW S, NEW dt, NEW b, Kicked(q, n, S, dt, b)
  PROVE  /\ Alter(q, b, n)
         /\ \A i \in 0 .. n - 1 : b[i].t = IF i \in S THEN q[i].t + dt ELSE q[i].t
<1>1. /\ n \in Nat /\ DOMAIN q = 0 .. n - 1 /\ \A i \in 0 .. n - 1 : Whole(q[i])
      /\ \A i, j \in 0 .. n - 1 : q[i].id = q[j].id => i = j
  BY DEF List
<1>2. /\ DOMAIN b = 0 .. n - 1
      /\ \A i \in 0 .. n - 1 : b[i] = IF i \in S THEN [q[i] EXCEPT !.t = @ + dt] ELSE q[i]
  BY DEF Kicked
<1>3. ASSUME NEW i \in 0 .. n - 1
      PROVE  /\ Whole(b[i]) /\ b[i].id = q[i].id /\ b[i].i = q[i].i
             /\ b[i].t = IF i \in S THEN q[i].t + dt ELSE q[i].t
  <2>1. CASE i \in S
    <3>1. Whole(q[i]) /\ b[i] = [q[i] EXCEPT !.t = @ + dt]
      BY <1>1, <1>2, <2>1
    <3> QED BY <2>1, <3>1, WholeKick
  <2>2. CASE i \notin S
    BY <1>1, <1>2, <2>2
  <2> QED BY <2>1, <2>2
<1>4. List(b, n)
  BY <1>1, <1>2, <1>3 DEF List
<1> QED BY <1>3, <1>4 DEF Alter

-----------------------------------------------------------------------------
(* The advance: the room every rank has for movers.                        *)
Room(n, max_nm, r) == Reserved(n, max_nm, r, N_PIPELINE)

(* Shares begin at the cuts of the blocks.                                 *)
LEMMA ShareStarts ==
  ASSUME NEW N \in Nat, NEW b \in Nat \ {0}, NEW P \in Nat \ {0}, NEW r \in 0 .. P
  PROVE  /\ DISTRIBUTE(N, b, r, P).i = b * Cut(N \div b, r, P)
         /\ r < P => DISTRIBUTE(N, b, r, P).n = b * Cut(N \div b, r + 1, P) - b * Cut(N \div b, r, P)
<1>1. ShareAt(N, b, r, P)
  BY ShareIsAt, Zenon
<1> QED BY <1>1, Zenon DEF ShareAt

(* The rooms that advance_p gives its ranks lie one after the other in the *)
(* mover list, and end within it.                                          *)
LEMMA RoomIs ==
  ASSUME deck \in Decks, NEW n \in Nat, NEW max_nm \in Nat
  PROVE  /\ \A r \in 0 .. N_PIPELINE :
              /\ Room(n, max_nm, r).i \in Nat /\ Room(n, max_nm, r).n \in Nat
              /\ Room(n, max_nm, r).i + Room(n, max_nm, r).n <= max_nm
         /\ \A r, t \in 0 .. N_PIPELINE :
              r < t => Room(n, max_nm, r).i + Room(n, max_nm, r).n <= Room(n, max_nm, t).i
<1> DEFINE P == N_PIPELINE
           N == Max({0, max_nm - (n % 16)})
           d(r) == DISTRIBUTE(N, 8, r, P)
           R(r) == Room(n, max_nm, r)
<1>1. P \in Nat \ {0} /\ 8 \in Nat \ {0}
  BY DeckIs
<1>2. N \in Nat /\ N <= max_nm
  <2>1. n % 16 \in Nat
    BY Division
  <2> DEFINE x == max_nm - (n % 16)
  <2>2. x \in Int /\ x <= max_nm
    BY <2>1
  <2> HIDE DEF x
  <2>3. Max({0, x}) \in {0, x} /\ \A y \in {0, x} : Max({0, x}) >= y
    <3> DEFINE m == IF x >= 0 THEN x ELSE 0
    <3>1. m \in {0, x} /\ \A y \in {0, x} : m >= y
      BY <2>2
    <3> HIDE DEF m
    <3> QED BY <3>1 DEF Max
  <2> QED BY <2>2, <2>3 DEF x
<1>3. \A r \in 0 .. P : R(r).i = d(r).i /\ R(r).n = IF r = P THEN max_nm - d(r).i ELSE d(r).n
  BY DEF Room, Reserved
<1> HIDE DEF N
<1>4. \A r \in 0 .. P : d(r).i \in Int /\ d(r).n \in Int
  BY <1>1, <1>2, ShareTypes
<1>5. \A r, t \in 0 .. P : r < t => d(r).i + d(r).n <= d(t).i
  BY <1>1, <1>2, SharesInOrder
<1>6. ASSUME NEW r \in 0 .. P PROVE d(r).i \in Nat /\ d(r).i <= N /\ (r < P => d(r).n \in Nat)
  <2>1. /\ d(r).i = 8 * Cut(N \div 8, r, P) /\ Cut(N \div 8, r, P) \in Nat
        /\ r < P => d(r).n = 8 * Cut(N \div 8, r + 1, P) - 8 * Cut(N \div 8, r, P)
    <3> HIDE DEF P
    <3>1. ShareAt(N, 8, r, P)
      <4> DEFINE b == 8
      <4>1. b \in Nat \ {0}
        OBVIOUS
      <4> HIDE DEF b
      <4>2. ShareAt(N, b, r, P)
        BY <1>1, <1>2, <4>1, ShareIsAt, Zenon
      <4> QED BY <4>2 DEF b
    <3> QED BY <3>1, Zenon DEF ShareAt
  <2>2. d(r).i \in Nat
    BY <2>1
  <2>3. N \div 8 \in Nat /\ N = 8 * (N \div 8) + (N % 8) /\ N % 8 \in Nat
    BY <1>2, Division
  <2>4. Cut(N \div 8, r, P) <= N \div 8
    <3>1. Cut(N \div 8, P, P) = N \div 8
      BY <1>1, <2>3, CutEnds
    <3>2. Cut(N \div 8, r, P) <= Cut(N \div 8, P, P)
      BY <1>1, <2>3, CutOrder
    <3> QED BY <3>1, <3>2
  <2>5. ASSUME r < P PROVE d(r).n \in Nat
    <3>1. Cut(N \div 8, r, P) <= Cut(N \div 8, r + 1, P)
      BY <1>1, <2>3, CutOrder
    <3>2. Cut(N \div 8, r + 1, P) \in Nat
      <4>1. r + 1 \in Nat
        BY <1>1
      <4> HIDE DEF P
      <4> QED BY <1>1, <2>3, <4>1, CutBounds
    <3> HIDE DEF d
    <3> QED BY <2>1, <2>5, <3>1, <3>2
  <2>6. d(r).i <= N
    <3> HIDE DEF d
    <3> QED BY <1>2, <2>1, <2>3, <2>4
  <2> QED BY <2>2, <2>5, <2>6
<1> HIDE DEF R, d
<1>7. ASSUME NEW r \in 0 .. P PROVE R(r).i \in Nat /\ R(r).n \in Nat /\ R(r).i + R(r).n <= max_nm
  <2>1. CASE r = P
    BY <1>2, <1>3, <1>6, <2>1
  <2>2. CASE r < P
    <3>1. d(r).i + d(r).n <= d(P).i /\ d(P).i <= N
      BY <1>1, <1>5, <1>6, <2>2
    <3>2. d(P).i \in Int
      BY <1>1, <1>4
    <3> QED BY <1>1, <1>2, <1>3, <1>6, <2>2, <3>1, <3>2
  <2> QED BY <1>1, <2>1, <2>2
<1>8. ASSUME NEW r \in 0 .. P, NEW t \in 0 .. P, r < t PROVE R(r).i + R(r).n <= R(t).i
  <2>1. r # P
    BY <1>1, <1>8
  <2> QED BY <1>3, <1>5, <1>8, <2>1
<1> QED BY <1>7, <1>8 DEF R, P

-----------------------------------------------------------------------------
(* What a rank leaves: particles advanced, those that stopped at a face    *)
(* listed in order in its room, the rest in the box.                       *)
Segment(q, list, S, room, g) ==
  /\ g.pm = room.i /\ g.nm \in Nat /\ g.nm <= room.n
  /\ \A k \in 0 .. g.nm - 1 : list[room.i + k] \in S
  /\ \A k, l \in 0 .. g.nm - 1 : k < l => list[room.i + k] < list[room.i + l]
  /\ \A i \in S : IF \E k \in 0 .. g.nm - 1 : list[room.i + k] = i THEN q[i].i \in Faces
                                                                  ELSE q[i].i \in Box
Moved(q, b, n, S) ==
  /\ List(b, n) /\ \A i \in 0 .. n - 1 : b[i].id = q[i].id
  /\ \A i \in 0 .. n - 1 : i \notin S => b[i] = q[i]
  /\ \A i \in S : b[i].t = q[i].t + 2
Writes(list, new, room) ==
  /\ DOMAIN new = DOMAIN list
  /\ \A k \in DOMAIN list : k \notin room.i .. room.i + room.n - 1 => new[k] = list[k]

(* The k-th place of a room is in the array, and after its first one.      *)
LEMMA RoomWithin ==
  ASSUME NEW N \in Nat, NEW b \in Nat, NEW c \in Nat, b + c <= N, NEW d \in Nat, d <= c,
         NEW k \in 0 .. d - 1
  PROVE  b + k \in 0 .. N - 1 /\ (b + k) - b = k
OBVIOUS

(* What is in a run is before what is in a later one.                      *)
LEMMA RunsApart ==
  ASSUME NEW k \in Int, NEW l \in Int, NEW x \in Nat, NEW y \in Nat, NEW c \in Nat, NEW d \in Nat,
         k - x \in 0 .. c - 1, l - y \in 0 .. d - 1, y + d <= x
  PROVE  ~ (k <= l)
OBVIOUS

(* Of two numbers, which are Min and Max.                                  *)
LEMMA LesserIs ==
  ASSUME NEW x \in Int, NEW y \in Int
  PROVE  /\ Min({x, y}) \in {x, y} /\ Min({x, y}) <= x /\ Min({x, y}) <= y
         /\ Max({x, y}) \in {x, y} /\ x <= Max({x, y}) /\ y <= Max({x, y})
<1>1. Min({x, y}) \in {x, y} /\ \A z \in {x, y} : Min({x, y}) <= z
  <2> DEFINE m == IF x <= y THEN x ELSE y
  <2>1. m \in {x, y} /\ \A z \in {x, y} : m <= z
    OBVIOUS
  <2> HIDE DEF m
  <2> QED BY <2>1 DEF Min
<1>2. Max({x, y}) \in {x, y} /\ \A z \in {x, y} : Max({x, y}) >= z
  <2> DEFINE m == IF x >= y THEN x ELSE y
  <2>1. m \in {x, y} /\ \A z \in {x, y} : m >= z
    OBVIOUS
  <2> HIDE DEF m
  <2> QED BY <2>1 DEF Max
<1> QED BY <1>1, <1>2

(* A particle moved to another voxel is a particle, the same one two half  *)
(* steps on.                                                               *)
LEMMA WholeMove ==
  ASSUME NEW x, Whole(x), NEW v
  PROVE  \A y : y = [x EXCEPT !.t = @ + 2, !.i = v]
                  => Whole(y) /\ y.id = x.id /\ y.i = v /\ y.t = x.t + 2
<1> SUFFICES ASSUME NEW y, y = [x EXCEPT !.t = @ + 2, !.i = v]
             PROVE  Whole(y) /\ y.id = x.id /\ y.i = v /\ y.t = x.t + 2
  OBVIOUS
<1>1. x = [id |-> x.id, i |-> x.i, t |-> x.t, c |-> x.c]
  BY DEF Whole
<1>2. y = [id |-> x.id, i |-> v, t |-> x.t + 2, c |-> x.c]
  <2> DEFINE id == x.id
             i == x.i
             t == x.t
             c == x.c
  <2>1. x = [id |-> id, i |-> i, t |-> t, c |-> c]
    BY <1>1
  <2> HIDE DEF id, i, t, c
  <2>2. y = [id |-> id, i |-> v, t |-> t + 2, c |-> c]
    BY <2>1
  <2> QED BY <2>2 DEF id, t, c
<1>3. y.id = x.id /\ y.i = v /\ y.t = x.t + 2 /\ y.c = x.c
  BY <1>2
<1>4. Whole(y)
  BY <1>2, <1>3 DEF Whole
<1> QED BY <1>3, <1>4

(* Where the push takes a particle of the box.                             *)
LEMMA MoveIs ==
  ASSUME deck \in Decks, NEW motion \in deck.motions, NEW v \in Box, NEW id
  PROVE  IF id \in motion.leave
           THEN move_p(v, id, motion) \in Faces /\ move_p(v, id, motion) \div 8 = v
           ELSE move_p(v, id, motion) \in Box
<1>1. motion.face \in Face
  BY DecksAssumption DEF DeckOK
<1>2. v \in Nat
  BY BoxIs
<1>3. CASE id \in motion.leave
  <2>1. move_p(v, id, motion) = 8 * v + motion.face
    BY <1>3 DEF move_p
  <2>2. 8 * v + motion.face \in Faces
    BY <1>1 DEF Faces
  <2>3. (8 * v + motion.face) \div 8 = v
    BY <1>1, <1>2 DEF Face
  <2> QED BY <1>3, <2>1, <2>2, <2>3
<1>4. CASE id \notin motion.leave
  BY <1>4, BoxIs DEF move_p
<1> QED BY <1>3, <1>4

(* A rank of advance_p moves the particles of its share, writes movers in  *)
(* its room only, and leaves a segment in order (advance_p.cc).            *)
LEMMA AdvanceIs ==
  ASSUME deck \in Decks, NEW s \in Species, NEW n, n = np(s), List(p[s], n),
         NEW N \in Nat, N = deck.species[s].max_nm, DOMAIN pm[s] = 0 .. N - 1,
         NEW rank \in 0 .. N_PIPELINE, NEW motion \in deck.motions,
         \A i \in Met(n, rank) : p[s][i].i \in Box
  PROVE  LET r == Advance(s, rank, Lanes(rank), motion)
         IN /\ Moved(p[s], r.p, n, Met(n, rank))
            /\ Writes(pm[s], r.pm, Room(n, N, rank))
            /\ Segment(r.p, r.pm, Met(n, rank), Room(n, N, rank), r.seg)
<1> DEFINE q == p[s]
           mine == Met(n, rank)
           room == Room(n, N, rank)
           gone == {i \in mine : q[i].id \in motion.leave}
           out == Below(n, gone)
           kept == Min({Len(out), room.n})
           ignored == {out[k] : k \in kept + 1 .. Len(out)}
           to(i) == move_p(q[i].i, q[i].id, motion)
           r == Advance(s, rank, Lanes(rank), motion)
<1>1. /\ r.p = [i \in DOMAIN q |->
                  IF i \notin mine THEN q[i]
                  ELSE [q[i] EXCEPT !.t = @ + 2, !.i = IF i \in ignored THEN to(i) \div 8 ELSE to(i)]]
      /\ r.pm = [k \in DOMAIN pm[s] |-> IF k - room.i \in 0 .. kept - 1
                                          THEN out[k - room.i + 1] ELSE pm[s][k]]
      /\ r.seg = [pm |-> room.i, nm |-> kept, n_ignored |-> Len(out) - kept]
  BY DEF Advance, Met, Room
<1>2. /\ n \in Nat /\ DOMAIN q = 0 .. n - 1 /\ \A i \in 0 .. n - 1 : Whole(q[i])
      /\ \A i, j \in 0 .. n - 1 : q[i].id = q[j].id => i = j
  BY DEF List
<1>3. mine \subseteq 0 .. n - 1
  BY <1>2, MetIs
<1>4. out \in Seq(0 .. n - 1) /\ Ordered(out) /\ Lists(out, gone \cap (0 .. n - 1))
  BY <1>2, BelowIs
<1>5. gone \cap (0 .. n - 1) = gone
  BY <1>3
<1>6. room.i \in Nat /\ room.n \in Nat /\ room.i + room.n <= N
  BY <1>2, RoomIs
<1>7. Len(out) \in Nat /\ kept \in Nat /\ kept <= room.n /\ kept <= Len(out)
  <2>1. Len(out) \in Nat
    <3> HIDE DEF out
    <3> QED BY <1>4
  <2> HIDE DEF out, room
  <2>2. room.n \in Int /\ Len(out) \in Int
    BY <1>6, <2>1
  <2>3. kept \in {Len(out), room.n} /\ kept <= Len(out) /\ kept <= room.n
    BY <2>2, LesserIs
  <2> HIDE DEF kept
  <2> QED BY <1>6, <2>1, <2>3
<1>8. /\ \A k \in 1 .. Len(out) : out[k] \in gone
      /\ \A i \in gone : \E k \in 1 .. Len(out) : out[k] = i
      /\ \A k, l \in 1 .. Len(out) : k < l => out[k] < out[l]
  <2>1. Lists(out, gone)
    BY <1>4, <1>5
  <2>2. \A i \in gone : i \in Nat
    BY <1>3
  <2> HIDE DEF out, gone
  <2>3. Len(out) \in Nat /\ \A k \in 1 .. Len(out) : out[k] \in Nat
    BY <1>2, <1>4
  <2>4. \A k \in 1 .. Len(out) : out[k] \in gone
    BY <2>1, <2>3 DEF Lists
  <2>5. \A i \in gone : \E k \in 1 .. Len(out) : out[k] = i
    BY <2>1, <2>2 DEF Lists
  <2>6. \A k, l \in 1 .. Len(out) : k < l => out[k] < out[l]
    BY <1>4 DEF Ordered
  <2> QED BY <2>4, <2>5, <2>6
<1>9. \A i \in gone : i \in mine /\ q[i].id \in motion.leave /\ i \in Int
  BY <1>3
<1>10. \A i \in mine : q[i].id \in motion.leave => i \in gone
  OBVIOUS
<1>11. \A i : i \in ignored <=> \E k \in kept + 1 .. Len(out) : out[k] = i
  OBVIOUS
<1> HIDE DEF r, mine, room, gone, out, kept, ignored, to
<1>12. \A i \in 0 .. n - 1 :
         /\ i \notin mine => r.p[i] = q[i]
         /\ i \in mine => r.p[i] = [q[i] EXCEPT !.t = @ + 2,
                                       !.i = IF i \in ignored THEN to(i) \div 8 ELSE to(i)]
  BY <1>1, <1>2
<1>13. \A i \in mine : /\ Whole(r.p[i]) /\ r.p[i].id = q[i].id /\ r.p[i].t = q[i].t + 2
                       /\ r.p[i].i = IF i \in ignored THEN to(i) \div 8 ELSE to(i)
  <2> SUFFICES ASSUME NEW i \in mine
               PROVE  /\ Whole(r.p[i]) /\ r.p[i].id = q[i].id /\ r.p[i].t = q[i].t + 2
                      /\ r.p[i].i = IF i \in ignored THEN to(i) \div 8 ELSE to(i)
    OBVIOUS
  <2> DEFINE v == IF i \in ignored THEN to(i) \div 8 ELSE to(i)
  <2>1. Whole(q[i]) /\ r.p[i] = [q[i] EXCEPT !.t = @ + 2, !.i = v]
    BY <1>2, <1>3, <1>12
  <2> HIDE DEF v
  <2>2. Whole(r.p[i]) /\ r.p[i].id = q[i].id /\ r.p[i].i = v /\ r.p[i].t = q[i].t + 2
    <3>1. \A y : y = [q[i] EXCEPT !.t = @ + 2, !.i = v]
                    => Whole(y) /\ y.id = q[i].id /\ y.i = v /\ y.t = q[i].t + 2
      BY <2>1, WholeMove, Zenon
    <3> HIDE DEF q
    <3> QED BY <2>1, <3>1
  <2> QED BY <2>2 DEF v
<1>14. Moved(q, r.p, n, mine)
  <2>1. DOMAIN r.p = 0 .. n - 1
    BY <1>1, <1>2
  <2>2. \A i \in 0 .. n - 1 : Whole(r.p[i]) /\ r.p[i].id = q[i].id
    BY <1>2, <1>12, <1>13
  <2>3. List(r.p, n)
    BY <1>2, <2>1, <2>2 DEF List
  <2> QED BY <1>12, <1>13, <2>2, <2>3 DEF Moved
<1>15. /\ DOMAIN r.pm = DOMAIN pm[s]
       /\ \A k \in DOMAIN pm[s] : r.pm[k] = IF k - room.i \in 0 .. kept - 1
                                             THEN out[k - room.i + 1] ELSE pm[s][k]
  BY <1>1
<1>16. Writes(pm[s], r.pm, room)
  <2> SUFFICES ASSUME NEW k \in 0 .. N - 1, k \notin room.i .. room.i + room.n - 1
               PROVE  k - room.i \notin 0 .. kept - 1
    BY <1>15 DEF Writes
  <2> QED BY <1>6, <1>7
<1>17. r.seg.pm = room.i /\ r.seg.nm = kept
  <2>1. r.seg = [pm |-> room.i, nm |-> kept, n_ignored |-> Len(out) - kept]
    BY <1>1
  <2> QED BY <2>1
<1>18. \A k \in 0 .. kept - 1 : r.pm[room.i + k] = out[k + 1] /\ k + 1 \in 1 .. Len(out)
  <2> SUFFICES ASSUME NEW k \in 0 .. kept - 1
               PROVE  r.pm[room.i + k] = out[k + 1] /\ k + 1 \in 1 .. Len(out)
    OBVIOUS
  <2> DEFINE j == room.i + k
  <2>1. j \in DOMAIN pm[s] /\ j - room.i = k
    <3>1. j \in 0 .. N - 1 /\ j - room.i = k
      BY ONLY N \in Nat, k \in 0 .. kept - 1, <1>6, <1>7, RoomWithin
    <3> HIDE DEF j
    <3> QED BY <3>1
  <2>2. k \in 0 .. kept - 1
    BY Zenon
  <2> HIDE DEF j
  <2>3. r.pm[j] = out[k + 1]
    BY <1>15, <2>1, <2>2, Zenon
  <2>4. k + 1 \in 1 .. Len(out)
    BY <1>7
  <2> QED BY <2>3, <2>4 DEF j
<1>19. \A k \in 0 .. kept - 1 : r.pm[room.i + k] \in mine
  BY <1>8, <1>9, <1>18
<1>20. \A k, l \in 0 .. kept - 1 : k < l => r.pm[room.i + k] < r.pm[room.i + l]
  <2> SUFFICES ASSUME NEW k \in 0 .. kept - 1, NEW l \in 0 .. kept - 1, k < l
               PROVE  out[k + 1] < out[l + 1]
    BY <1>18
  <2> QED BY <1>7, <1>8, <1>18
<1>21. ASSUME NEW i \in mine
       PROVE  IF \E k \in 0 .. kept - 1 : r.pm[room.i + k] = i THEN r.p[i].i \in Faces
                                                               ELSE r.p[i].i \in Box
  <2>1. /\ q[i].id \in motion.leave => to(i) \in Faces /\ to(i) \div 8 \in Box
        /\ q[i].id \notin motion.leave => to(i) \in Box
    <3>1. q[i].i \in Box
      BY DEF mine
    <3>2. IF q[i].id \in motion.leave THEN to(i) \in Faces /\ to(i) \div 8 = q[i].i ELSE to(i) \in Box
      BY <3>1, MoveIs DEF to
    <3> QED BY <3>1, <3>2
  <2>2. CASE \E k \in 0 .. kept - 1 : r.pm[room.i + k] = i
    <3>1. PICK k \in 0 .. kept - 1 : out[k + 1] = i
      BY <1>18, <2>2
    <3>2. i \in gone
      BY <1>8, <1>18, <3>1
    <3>3. i \notin ignored
      <4> SUFFICES ASSUME NEW l \in kept + 1 .. Len(out), out[l] = i PROVE FALSE
        BY <1>11
      <4>1. l \in 1 .. Len(out) /\ k + 1 \in 1 .. Len(out) /\ k + 1 < l
        BY <1>7, <1>18
      <4>2. out[k + 1] < out[l]
        BY <1>8, <4>1
      <4> QED BY <1>9, <3>1, <3>2, <4>2
    <3> QED BY <1>9, <1>13, <2>1, <2>2, <3>2, <3>3
  <2>3. CASE ~ \E k \in 0 .. kept - 1 : r.pm[room.i + k] = i
    <3>1. i \in gone => i \in ignored
      <4> SUFFICES ASSUME i \in gone PROVE i \in ignored
        OBVIOUS
      <4>1. PICK l \in 1 .. Len(out) : out[l] = i
        BY <1>8
      <4>2. l > kept
        <5> SUFFICES ASSUME l <= kept PROVE FALSE
          BY <1>7
        <5>1. l - 1 \in 0 .. kept - 1 /\ (l - 1) + 1 = l
          BY <1>7
        <5> QED BY <1>18, <2>3, <4>1, <5>1
      <4>3. l \in kept + 1 .. Len(out)
        BY <1>7, <4>2
      <4> QED BY <1>11, <4>1, <4>3
    <3>2. i \in ignored => i \in gone
      <4> SUFFICES ASSUME NEW l \in kept + 1 .. Len(out), out[l] = i PROVE i \in gone
        BY <1>11
      <4>1. l \in 1 .. Len(out)
        BY <1>7
      <4> QED BY <1>8, <4>1
    <3> QED BY <1>9, <1>10, <1>13, <2>1, <2>3, <3>1, <3>2
  <2> QED BY <2>2, <2>3
<1>22. Segment(r.p, r.pm, mine, room, r.seg)
  BY <1>7, <1>17, <1>19, <1>20, <1>21 DEF Segment
<1> QED BY <1>14, <1>16, <1>22 DEF r, mine, room

-----------------------------------------------------------------------------
(* The segments moved together.                                            *)

(* A sum of the sizes of disjoint sets of items, rank by rank.             *)
Adds(f, P) ==
  /\ Sum(0 .. 0 - 1, f) = 0
  /\ \A r \in 0 .. P : /\ Sum(0 .. r - 1, f) \in Nat /\ f[r] \in Nat
                       /\ Sum(0 .. r, f) = Sum(0 .. r - 1, f) + f[r]
(* Sums of the sizes of disjoint sets grow by one size at a time.          *)
LEMMA SumSteps ==
  ASSUME NEW n \in Nat, NEW P \in Nat, NEW f, NEW C,
         \A x \in 0 .. P : C[x] \subseteq 0 .. n - 1 /\ f[x] = Cardinality(C[x]),
         \A x, y \in 0 .. P : x # y => C[x] \cap C[y] = {}
  PROVE  Adds(f, P)
<1> DEFINE U(r) == UNION {C[x] : x \in 0 .. r}
<1>1. ASSUME NEW r \in Int, r <= P
      PROVE  Sum(0 .. r, f) = Cardinality(U(r)) /\ U(r) \subseteq 0 .. n - 1
  <2> DEFINE S == 0 .. r
  <2>1. IsFiniteSet(S)
    BY FS_Interval
  <2>2. \A x \in S : x \in 0 .. P
    BY <1>1
  <2> HIDE DEF S
  <2>3. \A x \in S : C[x] \subseteq 0 .. n - 1
    BY <2>2
  <2>4. \A x \in S : IsFiniteSet(C[x]) /\ f[x] = Cardinality(C[x])
    <3> SUFFICES ASSUME NEW x \in S PROVE IsFiniteSet(C[x]) /\ f[x] = Cardinality(C[x])
      OBVIOUS
    <3>1. C[x] \subseteq 0 .. n - 1
      BY <2>3
    <3>2. IsFiniteSet(C[x])
      BY <3>1, Few
    <3> QED BY <2>2, <3>2
  <2>5. \A x, y \in S : x # y => C[x] \cap C[y] = {}
    BY <2>2
  <2>6. Sum(S, f) = Cardinality(UNION {C[x] : x \in S})
    BY <2>1, <2>4, <2>5, SumIs
  <2>7. UNION {C[x] : x \in S} \subseteq 0 .. n - 1
    BY <2>3
  <2> QED BY <2>6, <2>7 DEF S
<1>2. Sum(0 .. 0 - 1, f) = 0
  <2>1. Sum(0 .. -1, f) = Cardinality(U(-1))
    BY <1>1
  <2>2. U(-1) = {} /\ 0 - 1 = -1
    OBVIOUS
  <2> HIDE DEF U
  <2> QED BY <2>1, <2>2, FS_EmptySet
<1>3. ASSUME NEW r \in 0 .. P
      PROVE  /\ Sum(0 .. r - 1, f) \in Nat /\ f[r] \in Nat
             /\ Sum(0 .. r, f) = Sum(0 .. r - 1, f) + f[r]
  <2>1. Sum(0 .. r - 1, f) = Cardinality(U(r - 1)) /\ U(r - 1) \subseteq 0 .. n - 1
    <3> DEFINE z == r - 1
    <3>1. z \in Int /\ z <= P
      OBVIOUS
    <3> HIDE DEF z
    <3>2. Sum(0 .. z, f) = Cardinality(U(z)) /\ U(z) \subseteq 0 .. n - 1
      BY <1>1, <3>1
    <3> QED BY <3>2 DEF z
  <2>2. Sum(0 .. r, f) = Cardinality(U(r)) /\ U(r) \subseteq 0 .. n - 1
    BY <1>1
  <2>3. U(r) = U(r - 1) \cup C[r]
    <3>1. 0 .. r = (0 .. r - 1) \cup {r}
      OBVIOUS
    <3> QED BY <3>1
  <2>4. U(r - 1) \cap C[r] = {}
    <3>1. \A x \in 0 .. r - 1 : x \in 0 .. P /\ x # r
      OBVIOUS
    <3>2. \A x \in 0 .. r - 1 : C[x] \cap C[r] = {}
      BY <3>1
    <3> QED BY <3>2
  <2> HIDE DEF U
  <2>5. Cardinality(U(r)) = Cardinality(U(r - 1)) + Cardinality(C[r])
    BY <2>2, <2>3, <2>4, TwoParts
  <2>6. Cardinality(U(r - 1)) \in Nat /\ Cardinality(C[r]) \in Nat
    BY <2>1, Few
  <2> QED BY <2>1, <2>2, <2>5, <2>6
<1> QED BY <1>2, <1>3 DEF Adds

(* The movers are those of the particles that stopped at a face, in order. *)
MoversOK(q, n, list, m) ==
  /\ m \in Nat
  /\ \A k \in 0 .. m - 1 : list[k] \in 0 .. n - 1
  /\ \A k, l \in 0 .. m - 1 : k < l => list[k] < list[l]
  /\ \A i \in 0 .. n - 1 : IF \E k \in 0 .. m - 1 : list[k] = i THEN q[i].i \in Faces
                                                               ELSE q[i].i \in Box

(* The segments of all ranks.                                              *)
Segments(q, n, list, N, segs) ==
  /\ DOMAIN segs = 0 .. N_PIPELINE
  /\ \A r \in 0 .. N_PIPELINE : Segment(q, list, Met(n, r), Room(n, N, r), segs[r])

(* Before a rank's movers there is no more than its room leaves.           *)
Before(segs, r) == Sum(0 .. r - 1, [x \in DOMAIN segs |-> segs[x].nm])
(* The sum goes up by a segment at a rank, and no segment begins before    *)
(* where it is to be moved.                                                *)
LEMMA BeforeIs ==
  ASSUME deck \in Decks, NEW n \in Nat, NEW N \in Nat, NEW q, NEW list, NEW segs,
         Segments(q, n, list, N, segs)
  PROVE  /\ Before(segs, 0) = 0
         /\ \A r \in 0 .. N_PIPELINE :
              /\ Before(segs, r) \in Nat /\ segs[r].nm \in Nat /\ Before(segs, r + 1) \in Nat
              /\ Before(segs, r + 1) = Before(segs, r) + segs[r].nm
              /\ Before(segs, r) <= Room(n, N, r).i
<1> DEFINE P == N_PIPELINE
           f == [x \in DOMAIN segs |-> segs[x].nm]
           C == [x \in 0 .. P |-> {list[Room(n, N, x).i + k] : k \in 0 .. segs[x].nm - 1}]
           B(r) == Before(segs, r)
<1>1. DOMAIN segs = 0 .. P /\ P \in Nat
      /\ \A r \in 0 .. P : Segment(q, list, Met(n, r), Room(n, N, r), segs[r])
  BY DeckIs DEF Segments
<1>2. \A r \in 0 .. P :
        /\ segs[r].nm \in Nat /\ segs[r].nm <= Room(n, N, r).n
        /\ \A k \in 0 .. segs[r].nm - 1 : list[Room(n, N, r).i + k] \in Met(n, r)
        /\ \A k, l \in 0 .. segs[r].nm - 1 :
             k < l => list[Room(n, N, r).i + k] < list[Room(n, N, r).i + l]
  BY <1>1 DEF Segment
<1>3. /\ \A r \in 0 .. P : Met(n, r) \subseteq 0 .. n - 1
      /\ \A r, t \in 0 .. P : r # t => Met(n, r) \cap Met(n, t) = {}
  <2>1. \A r, t \in 0 .. P : r # t => Met(n, r) \cap Met(n, t) = {}
    BY MetOnce
  <2> QED BY <2>1, MetIs
<1> HIDE DEF P
<1>4. \A r \in 0 .. P : f[r] = segs[r].nm
  BY <1>1
<1>5. ASSUME NEW x \in 0 .. P
      PROVE  C[x] \subseteq Met(n, x) /\ f[x] = Cardinality(C[x])
  <2> DEFINE m == segs[x].nm
             h == [k \in 0 .. m - 1 |-> list[Room(n, N, x).i + k]]
             I == 0 .. m - 1
  <2>1. /\ m \in Nat /\ \A k \in I : h[k] \in Met(n, x)
        /\ \A k, l \in I : k < l => h[k] < h[l]
    BY <1>2
  <2>2. C[x] = {h[k] : k \in I} /\ DOMAIN h = I
    OBVIOUS
  <2>3. f[x] = m
    BY <1>4
  <2>4. IsFiniteSet(I) /\ Cardinality(I) = m
    <3>1. 0 \in Int /\ m - 1 \in Int
      BY <2>1
    <3>2. IsFiniteSet(I) /\ Cardinality(I) = IF 0 > m - 1 THEN 0 ELSE m - 1 - 0 + 1
      BY <3>1, FS_Interval
    <3> QED BY <2>1, <3>2
  <2>5. \A k, l \in I : h[k] = h[l] => k = l
    <3> SUFFICES ASSUME NEW k \in I, NEW l \in I, h[k] = h[l], k # l PROVE FALSE
      OBVIOUS
    <3>1. h[k] \in Int
      <4> HIDE DEF h, I, m
      <4>1. h[k] \in Met(n, x)
        BY <2>1
      <4> QED BY <1>3, <4>1
    <3>2. k < l \/ l < k
      BY <2>1
    <3> HIDE DEF h
    <3> QED BY <2>1, <3>1, <3>2
  <2>6. h \in [I -> C[x]]
    BY <2>2
  <2> HIDE DEF h, C, m, f
  <2>7. ExistsBijection(I, C[x])
    <3> HIDE DEF I
    <3> QED BY <2>2, <2>5, <2>6 DEF ExistsBijection, Bijection, Injection, Surjection, IsInjective
  <2>8. Cardinality(C[x]) = m
    BY <2>4, <2>7, FS_Bijection
  <2> QED BY <2>1, <2>2, <2>3, <2>8
<1> HIDE DEF C, f
<1>6. \A x \in 0 .. P : C[x] \subseteq 0 .. n - 1 /\ f[x] = Cardinality(C[x])
  BY <1>3, <1>5
<1>7. \A x, y \in 0 .. P : x # y => C[x] \cap C[y] = {}
  BY <1>3, <1>5
<1>8. /\ Sum(0 .. 0 - 1, f) = 0
      /\ \A r \in 0 .. P : /\ Sum(0 .. r - 1, f) \in Nat /\ f[r] \in Nat
                           /\ Sum(0 .. r, f) = Sum(0 .. r - 1, f) + f[r]
  <2>1. Adds(f, P)
    BY <1>1, <1>6, <1>7, SumSteps
  <2> QED BY <2>1 DEF Adds
<1>9. \A r : B(r) = Sum(0 .. r - 1, f)
  BY DEF Before, f
<1>10. B(0) = 0
  BY <1>8, <1>9
<1>11. ASSUME NEW r \in 0 .. P
       PROVE  B(r) \in Nat /\ B(r + 1) \in Nat /\ B(r + 1) = B(r) + segs[r].nm
  <2>1. B(r + 1) = Sum(0 .. r, f)
    <3>1. (r + 1) - 1 = r
      OBVIOUS
    <3> QED BY <1>9, <3>1
  <2> HIDE DEF B
  <2> QED BY <1>2, <1>4, <1>8, <1>9, <2>1
<1> HIDE DEF B
<1> DEFINE S == {r \in Nat : r <= P => B(r) <= Room(n, N, r).i}
<1>12. /\ \A r \in 0 .. P : /\ Room(n, N, r).i \in Nat /\ Room(n, N, r).n \in Nat
       /\ \A r, t \in 0 .. P : r < t => Room(n, N, r).i + Room(n, N, r).n <= Room(n, N, t).i
  BY RoomIs DEF P
<1>13. 0 \in S
  BY <1>1, <1>10, <1>12
<1>14. ASSUME NEW r \in Nat, r \in S PROVE r + 1 \in S
  <2> SUFFICES ASSUME r + 1 <= P PROVE B(r + 1) <= Room(n, N, r + 1).i
    OBVIOUS
  <2>1. r \in 0 .. P /\ r + 1 \in 0 .. P /\ r < r + 1 /\ B(r) <= Room(n, N, r).i
    BY <1>1, <1>14
  <2>2. Room(n, N, r).i + Room(n, N, r).n <= Room(n, N, r + 1).i
    BY <1>12, <2>1
  <2>3. segs[r].nm \in Nat /\ segs[r].nm <= Room(n, N, r).n
    BY <1>2, <2>1
  <2>4. Room(n, N, r).i \in Nat /\ Room(n, N, r).n \in Nat /\ Room(n, N, r + 1).i \in Nat
    BY <1>12, <2>1
  <2> QED BY <1>11, <2>1, <2>2, <2>3, <2>4
<1>15. \A r \in Nat : r \in S
  <2> HIDE DEF S
  <2> QED BY <1>13, <1>14, Listing!Induction
<1>16. \A r \in 0 .. P : B(r) <= Room(n, N, r).i
  BY <1>1, <1>15
<1> QED BY <1>2, <1>10, <1>11, <1>16 DEF B, P

Total(segs) == Sum(0 .. N_PIPELINE, [r \in DOMAIN segs |-> segs[r].nm])

(* Every place before the total is in one rank's run, the runs in order.   *)
LEMMA RunsAre ==
  ASSUME deck \in Decks, NEW n \in Nat, NEW N \in Nat, NEW q, NEW list, NEW segs,
         Segments(q, n, list, N, segs)
  PROVE  /\ Total(segs) \in 0 .. N
         /\ \A r \in 0 .. N_PIPELINE : Before(segs, r) + segs[r].nm <= Total(segs)
         /\ \A r, t \in 0 .. N_PIPELINE : r < t => Before(segs, r) + segs[r].nm <= Before(segs, t)
         /\ \A k \in 0 .. Total(segs) - 1 :
              \E r \in 0 .. N_PIPELINE : k - Before(segs, r) \in 0 .. segs[r].nm - 1
<1> DEFINE P == N_PIPELINE
           B(r) == Before(segs, r)
           m(r) == segs[r].nm
<1>1. P \in Nat
  BY DeckIs
<1>2. /\ B(0) = 0
      /\ \A r \in 0 .. P : /\ B(r) \in Nat /\ m(r) \in Nat /\ B(r + 1) \in Nat
                           /\ B(r + 1) = B(r) + m(r) /\ B(r) <= Room(n, N, r).i
  BY BeforeIs
<1>3. Total(segs) = B(P + 1)
  <2>1. (P + 1) - 1 = P
    BY <1>1
  <2> HIDE DEF P
  <2> QED BY <2>1 DEF Total, Before, P
<1>4. /\ Room(n, N, P).i + Room(n, N, P).n <= N
      /\ Room(n, N, P).i \in Nat /\ Room(n, N, P).n \in Nat
  BY <1>1, RoomIs
<1>5. m(P) <= Room(n, N, P).n
  <2>1. P \in 0 .. P
    BY <1>1
  <2> QED BY <2>1 DEF Segments, Segment
<1> HIDE DEF P, B, m
<1>6. Total(segs) \in 0 .. N
  <2>1. P \in 0 .. P
    BY <1>1
  <2>2. B(P + 1) = B(P) + m(P) /\ B(P) <= Room(n, N, P).i /\ B(P + 1) \in Nat /\ B(P) \in Nat /\ m(P) \in Nat
    BY <1>2, <2>1
  <2> QED BY <1>3, <1>4, <1>5, <2>2
<1> DEFINE S == {t \in Nat : t <= P + 1 => \A r \in 0 .. t - 1 : B(r) + m(r) <= B(t)}
<1>7. 0 \in S
  OBVIOUS
<1>8. ASSUME NEW t \in Nat, t \in S PROVE t + 1 \in S
  <2> SUFFICES ASSUME t + 1 <= P + 1, NEW r \in 0 .. t PROVE B(r) + m(r) <= B(t + 1)
    OBVIOUS
  <2>1. t \in 0 .. P /\ r \in 0 .. P
    BY <1>1
  <2>2. B(t + 1) = B(t) + m(t) /\ m(t) \in Nat /\ B(t) \in Nat /\ B(r) \in Nat /\ m(r) \in Nat
    BY <1>2, <2>1
  <2>3. CASE r = t
    BY <2>2, <2>3
  <2>4. CASE r # t
    <3>1. r \in 0 .. t - 1 /\ t <= P + 1
      BY <1>1, <2>1, <2>4
    <3>2. B(r) + m(r) <= B(t)
      BY <1>8, <3>1
    <3> QED BY <2>2, <3>2
  <2> QED BY <2>3, <2>4
<1>9. \A t \in Nat : t \in S
  <2> HIDE DEF S
  <2> QED BY <1>7, <1>8, Listing!Induction
<1>10. ASSUME NEW r \in 0 .. P, NEW t \in 0 .. P, r < t PROVE B(r) + m(r) <= B(t)
  <2>1. t \in Nat /\ t <= P + 1 /\ r \in 0 .. t - 1
    BY <1>1, <1>10
  <2> QED BY <1>9, <2>1
<1>11. ASSUME NEW r \in 0 .. P PROVE B(r) + m(r) <= Total(segs)
  <2> DEFINE z == P + 1
  <2>1. z \in Nat /\ z <= P + 1 /\ r \in 0 .. z - 1
    BY <1>1
  <2> HIDE DEF z
  <2>2. B(r) + m(r) <= B(z)
    BY <1>9, <2>1
  <2> QED BY <1>3, <2>2 DEF z
<1> DEFINE T == {t \in Nat : t <= P + 1 =>
                   \A k \in 0 .. B(t) - 1 : \E r \in 0 .. t - 1 : k - B(r) \in 0 .. m(r) - 1}
<1>12. 0 \in T
  BY <1>2
<1>13. ASSUME NEW t \in Nat, t \in T PROVE t + 1 \in T
  <2> SUFFICES ASSUME t + 1 <= P + 1, NEW k \in 0 .. B(t + 1) - 1
               PROVE  \E r \in 0 .. t : k - B(r) \in 0 .. m(r) - 1
    OBVIOUS
  <2>1. t \in 0 .. P
    BY <1>1
  <2>2. B(t + 1) = B(t) + m(t) /\ m(t) \in Nat /\ B(t) \in Nat
    BY <1>2, <2>1
  <2>3. CASE k < B(t)
    <3>1. k \in 0 .. B(t) - 1 /\ t <= P + 1
      BY <1>1, <2>1, <2>2, <2>3
    <3>2. PICK r \in 0 .. t - 1 : k - B(r) \in 0 .. m(r) - 1
      BY <1>13, <3>1
    <3> QED BY <3>2
  <2>4. CASE k >= B(t)
    <3>1. k - B(t) \in 0 .. m(t) - 1
      BY <2>2, <2>4
    <3> QED BY <3>1
  <2> QED BY <2>2, <2>3, <2>4
<1>14. \A t \in Nat : t \in T
  <2> HIDE DEF T
  <2> QED BY <1>12, <1>13, Listing!Induction
<1>15. \A k \in 0 .. Total(segs) - 1 : \E r \in 0 .. P : k - B(r) \in 0 .. m(r) - 1
  <2>1. P + 1 \in T /\ P + 1 <= P + 1 /\ (P + 1) - 1 = P
    BY <1>1, <1>14
  <2> QED BY <1>3, <2>1
<1> QED BY <1>6, <1>10, <1>11, <1>15 DEF P, B, m

(* Compacted, the list is of the movers of all.                            *)
LEMMA CompactedIs ==
  ASSUME deck \in Decks, NEW n \in Nat, NEW N \in Nat, NEW q, NEW list, DOMAIN list = 0 .. N - 1,
         NEW segs, Segments(q, n, list, N, segs)
  PROVE  /\ DOMAIN Compacted(list, segs) = 0 .. N - 1
         /\ Total(segs) \in 0 .. N
         /\ MoversOK(q, n, Compacted(list, segs), Total(segs))
<1> DEFINE P == N_PIPELINE
           B(r) == Before(segs, r)
           m(r) == segs[r].nm
           e == Total(segs)
           from(k) == {r \in DOMAIN segs : k - B(r) \in 0 .. m(r) - 1}
           new == Compacted(list, segs)
<1>1. new = [k \in DOMAIN list |->
               IF from(k) = {} THEN list[k]
               ELSE LET r == CHOOSE r \in from(k) : TRUE IN list[segs[r].pm + k - B(r)]]
  BY Zenon DEF Compacted, Before
<1>2. /\ e \in 0 .. N
      /\ \A r \in 0 .. P : B(r) + m(r) <= e
      /\ \A r, t \in 0 .. P : r < t => B(r) + m(r) <= B(t)
      /\ \A k \in 0 .. e - 1 : \E r \in 0 .. P : k - B(r) \in 0 .. m(r) - 1
  BY RunsAre
<1>3. \A r \in 0 .. P : B(r) \in Nat /\ m(r) \in Nat
  BY BeforeIs
<1>4. /\ DOMAIN segs = 0 .. P
      /\ \A r \in 0 .. P : Segment(q, list, Met(n, r), Room(n, N, r), segs[r])
  BY DEF Segments
<1>5. \A r \in 0 .. P :
        /\ segs[r].pm = Room(n, N, r).i /\ segs[r].pm \in Nat
        /\ \A k \in 0 .. m(r) - 1 : list[segs[r].pm + k] \in Met(n, r)
        /\ \A k, l \in 0 .. m(r) - 1 : k < l => list[segs[r].pm + k] < list[segs[r].pm + l]
        /\ \A i \in Met(n, r) :
             IF \E k \in 0 .. m(r) - 1 : list[segs[r].pm + k] = i THEN q[i].i \in Faces
                                                                 ELSE q[i].i \in Box
  <2> SUFFICES ASSUME NEW r \in 0 .. P
               PROVE  /\ segs[r].pm = Room(n, N, r).i /\ segs[r].pm \in Nat
                      /\ \A k \in 0 .. m(r) - 1 : list[segs[r].pm + k] \in Met(n, r)
                      /\ \A k, l \in 0 .. m(r) - 1 :
                           k < l => list[segs[r].pm + k] < list[segs[r].pm + l]
                      /\ \A i \in Met(n, r) :
                           IF \E k \in 0 .. m(r) - 1 : list[segs[r].pm + k] = i THEN q[i].i \in Faces
                                                                               ELSE q[i].i \in Box
    BY Zenon
  <2>1. Segment(q, list, Met(n, r), Room(n, N, r), segs[r]) /\ Room(n, N, r).i \in Nat
    BY <1>4, RoomIs
  <2>2. segs[r].pm = Room(n, N, r).i
    BY <2>1 DEF Segment
  <2> QED BY <2>1, <2>2, Zenon DEF Segment
<1>6. \A r \in 0 .. P : Met(n, r) \subseteq 0 .. n - 1
      /\ \A t \in 0 .. P : \A h \in Met(n, r), i \in Met(n, t) : r < t => h < i
  BY MetIs
<1>7. P \in Nat
  BY DeckIs
<1> HIDE DEF P, B, m, e, new
<1>8. ASSUME NEW r \in 0 .. P, NEW t \in 0 .. P, NEW k \in Int, NEW l \in Int,
             k - B(r) \in 0 .. m(r) - 1, l - B(t) \in 0 .. m(t) - 1, k <= l
      PROVE  r <= t
  <2> SUFFICES ASSUME t < r PROVE FALSE
    BY <1>7
  <2>1. B(t) + m(t) <= B(r)
    BY <1>2, Zenon
  <2>2. B(t) \in Nat /\ m(t) \in Nat /\ B(r) \in Nat /\ m(r) \in Nat
    BY <1>3, Zenon
  <2> QED BY <1>8, <2>1, <2>2, RunsApart, Zenon
<1>9. ASSUME NEW r \in 0 .. P, NEW k \in 0 .. e - 1, k - B(r) \in 0 .. m(r) - 1
      PROVE  new[k] = list[segs[r].pm + (k - B(r))]
  <2>1. k \in DOMAIN list
    BY <1>2
  <2>2. from(k) = {r}
    <3>1. r \in from(k)
      BY <1>4, <1>9
    <3>2. \A t \in from(k) : t = r
      <4> SUFFICES ASSUME NEW t \in 0 .. P, k - B(t) \in 0 .. m(t) - 1 PROVE t = r
        BY <1>4
      <4>1. k \in Int
        OBVIOUS
      <4>2. r <= t /\ t <= r
        BY <1>8, <1>9, <4>1
      <4> QED BY <1>7, <4>2
    <3> QED BY <3>1, <3>2
  <2>3. (CHOOSE x \in from(k) : TRUE) = r
    BY <2>2
  <2> HIDE DEF from
  <2>4. new[k] = list[segs[r].pm + k - B(r)]
    BY <1>1, <2>1, <2>2, <2>3
  <2>5. segs[r].pm + k - B(r) = segs[r].pm + (k - B(r))
    BY <1>3, <1>5
  <2> QED BY <2>4, <2>5
<1> HIDE DEF from
<1>10. \A k \in 0 .. e - 1 : \E r \in 0 .. P : k - B(r) \in 0 .. m(r) - 1
                              /\ new[k] = list[segs[r].pm + (k - B(r))]
  BY <1>2, <1>9
<1>11. \A k \in 0 .. e - 1 : new[k] \in 0 .. n - 1
  <2> SUFFICES ASSUME NEW k \in 0 .. e - 1 PROVE new[k] \in 0 .. n - 1
    OBVIOUS
  <2>1. PICK r \in 0 .. P : k - B(r) \in 0 .. m(r) - 1 /\ new[k] = list[segs[r].pm + (k - B(r))]
    BY <1>10
  <2>2. new[k] \in Met(n, r)
    BY <1>5, <2>1
  <2> QED BY <1>6, <2>2
<1>12. ASSUME NEW k \in 0 .. e - 1, NEW l \in 0 .. e - 1, k < l PROVE new[k] < new[l]
  <2>1. PICK r \in 0 .. P : k - B(r) \in 0 .. m(r) - 1 /\ new[k] = list[segs[r].pm + (k - B(r))]
    BY <1>10
  <2>2. PICK t \in 0 .. P : l - B(t) \in 0 .. m(t) - 1 /\ new[l] = list[segs[t].pm + (l - B(t))]
    BY <1>10
  <2>3. k \in Int /\ l \in Int /\ k <= l
    BY <1>12
  <2>4. r <= t
    BY <1>8, <2>1, <2>2, <2>3
  <2>5. CASE r = t
    <3>1. k - B(r) < l - B(r)
      BY <1>3, <1>12
    <3> QED BY <1>5, <2>1, <2>2, <2>5, <3>1
  <2>6. CASE r < t
    <3>1. new[k] \in Met(n, r) /\ new[l] \in Met(n, t)
      BY <1>5, <2>1, <2>2
    <3> QED BY <1>6, <2>6, <3>1
  <2> QED BY <1>7, <2>4, <2>5, <2>6
<1>13. ASSUME NEW i \in 0 .. n - 1
       PROVE  IF \E k \in 0 .. e - 1 : new[k] = i THEN q[i].i \in Faces ELSE q[i].i \in Box
  <2>1. PICK r \in 0 .. P : i \in Met(n, r)
    BY MetIs DEF P
  <2>2. (\E k \in 0 .. e - 1 : new[k] = i) <=> \E j \in 0 .. m(r) - 1 : list[segs[r].pm + j] = i
    <3>1. ASSUME NEW k \in 0 .. e - 1, new[k] = i
          PROVE  \E j \in 0 .. m(r) - 1 : list[segs[r].pm + j] = i
      <4>1. PICK t \in 0 .. P : k - B(t) \in 0 .. m(t) - 1 /\ new[k] = list[segs[t].pm + (k - B(t))]
        BY <1>10
      <4>2. i \in Met(n, t)
        BY <1>5, <3>1, <4>1
      <4>3. t = r
        <5>1. t < r => i < i
          BY <1>6, <2>1, <4>2
        <5>2. r < t => i < i
          BY <1>6, <2>1, <4>2
        <5> QED BY <1>7, <5>1, <5>2
      <4> QED BY <3>1, <4>1, <4>3
    <3>2. ASSUME NEW j \in 0 .. m(r) - 1, list[segs[r].pm + j] = i
          PROVE  \E k \in 0 .. e - 1 : new[k] = i
      <4>1. B(r) + j \in 0 .. e - 1 /\ (B(r) + j) - B(r) = j
        <5>1. B(r) + m(r) <= e /\ B(r) \in Nat /\ m(r) \in Nat /\ e \in Int
          BY <1>2, <1>3
        <5> QED BY <5>1
      <4>2. new[B(r) + j] = list[segs[r].pm + ((B(r) + j) - B(r))]
        BY <1>9, <4>1
      <4>3. new[B(r) + j] = i
        BY <3>2, <4>1, <4>2
      <4> QED BY <4>1, <4>3
    <3> QED BY <3>1, <3>2
  <2>3. IF \E j \in 0 .. m(r) - 1 : list[segs[r].pm + j] = i THEN q[i].i \in Faces ELSE q[i].i \in Box
    BY <1>5, <2>1
  <2> QED BY <2>2, <2>3
<1>14. e \in Nat
  BY <1>2
<1>15. MoversOK(q, n, new, e)
  BY <1>11, <1>12, <1>13, <1>14 DEF MoversOK
<1>16. DOMAIN new = 0 .. N - 1
  BY <1>1
<1> QED BY <1>2, <1>15, <1>16 DEF new, e

-----------------------------------------------------------------------------
(* The removal of the particles that still have movers.                    *)
BackOp(x, y, z, a, e) == BackFill(a, e)
Removing == INSTANCE Loops WITH Op <- BackOp

InOrder(list, m, n) ==
  /\ n \in Nat /\ m \in Nat /\ \A k \in 0 .. m - 1 : list[k] \in 0 .. n - 1
  /\ \A k, l \in 0 .. m - 1 : k < l => list[k] < list[l]

(* Indices in order leave room for those after them.                       *)
LEMMA RoomAfter ==
  ASSUME NEW list, NEW m, NEW n, InOrder(list, m, n)
  PROVE  m <= n /\ \A k \in 0 .. m - 1 : list[k] <= n - m + k
<1>1. /\ n \in Nat /\ m \in Nat /\ \A k \in 0 .. m - 1 : list[k] \in 0 .. n - 1
      /\ \A k, l \in 0 .. m - 1 : k < l => list[k] < list[l]
  BY DEF InOrder
<1> DEFINE S == {t \in Nat : t < m => list[m - 1 - t] <= n - 1 - t}
<1>2. 0 \in S
  <2> SUFFICES ASSUME 0 < m PROVE list[m - 1 - 0] <= n - 1 - 0
    OBVIOUS
  <2>1. m - 1 - 0 \in 0 .. m - 1
    BY <1>1
  <2> QED BY <1>1, <2>1
<1>3. ASSUME NEW t \in Nat, t \in S PROVE t + 1 \in S
  <2> SUFFICES ASSUME t + 1 < m PROVE list[m - 1 - (t + 1)] <= n - 1 - (t + 1)
    OBVIOUS
  <2> DEFINE k == m - 1 - (t + 1)
             l == m - 1 - t
  <2>1. k \in 0 .. m - 1 /\ l \in 0 .. m - 1 /\ k < l /\ t < m
    BY <1>1
  <2>2. list[l] <= n - 1 - t
    BY <1>3, <2>1
  <2> HIDE DEF k, l
  <2>3. list[k] < list[l] /\ list[k] \in Int /\ list[l] \in Int
    BY <1>1, <2>1
  <2>4. list[k] <= n - 1 - (t + 1)
    BY <1>1, <2>2, <2>3
  <2> QED BY <2>4 DEF k
<1>4. \A t \in Nat : t \in S
  <2> HIDE DEF S
  <2> QED BY <1>2, <1>3, Listing!Induction
<1>5. ASSUME NEW k \in 0 .. m - 1 PROVE list[k] <= n - m + k
  <2> DEFINE t == m - 1 - k
  <2>1. t \in Nat /\ t < m /\ m - 1 - t = k /\ n - 1 - t = n - m + k
    BY <1>1
  <2> HIDE DEF t
  <2>2. list[m - 1 - t] <= n - 1 - t
    BY <1>4, <2>1
  <2> QED BY <2>1, <2>2
<1>6. m <= n
  <2>1. CASE m = 0
    BY <1>1, <2>1
  <2>2. CASE m # 0
    <3>1. 0 \in 0 .. m - 1
      BY <1>1, <2>2
    <3>2. list[0] <= n - m + 0 /\ list[0] \in 0 .. n - 1
      BY <1>1, <1>5, <3>1
    <3> QED BY <1>1, <3>2
  <2> QED BY <2>1, <2>2
<1> QED BY <1>5, <1>6

(* After k of them the rest are there, those before the last one where     *)
(* they were.                                                              *)
Taken(list, m, k, h) == \E j \in m - k .. m - 1 : list[j] = h
Partly(q, n, list, m, k, a) ==
  /\ DOMAIN a = 0 .. n - k - 1
  /\ \A i \in 0 .. n - k - 1 : \E h \in 0 .. n - 1 : ~ Taken(list, m, k, h) /\ a[i] = q[h]
  /\ \A h \in 0 .. n - 1 : ~ Taken(list, m, k, h) => \E i \in 0 .. n - k - 1 : a[i] = q[h]
  /\ \A i, j \in 0 .. n - k - 1 : a[i].id = a[j].id => i = j
  /\ \A i \in 0 .. n - k - 1 : (k > 0 => i < list[m - k]) => a[i] = q[i]

(* One turn of the loop over movers, from the last, fills one hole         *)
(* (vpic/advance.cc).                                                      *)
LEMMA RemoveStep ==
  ASSUME NEW q, NEW n, List(q, n), NEW list, NEW m, InOrder(list, m, n), NEW k \in 1 .. m,
         NEW a, Partly(q, n, list, m, k - 1, a)
  PROVE  /\ Partly(q, n, list, m, k, BackFill(a, list[m - k]))
         /\ BackFill(a, list[m - k]) = [i \in 0 .. n - k - 1 |-> BackFill(a, list[m - k])[i]]
<1> DEFINE x == list[m - k]
           b == BackFill(a, x)
           at(i) == IF i = x THEN n - k ELSE i
<1>1. /\ n \in Nat /\ DOMAIN q = 0 .. n - 1 /\ \A i, j \in 0 .. n - 1 : q[i].id = q[j].id => i = j
      /\ m \in Nat /\ \A j \in 0 .. m - 1 : list[j] \in 0 .. n - 1
      /\ \A j, l \in 0 .. m - 1 : j < l => list[j] < list[l]
  BY DEF List, InOrder
<1>2. m <= n /\ k \in Nat /\ k - 1 \in Nat /\ n - k \in Nat /\ n - (k - 1) - 1 = n - k
  BY <1>1, RoomAfter
<1>3. x \in 0 .. n - k /\ m - k \in 0 .. m - 1
  <2>1. m - k \in 0 .. m - 1
    BY <1>1
  <2>2. list[m - k] <= n - m + (m - k)
    BY <2>1, RoomAfter
  <2> QED BY <1>1, <1>2, <2>1, <2>2
<1>4. /\ DOMAIN a = 0 .. n - k
      /\ \A i \in 0 .. n - k : \E h \in 0 .. n - 1 : ~ Taken(list, m, k - 1, h) /\ a[i] = q[h]
      /\ \A h \in 0 .. n - 1 : ~ Taken(list, m, k - 1, h) => \E i \in 0 .. n - k : a[i] = q[h]
      /\ \A i, j \in 0 .. n - k : a[i].id = a[j].id => i = j
      /\ \A i \in 0 .. n - k : (k - 1 > 0 => i < list[m - (k - 1)]) => a[i] = q[i]
  BY <1>2 DEF Partly
<1>5. k - 1 > 0 => m - (k - 1) \in 0 .. m - 1 /\ x < list[m - (k - 1)]
  <2> SUFFICES ASSUME k - 1 > 0 PROVE m - (k - 1) \in 0 .. m - 1 /\ x < list[m - (k - 1)]
    OBVIOUS
  <2>1. m - (k - 1) \in 0 .. m - 1 /\ m - k < m - (k - 1)
    BY <1>1
  <2> QED BY <1>1, <1>3, <2>1
<1>6. a[x] = q[x] /\ x \in 0 .. n - 1
  <2> HIDE DEF x
  <2>1. x \in 0 .. n - 1
    <3>1. k >= 1 /\ n \in Nat /\ k \in Nat
      BY <1>1
    <3> QED BY <1>3, <3>1
  <2>2. x \in 0 .. n - k
    BY <1>3
  <2>3. k - 1 > 0 => x < list[m - (k - 1)]
    BY <1>5
  <2> QED BY <1>4, <2>1, <2>2, <2>3
<1>7. b = [i \in 0 .. n - k - 1 |-> IF i = x THEN a[n - k] ELSE a[i]]
  <2>1. Cardinality(0 .. n - k) = n - k + 1
    <3>1. 0 \in Int /\ n - k \in Int
      BY <1>2
    <3>2. Cardinality(0 .. n - k) = IF 0 > n - k THEN 0 ELSE n - k - 0 + 1
      BY <3>1, FS_Interval
    <3> QED BY <1>2, <3>2
  <2>2. (n - k + 1) - 2 = n - k - 1 /\ (n - k + 1) - 1 = n - k
    BY <1>2
  <2> HIDE DEF x
  <2> QED BY <1>4, <2>1, <2>2 DEF BackFill
<1>8. \A h : Taken(list, m, k, h) <=> Taken(list, m, k - 1, h) \/ h = x
  <2> SUFFICES ASSUME NEW h PROVE Taken(list, m, k, h) <=> Taken(list, m, k - 1, h) \/ h = x
    OBVIOUS
  <2>1. \A j \in m - k .. m - 1 : j = m - k \/ j \in m - (k - 1) .. m - 1
    BY <1>1, <1>2
  <2>2. m - k \in m - k .. m - 1 /\ \A j \in m - (k - 1) .. m - 1 : j \in m - k .. m - 1
    BY <1>1, <1>2
  <2> QED BY <2>1, <2>2 DEF Taken
<1> HIDE DEF x, b
<1>9. \A i \in 0 .. n - k - 1 : at(i) \in 0 .. n - k /\ at(i) # x /\ b[i] = a[at(i)]
  BY <1>2, <1>3, <1>7
<1>10. \A i, j \in 0 .. n - k - 1 : at(i) = at(j) => i = j
  BY <1>2, <1>3
<1> HIDE DEF at
<1>11. DOMAIN b = 0 .. n - k - 1
  BY <1>7
<1>12. ASSUME NEW i \in 0 .. n - k - 1
       PROVE  \E h \in 0 .. n - 1 : ~ Taken(list, m, k, h) /\ b[i] = q[h]
  <2>1. at(i) \in 0 .. n - k /\ at(i) # x /\ b[i] = a[at(i)]
    BY <1>9
  <2>2. PICK h \in 0 .. n - 1 : ~ Taken(list, m, k - 1, h) /\ a[at(i)] = q[h]
    BY <1>4, <2>1
  <2>3. h # x
    <3> SUFFICES ASSUME h = x PROVE FALSE
      OBVIOUS
    <3>1. a[at(i)].id = a[x].id
      BY <1>6, <2>2
    <3>2. at(i) \in 0 .. n - k /\ x \in 0 .. n - k
      BY <1>3, <2>1
    <3>3. at(i) = x
      BY <1>4, <3>1, <3>2
    <3> QED BY <2>1, <3>3
  <2> QED BY <1>8, <2>1, <2>2, <2>3
<1>13. ASSUME NEW h \in 0 .. n - 1, ~ Taken(list, m, k, h)
       PROVE  \E i \in 0 .. n - k - 1 : b[i] = q[h]
  <2>1. ~ Taken(list, m, k - 1, h) /\ h # x
    BY <1>8, <1>13
  <2>2. PICK j \in 0 .. n - k : a[j] = q[h]
    BY <1>4, <2>1
  <2>3. j # x
    BY <1>1, <1>6, <2>1, <2>2
  <2>4. CASE j = n - k
    <3>1. x \in 0 .. n - k - 1
      BY <1>2, <1>3, <2>3, <2>4
    <3>2. b[x] = a[n - k]
      BY <1>7, <3>1
    <3> QED BY <2>2, <2>4, <3>1, <3>2
  <2>5. CASE j # n - k
    <3>1. j \in 0 .. n - k - 1
      BY <1>2, <2>5
    <3>2. b[j] = a[j]
      BY <1>7, <2>3, <3>1
    <3> QED BY <2>2, <3>1, <3>2
  <2> QED BY <2>4, <2>5
<1>14. ASSUME NEW i \in 0 .. n - k - 1, NEW j \in 0 .. n - k - 1, b[i].id = b[j].id PROVE i = j
  <2>1. b[i] = a[at(i)] /\ b[j] = a[at(j)] /\ at(i) \in 0 .. n - k /\ at(j) \in 0 .. n - k
    BY <1>9, Zenon
  <2>2. \A v, w \in 0 .. n - k : a[v].id = a[w].id => v = w
    BY <1>4, Zenon
  <2>3. a[at(i)].id = a[at(j)].id
    BY <1>14, <2>1
  <2>4. at(i) = at(j)
    BY <2>1, <2>2, <2>3, Zenon
  <2> QED BY <1>10, <2>4, Zenon
<1>15. ASSUME NEW i \in 0 .. n - k - 1, i < x PROVE b[i] = q[i]
  <2>1. i \in 0 .. n - k /\ i # x /\ x \in Int
    BY <1>2, <1>3, <1>15
  <2>2. b[i] = a[i]
    BY <1>7, <2>1
  <2>3. k - 1 > 0 => i < list[m - (k - 1)]
    <3> SUFFICES ASSUME k - 1 > 0 PROVE i < list[m - (k - 1)]
      OBVIOUS
    <3>1. x < list[m - (k - 1)] /\ list[m - (k - 1)] \in Int
      BY <1>1, <1>5
    <3> QED BY <1>15, <2>1, <3>1
  <2> QED BY <1>4, <2>1, <2>2, <2>3
<1>16. Partly(q, n, list, m, k, b)
  <2>1. k > 0
    OBVIOUS
  <2>2. \A i \in 0 .. n - k - 1 : (k > 0 => i < list[m - k]) => b[i] = q[i]
    BY <1>15, <2>1 DEF x
  <2> QED BY <1>11, <1>12, <1>13, <1>14, <2>2 DEF Partly
<1>17. b = [i \in 0 .. n - k - 1 |-> b[i]]
  BY <1>7
<1> QED BY <1>16, <1>17 DEF b, x

Cleared(q, n, list, m, b) ==
  /\ m <= n /\ List(b, n - m) /\ Plain(b)
  /\ \A i \in 0 .. n - m - 1 : \E h \in 0 .. n - 1 : (\A k \in 0 .. m - 1 : list[k] # h) /\ b[i] = q[h]
  /\ \A h \in 0 .. n - 1 : (\A k \in 0 .. m - 1 : list[k] # h) => \E i \in 0 .. n - m - 1 : b[i] = q[h]

(* Removal leaves the particles without a mover, each once.                *)
LEMMA RemovedIs ==
  ASSUME NEW q, NEW n, List(q, n), q = [j \in DOMAIN q |-> q[j]], NEW list, NEW m, InOrder(list, m, n)
  PROVE  Cleared(q, n, list, m, Removed(q, list, m))
<1> DEFINE seq == [k \in 1 .. m |-> list[m - k]]
           R == {q[h] : h \in 0 .. n - 1}
           I == [k \in 0 .. m |-> {a \in [0 .. n - k - 1 -> R] : Partly(q, n, list, m, k, a)}]
           b == Removed(q, list, m)
<1>1. /\ n \in Nat /\ m \in Nat /\ m <= n /\ DOMAIN q = 0 .. n - 1
      /\ \A i \in 0 .. n - 1 : Whole(q[i])
      /\ \A i, j \in 0 .. n - 1 : q[i].id = q[j].id => i = j
  BY RoomAfter DEF List, InOrder
<1>2. b = Removing!Left(0, 0, 0, q, seq)
  BY Zenon DEF Removed, BackOp, Removing!Left, FoldLeft, MapThenFoldSet, Max, Removing!Greatest
<1>3. q \in I[0]
  <2>1. q \in [0 .. n - 0 - 1 -> R]
    BY <1>1
  <2>2. \A h : ~ Taken(list, m, 0, h)
    BY <1>1 DEF Taken
  <2>3. Partly(q, n, list, m, 0, q)
    <3>1. n - 0 - 1 = n - 1
      BY <1>1
    <3> QED BY <1>1, <2>2, <3>1 DEF Partly
  <2> QED BY <1>1, <2>1, <2>3
<1>4. \A k \in 1 .. m : \A a \in I[k - 1] : BackOp(0, 0, 0, a, seq[k]) \in I[k]
  <2> SUFFICES ASSUME NEW k \in 1 .. m, NEW a \in I[k - 1] PROVE BackOp(0, 0, 0, a, seq[k]) \in I[k]
    BY Zenon
  <2> DEFINE c == BackFill(a, list[m - k])
  <2>1. k - 1 \in 0 .. m /\ k \in 0 .. m /\ seq[k] = list[m - k]
    BY <1>1
  <2>2. Partly(q, n, list, m, k - 1, a)
    BY <2>1
  <2>3. Partly(q, n, list, m, k, c) /\ c = [i \in 0 .. n - k - 1 |-> c[i]]
    BY <2>2, RemoveStep
  <2> HIDE DEF c
  <2>4. \A i \in 0 .. n - k - 1 : c[i] \in R
    BY <2>3 DEF Partly
  <2>5. c \in [0 .. n - k - 1 -> R]
    BY <2>3, <2>4
  <2>6. c \in I[k]
    BY <2>1, <2>3, <2>5
  <2> QED BY <2>1, <2>6 DEF c, BackOp
<1>5. b \in I[m]
  <2>1. DOMAIN seq = 1 .. m
    OBVIOUS
  <2> HIDE DEF seq, I, b
  <2> QED BY <1>1, <1>2, <1>3, <1>4, <2>1, Removing!LeftRule, Zenon
<1>6. Partly(q, n, list, m, m, b) /\ Plain(b)
  BY <1>1, <1>5 DEF Plain
<1> HIDE DEF b
<1>7. \A h : Taken(list, m, m, h) <=> \E k \in 0 .. m - 1 : list[k] = h
  <2>1. m - m = 0
    BY <1>1
  <2> QED BY <2>1 DEF Taken
<1>8. /\ DOMAIN b = 0 .. n - m - 1
      /\ \A i \in 0 .. n - m - 1 : \E h \in 0 .. n - 1 : ~ Taken(list, m, m, h) /\ b[i] = q[h]
      /\ \A h \in 0 .. n - 1 : ~ Taken(list, m, m, h) => \E i \in 0 .. n - m - 1 : b[i] = q[h]
      /\ \A i, j \in 0 .. n - m - 1 : b[i].id = b[j].id => i = j
  BY <1>6 DEF Partly
<1>9. List(b, n - m)
  <2>1. n - m \in Nat
    BY <1>1
  <2>2. \A i \in 0 .. n - m - 1 : Whole(b[i])
    BY <1>1, <1>8
  <2> QED BY <1>8, <2>1, <2>2 DEF List
<1>10. \A h : ~ Taken(list, m, m, h) <=> \A k \in 0 .. m - 1 : list[k] # h
  BY <1>7
<1>11. \A i \in 0 .. n - m - 1 :
        \E h \in 0 .. n - 1 : (\A k \in 0 .. m - 1 : list[k] # h) /\ b[i] = q[h]
  BY <1>8, <1>10
<1>12. \A h \in 0 .. n - 1 : (\A k \in 0 .. m - 1 : list[k] # h)
         => \E i \in 0 .. n - m - 1 : b[i] = q[h]
  BY <1>8, <1>10
<1>13. m <= n
  BY <1>1
<1>14. Cleared(q, n, list, m, b)
  BY <1>6, <1>9, <1>11, <1>12, <1>13 DEF Cleared
<1> QED BY <1>14 DEF b

-----------------------------------------------------------------------------
(* The collision operators: shuffles within the voxels.                    *)
SwapOp(k0, n, d, a, x) ==
  LET i == k0 + x - 1
      j == i + (d % (n - x + 1))
  IN [a EXCEPT ![i] = a[j], ![j] = a[i]]
Swapping == INSTANCE Loops WITH Op <- SwapOp
MixOp(s, d, z, a, v) == Shuffle(a, Cell(s, v).k0, Cell(s, v).nk, d)
Mixing == INSTANCE Loops WITH Op <- MixOp

(* Lists of the particles of q, in whose places are ones of the same       *)
(* voxels.                                                                 *)
Mixed(q, n) ==
  {a \in [0 .. n - 1 -> {q[h] : h \in 0 .. n - 1}] :
     Reordered(q, a, n) /\ \A i \in 0 .. n - 1 : a[i].i = q[i].i}

(* A list is one shuffle of itself.                                        *)
LEMMA MixedSelf ==
  ASSUME NEW q, NEW n, DOMAIN q = 0 .. n - 1, q = [i \in DOMAIN q |-> q[i]]
  PROVE  q \in Mixed(q, n)
<1>1. Reordered(q, q, n)
  BY ReorderedSame
<1> QED BY <1>1 DEF Mixed

(* Two of one voxel exchanged.                                             *)
LEMMA MixedSwap ==
  ASSUME NEW q, NEW n \in Nat, NEW a \in Mixed(q, n), NEW i \in 0 .. n - 1, NEW j \in 0 .. n - 1,
         q[i].i = q[j].i
  PROVE  Exchange(a, i, j) \in Mixed(q, n)
<1> DEFINE b == Exchange(a, i, j)
           R == {q[h] : h \in 0 .. n - 1}
<1>1. a \in [0 .. n - 1 -> R] /\ Reordered(q, a, n) /\ \A k \in 0 .. n - 1 : a[k].i = q[k].i
  BY DEF Mixed
<1>2. Reordered(q, b, n)
  BY <1>1, ReorderedExchange
<1>3. Exchanged(n, a, i, j, b)
  BY <1>1, ExchangeIs
<1>4. b \in [0 .. n - 1 -> R]
  <2> HIDE DEF R
  <2> QED BY <1>1 DEF Exchange
<1> HIDE DEF b
<1>5. \A k \in 0 .. n - 1 : b[k].i = q[k].i
  <2> SUFFICES ASSUME NEW k \in 0 .. n - 1 PROVE b[k].i = q[k].i
    OBVIOUS
  <2>1. b[i] = a[j] /\ b[j] = a[i] /\ (k # i /\ k # j => b[k] = a[k])
    BY <1>3 DEF Exchanged
  <2>2. a[i].i = q[i].i /\ a[j].i = q[j].i /\ a[k].i = q[k].i
    BY <1>1
  <2> QED BY <2>1, <2>2
<1>6. b \in Mixed(q, n)
  BY <1>2, <1>4, <1>5 DEF Mixed
<1> QED BY <1>6 DEF b

(* Of an empty list there is but one.                                      *)
LEMMA MixedNone ==
  ASSUME NEW q, NEW n, n = 0, NEW a \in Mixed(q, n), NEW i, NEW j
  PROVE  [a EXCEPT ![i] = a[j], ![j] = a[i]] \in Mixed(q, n)
<1>1. 0 .. n - 1 = {}
  OBVIOUS
<1>2. DOMAIN a = {} /\ a \in [{} -> {q[h] : h \in 0 .. n - 1}]
  BY <1>1 DEF Mixed
<1>3. [a EXCEPT ![i] = a[j], ![j] = a[i]] = a
  BY <1>2
<1> QED BY <1>3

(* A shuffle is the loop of its swaps.                                     *)
LEMMA ShuffleLoop ==
  ASSUME NEW q, NEW k0, NEW n, NEW d
  PROVE  Shuffle(q, k0, n, d) = Swapping!Left(k0, n, d, q, [x \in 1 .. n - 1 |-> x])
  BY Zenon DEF Shuffle, SwapOp, Swapping!Left, FoldLeft, MapThenFoldSet, Max,
               Swapping!Greatest

(* A shuffle of what the partition says is one voxel.                      *)
LEMMA ShuffleIs ==
  ASSUME NEW q, NEW n \in Nat, NEW part, n = 0 \/ Bracketed(q, part), DOMAIN q = 0 .. n - 1,
         NEW v \in 0 .. n_voxel - 2, part[v] \in Int, part[v + 1] \in Int,
         NEW d \in Nat, NEW a \in Mixed(q, n)
  PROVE  Shuffle(a, part[v], part[v + 1] - part[v], d) \in Mixed(q, n)
<1> DEFINE k0 == part[v]
           m == part[v + 1] - part[v]
           seq == [x \in 1 .. m - 1 |-> x]
           S == Mixed(q, n)
           N == IF m - 1 < 0 THEN 0 ELSE m - 1
<1>1. k0 \in Int /\ m \in Int
  OBVIOUS
<1>2. n > 0 => \A i \in k0 .. k0 + m - 1 : i \in 0 .. n - 1 /\ q[i].i = v
  <2> SUFFICES ASSUME n > 0, NEW i \in k0 .. k0 + m - 1 PROVE i \in 0 .. n - 1 /\ q[i].i = v
    OBVIOUS
  <2>1. {h \in DOMAIN q : q[h].i = v} = part[v] .. part[v + 1] - 1
    BY DEF Bracketed
  <2>2. i \in part[v] .. part[v + 1] - 1
    OBVIOUS
  <2> QED BY <2>1, <2>2
<1> HIDE DEF k0, m
<1>3. N \in Nat /\ DOMAIN seq = 1 .. N /\ 1 .. N = 1 .. m - 1
  BY <1>1
<1> HIDE DEF N
<1>4. ASSUME NEW x \in 1 .. m - 1, NEW b \in S
      PROVE  SwapOp(k0, m, d, b, x) \in S
  <2> DEFINE i == k0 + x - 1
             j == i + (d % (m - x + 1))
  <2>1. i \in k0 .. k0 + m - 1 /\ j \in k0 .. k0 + m - 1
    <3> DEFINE w == m - x + 1
               e == d % w
    <3>1. w \in Nat \ {0}
      BY <1>1
    <3>2. e \in 0 .. w - 1
      <4> HIDE DEF w
      <4> QED BY <3>1
    <3> HIDE DEF e
    <3> QED BY <1>1, <3>2
  <2>2. SwapOp(k0, m, d, b, x) = [b EXCEPT ![i] = b[j], ![j] = b[i]]
    BY DEF SwapOp
  <2> HIDE DEF i, j
  <2>3. CASE n = 0
    <3>1. b \in Mixed(q, n)
      OBVIOUS
    <3>2. [b EXCEPT ![i] = b[j], ![j] = b[i]] \in Mixed(q, n)
      BY <2>3, <3>1, MixedNone
    <3> QED BY <2>2, <3>2
  <2>4. CASE n > 0
    <3>1. i \in 0 .. n - 1 /\ j \in 0 .. n - 1 /\ q[i].i = q[j].i
      BY <1>2, <2>1, <2>4
    <3>2. Exchange(b, i, j) \in S
      BY <3>1, MixedSwap
    <3> QED BY <2>2, <3>2 DEF Exchange
  <2> QED BY <2>3, <2>4
<1>5. \A k \in 1 .. N : \A b \in S : SwapOp(k0, m, d, b, seq[k]) \in S
  <2>1. \A k \in 1 .. N : k \in 1 .. m - 1 /\ seq[k] = k
    BY <1>3
  <2> HIDE DEF seq, S
  <2> QED BY <1>4, <2>1
<1>6. Swapping!Left(k0, m, d, a, seq) \in S
  <2> HIDE DEF seq, S
  <2>1. a \in S
    BY DEF S
  <2> QED BY <1>3, <1>5, <2>1, Swapping!LeftKeeps, Zenon
<1>7. Shuffle(a, k0, m, d) = Swapping!Left(k0, m, d, a, seq)
  BY ShuffleLoop, Zenon
<1> QED BY <1>6, <1>7, Zenon DEF k0, m

(* One rank's share of the operators: the list mixed, or left.             *)
LEMMA CollidedList ==
  ASSUME deck \in Decks, NEW o, NEW n \in Nat, DOMAIN p[o.i] = 0 .. n - 1,
         p[o.i] = [i \in DOMAIN p[o.i] |-> p[o.i][i]],
         n = 0 \/ Bracketed(p[o.i], partition[o.i]),
         \A v \in 0 .. n_voxel : partition[o.i][v] \in Int,
         NEW rank, NEW d \in Nat
  PROVE  takizuka_abe_pipeline_scalar(o, rank, d).p \in Mixed(p[o.i], n)
<1> DEFINE q == p[o.i]
           S == Mixed(q, n)
           seq == Below(vh + 1, {v \in Stripe(rank) : Cell(o.i, v).nk # 0})
<1>1. vh \in Nat /\ n_voxel \in Nat /\ vh + 2 <= n_voxel
  BY BoxIs
<1>2. seq \in Seq(0 .. vh)
  <2> DEFINE Q == {v \in Stripe(rank) : Cell(o.i, v).nk # 0}
             z == vh + 1
  <2>1. z \in Nat /\ z - 1 = vh
    BY <1>1
  <2> HIDE DEF Q, z
  <2>3. \A m \in Nat : Below(m, Q) \in Seq(0 .. m - 1)
    BY BelowIs
  <2>2. Below(z, Q) \in Seq(0 .. z - 1)
    BY <2>1, <2>3
  <2>4. Below(z, Q) \in Seq(0 .. vh)
    BY <2>1, <2>2
  <2> QED BY <2>4 DEF Q, z
<1>3. takizuka_abe_pipeline_scalar(o, rank, d).p = Mixing!Left(o.i, d, 0, q, seq)
  BY Zenon DEF takizuka_abe_pipeline_scalar, MixOp, Mixing!Left, FoldLeft, MapThenFoldSet, Max,
               Mixing!Greatest
<1> HIDE DEF seq
<1>4. Len(seq) \in Nat /\ DOMAIN seq = 1 .. Len(seq) /\ \A k \in 1 .. Len(seq) : seq[k] \in 0 .. vh
  <2>1. Len(seq) \in Nat /\ DOMAIN seq = 1 .. Len(seq)
    BY <1>2
  <2>2. \A k \in 1 .. Len(seq) : seq[k] \in 0 .. vh
    BY <1>2, Elements
  <2> QED BY <2>1, <2>2
<1>5. ASSUME NEW v \in 0 .. vh, NEW a \in S
      PROVE  MixOp(o.i, d, 0, a, v) \in S
  <2>1. v \in 0 .. n_voxel - 2 /\ v \in 0 .. n_voxel /\ v + 1 \in 0 .. n_voxel
    BY <1>1
  <2>2. Shuffle(a, partition[o.i][v], partition[o.i][v + 1] - partition[o.i][v], d) \in S
    BY <2>1, ShuffleIs
  <2> QED BY <2>2 DEF MixOp, Cell
<1>6. q \in S
  BY MixedSelf
<1>7. \A k \in 1 .. Len(seq) : \A a \in S : MixOp(o.i, d, 0, a, seq[k]) \in S
  <2> HIDE DEF S
  <2> QED BY <1>4, <1>5
<1>8. Mixing!Left(o.i, d, 0, q, seq) \in S
  <2> HIDE DEF S, q
  <2> QED BY <1>4, <1>6, <1>7, Mixing!LeftKeeps, Zenon
<1> QED BY <1>3, <1>8

-----------------------------------------------------------------------------
(* The sums over a species count everyone.                                 *)
LEMMA EveryoneSummed ==
  ASSUME deck \in Decks, NEW n \in Nat, NEW f, \A r \in 0 .. N_PIPELINE : f[r] = Cardinality(Met(n, r))
  PROVE  Sum(0 .. N_PIPELINE, f) = n
<1> DEFINE C == [r \in 0 .. N_PIPELINE |-> Met(n, r)]
           P == 0 .. N_PIPELINE
<1>1. N_PIPELINE \in Nat
  BY DeckIs
<1>2. \A r \in P : Met(n, r) \subseteq 0 .. n - 1
  BY MetIs
<1>3. \A x \in P : IsFiniteSet(C[x]) /\ f[x] = Cardinality(C[x])
  <2> SUFFICES ASSUME NEW x \in P PROVE IsFiniteSet(C[x]) /\ f[x] = Cardinality(C[x])
    BY Zenon
  <2>1. C[x] = Met(n, x)
    OBVIOUS
  <2>2. IsFiniteSet(Met(n, x))
    BY <1>2, Few
  <2> QED BY <2>1, <2>2
<1>4. \A x, y \in P : x # y => C[x] \cap C[y] = {}
  BY MetOnce
<1>5. UNION {C[x] : x \in P} = 0 .. n - 1
  <2>1. \A i \in 0 .. n - 1 : \E r \in P : i \in C[r]
    BY MetIs
  <2>2. \A r \in P : C[r] \subseteq 0 .. n - 1
    BY <1>2
  <2> HIDE DEF C, P
  <2> QED BY <2>1, <2>2
<1>6. IsFiniteSet(P)
  BY <1>1, FS_Interval
<1>7. Sum(P, f) = Cardinality(UNION {C[x] : x \in P})
  <2> HIDE DEF C, P
  <2> QED BY <1>3, <1>4, <1>6, SumIs
<1>8. Cardinality(0 .. n - 1) = n
  <2>1. 0 \in Int /\ n - 1 \in Int
    OBVIOUS
  <2>2. Cardinality(0 .. n - 1) = IF 0 > n - 1 THEN 0 ELSE n - 1 - 0 + 1
    BY <2>1, FS_Interval
  <2> QED BY <2>2
<1> QED BY <1>5, <1>7, <1>8

-----------------------------------------------------------------------------
(* The dump: everyone, centered.                                           *)
CenterOp(x, y, z, a, e) == center_p_pipeline(a, e - 1)
Centering == INSTANCE Loops WITH Op <- CenterOp

Centered(q, n) == [i \in 0 .. n - 1 |-> [q[i] EXCEPT !.t = @ + 1]]
CenteredTo(q, n, k) ==
  [i \in 0 .. n - 1 |-> IF \E r \in 0 .. k - 1 : i \in Met(n, r) THEN [q[i] EXCEPT !.t = @ + 1] ELSE q[i]]

(* A rank's turn.                                                          *)
LEMMA CenterTurn ==
  ASSUME deck \in Decks, NEW n \in Nat, NEW q, NEW k \in 1 .. N_PIPELINE + 1
  PROVE  center_p_pipeline(CenteredTo(q, n, k - 1), k - 1) = CenteredTo(q, n, k)
<1> DEFINE a == CenteredTo(q, n, k - 1)
           b == CenteredTo(q, n, k)
           r == k - 1
           e(i) == [q[i] EXCEPT !.t = @ + 1]
<1>1. N_PIPELINE \in Nat
  BY DeckIs
<1>2. r \in 0 .. N_PIPELINE /\ k \in Nat
  BY <1>1
<1>3. DOMAIN a = 0 .. n - 1 /\ Cardinality(DOMAIN a) = n
  <2>1. DOMAIN a = 0 .. n - 1
    BY DEF CenteredTo
  <2>2. 0 \in Int /\ n - 1 \in Int
    OBVIOUS
  <2>3. Cardinality(0 .. n - 1) = IF 0 > n - 1 THEN 0 ELSE n - 1 - 0 + 1
    BY <2>2, FS_Interval
  <2> QED BY <2>1, <2>3
<1>4. center_p_pipeline(a, r) = Kick(a, Met(n, r), 1)
  <2> HIDE DEF a, r
  <2> QED BY <1>2, <1>3, KernelsAre
<1>5. Kicked(a, n, Met(n, r), 1, Kick(a, Met(n, r), 1))
  <2> HIDE DEF a, r
  <2> QED BY <1>3, KickIs
<1> DEFINE c == Kick(a, Met(n, r), 1)
<1>6. \A i \in 0 .. n - 1 : c[i] = b[i]
  <2> SUFFICES ASSUME NEW i \in 0 .. n - 1 PROVE c[i] = b[i]
    OBVIOUS
  <2>1. c[i] = IF i \in Met(n, r) THEN [a[i] EXCEPT !.t = @ + 1] ELSE a[i]
    BY <1>5 DEF Kicked
  <2>2. a[i] = IF \E t \in 0 .. k - 1 - 1 : i \in Met(n, t) THEN e(i) ELSE q[i]
    BY DEF CenteredTo
  <2>3. b[i] = IF \E t \in 0 .. k - 1 : i \in Met(n, t) THEN e(i) ELSE q[i]
    BY DEF CenteredTo
  <2> HIDE DEF a, b, c, e
  <2>4. r \in 0 .. k - 1 /\ (\A t \in 0 .. k - 1 : t = r \/ t \in 0 .. k - 1 - 1)
        /\ \A t \in 0 .. k - 1 - 1 : t \in 0 .. k - 1
    BY <1>2
  <2>5. CASE i \in Met(n, r)
    <3>1. \A t \in 0 .. k - 1 - 1 : i \notin Met(n, t)
      <4> SUFFICES ASSUME NEW t \in 0 .. k - 1 - 1 PROVE i \notin Met(n, t)
        OBVIOUS
      <4>1. t \in 0 .. N_PIPELINE /\ t # r
        BY <1>1, <1>2
      <4> HIDE DEF r
      <4>2. Met(n, r) \cap Met(n, t) = {}
        BY <1>2, <4>1, MetOnce
      <4> QED BY <2>5, <4>2
    <3>2. a[i] = q[i]
      BY <2>2, <3>1
    <3>3. c[i] = e(i)
      BY <2>1, <2>5, <3>2 DEF e
    <3> QED BY <2>3, <2>4, <2>5, <3>3
  <2>6. CASE i \notin Met(n, r)
    <3>1. c[i] = a[i]
      BY <2>1, <2>6
    <3>2. (\E t \in 0 .. k - 1 - 1 : i \in Met(n, t)) <=> (\E t \in 0 .. k - 1 : i \in Met(n, t))
      BY <2>4, <2>6
    <3> QED BY <2>2, <2>3, <3>1, <3>2
  <2> QED BY <2>5, <2>6
<1>7. c = b
  <2>1. c = [i \in 0 .. n - 1 |-> c[i]]
    BY <1>3 DEF Kick
  <2>2. b = [i \in 0 .. n - 1 |-> b[i]]
    BY DEF CenteredTo
  <2> HIDE DEF b, c
  <2> QED BY <1>6, <2>1, <2>2
<1> QED BY <1>4, <1>7

(* center_p is the loop of its ranks.                                      *)
LEMMA CenterLoop ==
  ASSUME NEW q
  PROVE  center_p(q) = Centering!Left(0, 0, 0, q, [x \in 1 .. N_PIPELINE + 1 |-> x])
  BY Zenon DEF center_p, CenterOp, Centering!Left, FoldLeft, MapThenFoldSet, Max,
               Centering!Greatest

(* center_p centers every particle once, whatever the widths of the ranks. *)
LEMMA CenterIs ==
  ASSUME deck \in Decks, NEW n \in Nat, NEW q, q = [i \in 0 .. n - 1 |-> q[i]]
  PROVE  center_p(q) = Centered(q, n)
<1> DEFINE P == N_PIPELINE
           seq == [x \in 1 .. P + 1 |-> x]
           I == [k \in 0 .. P + 1 |-> {CenteredTo(q, n, k)}]
<1>1. P \in Nat /\ P + 1 \in Nat /\ DOMAIN seq = 1 .. P + 1
  BY DeckIs
<1>2. q \in I[0]
  <2>1. CenteredTo(q, n, 0) = [i \in 0 .. n - 1 |-> q[i]]
    BY DEF CenteredTo
  <2>2. I[0] = {CenteredTo(q, n, 0)}
    BY <1>1
  <2> QED BY <2>1, <2>2
<1>3. \A k \in 1 .. P + 1 : \A a \in I[k - 1] : CenterOp(0, 0, 0, a, seq[k]) \in I[k]
  <2> SUFFICES ASSUME NEW k \in 1 .. P + 1, NEW a \in I[k - 1] PROVE CenterOp(0, 0, 0, a, seq[k]) \in I[k]
    BY Zenon
  <2>1. k - 1 \in 0 .. P + 1 /\ k \in 0 .. P + 1 /\ seq[k] = k
    BY <1>1
  <2>2. a = CenteredTo(q, n, k - 1) /\ I[k] = {CenteredTo(q, n, k)}
    BY <2>1
  <2>3. center_p_pipeline(CenteredTo(q, n, k - 1), k - 1) = CenteredTo(q, n, k)
    BY CenterTurn
  <2> HIDE DEF I, seq
  <2> QED BY <2>1, <2>2, <2>3 DEF CenterOp
<1>4. center_p(q) \in I[P + 1]
  <2>1. center_p(q) = Centering!Left(0, 0, 0, q, seq)
    BY CenterLoop, Zenon
  <2> DEFINE m == P + 1
  <2> HIDE DEF seq, I, m
  <2>2. m \in Nat /\ DOMAIN seq = 1 .. m
    BY <1>1 DEF m
  <2>3. \A k \in 1 .. m : \A a \in I[k - 1] : CenterOp(0, 0, 0, a, seq[k]) \in I[k]
    BY <1>3 DEF m
  <2>4. Centering!Left(0, 0, 0, q, seq) \in I[m]
    BY <1>2, <2>2, <2>3, Centering!LeftRule, Zenon
  <2> QED BY <2>1, <2>4 DEF m
<1>5. center_p(q) = CenteredTo(q, n, P + 1)
  <2>1. P + 1 \in 0 .. P + 1
    BY <1>1
  <2> QED BY <1>4, <2>1
<1>6. \A i \in 0 .. n - 1 : \E r \in 0 .. P + 1 - 1 : i \in Met(n, r)
  <2>1. 0 .. P + 1 - 1 = 0 .. P
    BY <1>1
  <2> QED BY <2>1, MetIs
<1>7. CenteredTo(q, n, P + 1) = Centered(q, n)
  <2> DEFINE m == P + 1
             a == CenteredTo(q, n, m)
             b == Centered(q, n)
  <2> HIDE DEF m
  <2>5. m - 1 = P + 1 - 1
    BY <1>1 DEF m
  <2>1. \A i \in 0 .. n - 1 : \E r \in 0 .. m - 1 : i \in Met(n, r)
    BY <1>6, <2>5, Zenon
  <2>2. a = [i \in 0 .. n - 1 |-> a[i]] /\ b = [i \in 0 .. n - 1 |-> b[i]]
    BY DEF CenteredTo, Centered
  <2>3. \A i \in 0 .. n - 1 : a[i] = b[i]
    BY <2>1 DEF CenteredTo, Centered
  <2> HIDE DEF a, b
  <2>4. a = b
    BY <2>2, <2>3
  <2> QED BY <2>4 DEF a, b, m
<1> QED BY <1>5, <1>7

(* Sequences joined one by one.                                            *)
Joins(seqs, n, X) ==
  /\ n \in Nat \ {0} /\ Len(seqs) = n /\ X[1] = seqs[1]
  /\ \A i \in 2 .. n : X[i] = X[i - 1] \o seqs[i]
(* FlattenSeq joins the sequences from the first to the last.              *)
LEMMA FlattenIs ==
  ASSUME NEW n, NEW seqs, NEW X, Joins(seqs, n, X)
  PROVE  FlattenSeq(seqs) = X[n]
<1>0. /\ n \in Nat \ {0} /\ Len(seqs) = n /\ X[1] = seqs[1]
      /\ \A i \in 2 .. n : X[i] = X[i - 1] \o seqs[i]
  BY DEF Joins
<1> DEFINE Goes(g) == g = [i \in 1 .. n |-> IF i = 1 THEN seqs[i] ELSE g[i - 1] \o seqs[i]]
           f == CHOOSE g : Goes(g)
           Y == [i \in 1 .. n |-> X[i]]
           W == [i \in 1 .. n |-> IF i = 1 THEN seqs[i] ELSE Y[i - 1] \o seqs[i]]
<1>1. FlattenSeq(seqs) = f[n]
  <2>1. n # 0
    BY <1>0
  <2> QED BY <1>0, <2>1, Zenon DEF FlattenSeq
<1>2. Goes(Y)
  <2>1. \A i \in 1 .. n : Y[i] = W[i]
    <3> SUFFICES ASSUME NEW i \in 1 .. n PROVE Y[i] = W[i]
      BY Zenon
    <3>1. CASE i = 1
      BY <1>0, <3>1
    <3>2. CASE i # 1
      <4>1. i \in 2 .. n /\ i - 1 \in 1 .. n
        BY <1>0, <3>2
      <4> QED BY <1>0, <3>2, <4>1
    <3> QED BY <3>1, <3>2
  <2>2. Y = [i \in 1 .. n |-> Y[i]] /\ W = [i \in 1 .. n |-> W[i]]
    OBVIOUS
  <2>3. Y = W
    <3> HIDE DEF Y, W
    <3> QED BY <2>1, <2>2
  <2> QED BY <2>3, Zenon
<1>3. Goes(f)
  BY <1>2, Zenon
<1> HIDE DEF f
<1>4. \A i \in 1 .. n : f[i] = IF i = 1 THEN seqs[i] ELSE f[i - 1] \o seqs[i]
  BY <1>3, Zenon
<1> DEFINE S == {k \in Nat : k \in 1 .. n => f[k] = X[k]}
<1>5. 0 \in S
  OBVIOUS
<1>6. ASSUME NEW k \in Nat, k \in S PROVE k + 1 \in S
  <2> SUFFICES ASSUME k + 1 \in 1 .. n PROVE f[k + 1] = X[k + 1]
    OBVIOUS
  <2> DEFINE j == k + 1
  <2>1. CASE k = 0
    <3>1. j = 1 /\ j \in 1 .. n
      BY <1>0, <2>1
    <3> QED BY <1>0, <1>4, <3>1
  <2>2. CASE k # 0
    <3>1. k \in 1 .. n /\ j \in 2 .. n /\ j \in 1 .. n /\ j # 1 /\ j - 1 = k
      BY <1>0, <2>2
    <3>2. f[k] = X[k]
      BY <1>6, <3>1
    <3> HIDE DEF j
    <3>3. f[j] = f[k] \o seqs[j]
      BY <1>4, <3>1
    <3>4. X[j] = X[k] \o seqs[j]
      BY <1>0, <3>1
    <3>5. f[j] = X[j]
      BY <3>2, <3>3, <3>4
    <3> QED BY <3>5 DEF j
  <2> QED BY <2>1, <2>2
<1>7. n \in S
  <2> HIDE DEF S
  <2>1. \A k \in Nat : k \in S
    BY <1>5, <1>6, Listing!Induction
  <2>2. n \in Nat /\ n \in 1 .. n
    BY <1>0
  <2> QED BY <2>1, <2>2
<1>8. n \in 1 .. n
  BY <1>0
<1> QED BY <1>1, <1>7, <1>8

(* A function from the first n numbers is a sequence.                      *)
LEMMA IsSeq ==
  ASSUME NEW S, NEW n \in Nat, NEW f \in [1 .. n -> S]
  PROVE  f \in Seq(S) /\ Len(f) = n
  OBVIOUS

(* The first a of what C lists from 0, and the m after them.               *)
First(C, a) == [k \in 1 .. a |-> C[k - 1]]
After(C, a, m) == [k \in 1 .. m |-> C[a + k - 1]]
(* What follows the first of a list makes them more.                       *)
LEMMA Spliced ==
  ASSUME NEW C, NEW a \in Nat, NEW b \in Nat
  PROVE  First(C, a) \o After(C, a, b) = First(C, a + b)
<1> DEFINE x == First(C, a)
           y == After(C, a, b)
           R == {C[k - 1] : k \in 1 .. a + b}
           z == x \o y
<1>1. x \in Seq(R) /\ Len(x) = a
  <2>1. \A k \in 1 .. a : x[k] \in R
    BY DEF First
  <2>2. x = [k \in 1 .. a |-> x[k]]
    BY DEF First
  <2> HIDE DEF R, x
  <2>3. x \in [1 .. a -> R]
    BY <2>1, <2>2
  <2> QED BY <2>3, IsSeq
<1>2. y \in Seq(R) /\ Len(y) = b
  <2>1. \A k \in 1 .. b : y[k] \in R
    <3> SUFFICES ASSUME NEW k \in 1 .. b PROVE y[k] \in R
      OBVIOUS
    <3>1. a + k \in 1 .. a + b
      OBVIOUS
    <3>2. a + k - 1 = (a + k) - 1
      OBVIOUS
    <3> QED BY <3>1, <3>2 DEF After
  <2>2. y = [k \in 1 .. b |-> y[k]]
    BY DEF After
  <2> HIDE DEF R, y
  <2>3. y \in [1 .. b -> R]
    BY <2>1, <2>2
  <2> QED BY <2>3, IsSeq
<1>3. z \in Seq(R) /\ Len(z) = a + b
      /\ \A k \in 1 .. a + b : z[k] = IF k <= a THEN x[k] ELSE y[k - a]
  <2> HIDE DEF R, x, y
  <2> QED BY <1>1, <1>2
<1>4. z = [k \in 1 .. a + b |-> z[k]]
  <2> HIDE DEF R, z, x, y
  <2> QED BY <1>3
<1>5. \A k \in 1 .. a + b : z[k] = C[k - 1]
  <2> SUFFICES ASSUME NEW k \in 1 .. a + b PROVE z[k] = C[k - 1]
    OBVIOUS
  <2> HIDE DEF z, R
  <2>1. CASE k <= a
    <3>1. k \in 1 .. a
      BY <2>1
    <3>2. x[k] = C[k - 1]
      BY <3>1 DEF First
    <3> QED BY <1>3, <2>1, <3>2
  <2>2. CASE ~ (k <= a)
    <3>1. k - a \in 1 .. b /\ a + (k - a) - 1 = k - 1
      BY <2>2
    <3>2. y[k - a] = C[a + (k - a) - 1]
      BY <3>1 DEF After
    <3> QED BY <1>3, <2>2, <3>1, <3>2
  <2> QED BY <2>1, <2>2
<1>6. z = [k \in 1 .. a + b |-> C[k - 1]]
  <2> HIDE DEF z, R
  <2> QED BY <1>4, <1>5
<1> QED BY <1>6 DEF First

(* One buffer of the dump, of the particles from a multiple of its size.   *)
BufferOf(s, b) ==
  LET n == Min({np(s) - b * deck.PBUF_SIZE, deck.PBUF_SIZE})
      q == center_p([i \in 0 .. n - 1 |-> p[s][b * deck.PBUF_SIZE + i]])
  IN [i \in 1 .. n |-> q[i - 1]]
Fill(n, a, B) == IF n - a < B THEN n - a ELSE B
(* A buffer of the dump has the particles from its first, centered, as     *)
(* many as are left or fit.                                                *)
LEMMA BufferIs ==
  ASSUME deck \in Decks, NEW s, np(s) \in Nat, NEW b, NEW a \in Nat, a = b * deck.PBUF_SIZE, a <= np(s)
  PROVE  /\ Fill(np(s), a, deck.PBUF_SIZE) \in Nat
         /\ BufferOf(s, b) = After(Centered(p[s], np(s)), a, Fill(np(s), a, deck.PBUF_SIZE))
<1> DEFINE B == deck.PBUF_SIZE
           n == Min({np(s) - a, B})
           x == [i \in 0 .. n - 1 |-> p[s][a + i]]
           C == Centered(p[s], np(s))
           z == [k \in 1 .. n |-> center_p(x)[k - 1]]
<1>1. B \in Nat \ {0}
  BY DeckIs
<1>2. n \in {np(s) - a, B} /\ n <= np(s) - a /\ n <= B
  <2> DEFINE u == np(s) - a
  <2>1. u \in Int /\ B \in Int
    BY <1>1
  <2> HIDE DEF B, u
  <2>2. Min({u, B}) \in {u, B} /\ Min({u, B}) <= u /\ Min({u, B}) <= B
    BY <2>1, LesserIs
  <2> QED BY <2>2 DEF u
<1>3. BufferOf(s, b) = z
  BY DEF BufferOf
<1> HIDE DEF B, n
<1>4. n \in Nat /\ n = IF np(s) - a < B THEN np(s) - a ELSE B
  BY <1>1, <1>2
<1>5. center_p(x) = Centered(x, n)
  <2>1. x = [i \in 0 .. n - 1 |-> x[i]]
    OBVIOUS
  <2> HIDE DEF x
  <2> QED BY <1>4, <2>1, CenterIs
<1>6. \A k \in 1 .. n : center_p(x)[k - 1] = C[a + k - 1]
  <2> SUFFICES ASSUME NEW k \in 1 .. n PROVE Centered(x, n)[k - 1] = C[a + k - 1]
    BY <1>5
  <2> DEFINE j == a + k - 1
             e(y) == [y EXCEPT !.t = @ + 1]
  <2>1. k - 1 \in 0 .. n - 1 /\ a + (k - 1) = j /\ j \in 0 .. np(s) - 1
    BY <1>2, <1>4
  <2>2. Centered(x, n)[k - 1] = e(x[k - 1])
    BY <2>1 DEF Centered
  <2>3. x[k - 1] = p[s][j]
    BY <2>1
  <2> HIDE DEF j
  <2>4. C[j] = e(p[s][j])
    BY <2>1 DEF Centered
  <2> HIDE DEF C, x, e
  <2>5. Centered(x, n)[k - 1] = C[j]
    BY <2>2, <2>3, <2>4
  <2> QED BY <2>5 DEF j
<1>7. z = [k \in 1 .. n |-> C[a + k - 1]]
  <2> DEFINE w == [k \in 1 .. n |-> C[a + k - 1]]
  <2>1. \A k \in 1 .. n : z[k] = w[k]
    BY <1>6
  <2>2. z = [k \in 1 .. n |-> z[k]] /\ w = [k \in 1 .. n |-> w[k]]
    OBVIOUS
  <2> HIDE DEF z, w
  <2>3. z = w
    BY <2>1, <2>2
  <2> QED BY <2>3 DEF w
<1> HIDE DEF C, z
<1>8. Fill(np(s), a, B) = n /\ z = After(C, a, n)
  BY <1>4, <1>7 DEF Fill, After
<1> QED BY <1>3, <1>4, <1>8 DEF B, C

(* The dump is everyone, in order, centered.                               *)
LEMMA DumpIs ==
  ASSUME deck \in Decks, NEW s, np(s) \in Nat
  PROVE  dump_particles(s) = First(Centered(p[s], np(s)), np(s))
<1> DEFINE n == np(s)
           B == deck.PBUF_SIZE
           N == (n + B - 1) \div B
           C == Centered(p[s], n)
           hi(b) == IF n < b * B THEN n ELSE b * B
           X == [b \in 1 .. N |-> First(C, hi(b))]
           seqs == [b \in 1 .. N |-> BufferOf(s, b - 1)]
<1>1. B \in Nat \ {0} /\ n \in Nat
  BY DeckIs
<1>2. dump_particles(s) = FlattenSeq(seqs)
  BY DEF dump_particles, BufferOf
<1> HIDE DEF B, n
<1>3. N \in Nat /\ N * B <= n + B - 1 /\ n + B - 1 < N * B + B
  <2> DEFINE m == n + B - 1
  <2>1. m \in Nat
    BY <1>1
  <2> HIDE DEF m
  <2>2. m \div B \in Nat /\ (m \div B) * B <= m /\ m < (m \div B) * B + B
    BY <1>1, <2>1
  <2> QED BY <2>2 DEF m
<1> HIDE DEF N
<1>4. \A b \in Nat : b * B \in Nat /\ (b + 1) * B = b * B + B
  BY <1>1
<1>5. \A b \in 0 .. N - 1 : b * B <= n
  <2> SUFFICES ASSUME NEW b \in 0 .. N - 1 PROVE b * B <= n
    OBVIOUS
  <2>1. N - 1 \in Nat /\ b \in Nat /\ N = (N - 1) + 1
    BY <1>3
  <2>2. b * B <= (N - 1) * B
    BY <1>1, <2>1
  <2>3. N * B = (N - 1) * B + B
    BY <1>1, <2>1
  <2> QED BY <1>1, <1>3, <1>4, <2>1, <2>2, <2>3
<1>6. ASSUME NEW b \in 0 .. N - 1, NEW a, a = b * B
      PROVE  /\ Fill(n, a, B) \in Nat
             /\ BufferOf(s, b) = After(C, a, Fill(n, a, B))
  <2>1. a \in Nat /\ a <= np(s) /\ a = b * deck.PBUF_SIZE
    BY <1>4, <1>5, <1>6 DEF B, n
  <2>2. /\ Fill(np(s), a, deck.PBUF_SIZE) \in Nat
        /\ BufferOf(s, b) = After(Centered(p[s], np(s)), a, Fill(np(s), a, deck.PBUF_SIZE))
    BY <2>1, BufferIs
  <2> QED BY <2>2 DEF B, n
<1>7. CASE N = 0
  <2>1. n = 0
    BY <1>1, <1>3, <1>7
  <2>2. seqs = <<>> /\ 1 .. n = {}
    BY <1>7, <2>1
  <2>3. FlattenSeq(seqs) = <<>>
    BY <2>2 DEF FlattenSeq
  <2>4. First(C, n) = <<>>
    BY <2>2 DEF First
  <2> QED BY <1>2, <2>3, <2>4 DEF n
<1>8. CASE N > 0
  <2>1. Len(seqs) = N
    BY <1>3
  <2>2. X[1] = seqs[1]
    <3>1. 0 \in 0 .. N - 1 /\ 1 \in 1 .. N /\ 0 * B = 0 /\ 1 * B = B
      BY <1>1, <1>3, <1>8
    <3> DEFINE m == Fill(n, 0, B)
    <3>2. m \in Nat /\ BufferOf(s, 0) = After(C, 0, m)
      BY <1>6, <3>1
    <3>3. m = hi(1)
      BY <1>1, <3>1 DEF Fill
    <3>4. X[1] = First(C, hi(1)) /\ seqs[1] = BufferOf(s, 0)
      BY <3>1
    <3> HIDE DEF m, C
    <3>5. \A k \in 1 .. m : 0 + k - 1 = k - 1
      OBVIOUS
    <3>6. After(C, 0, m) = First(C, m)
      BY <3>5 DEF After, First
    <3> HIDE DEF X, seqs, hi
    <3> QED BY <3>2, <3>3, <3>4, <3>6
  <2>3. ASSUME NEW i \in 2 .. N
        PROVE  X[i] = X[i - 1] \o seqs[i]
    <3> DEFINE b == i - 1
               a == b * B
    <3>1. b \in 0 .. N - 1 /\ b \in 1 .. N /\ i \in 1 .. N /\ b \in Nat /\ b + 1 = i
      BY <1>3
    <3>2. a \in Nat /\ a <= n /\ i * B = a + B
      BY <1>4, <1>5, <3>1
    <3> HIDE DEF b
    <3> DEFINE m == Fill(n, a, B)
    <3>3. m \in Nat /\ BufferOf(s, b) = After(C, a, m)
      BY <1>6, <3>1
    <3>4. hi(b) = a /\ hi(i) = a + m
      BY <1>1, <3>2 DEF Fill
    <3>5. X[b] = First(C, a) /\ X[i] = First(C, a + m)
      BY <3>1, <3>4
    <3>6. seqs[i] = BufferOf(s, b)
      BY <3>1 DEF b
    <3> HIDE DEF X, seqs, a, hi, C, m
    <3>7. First(C, a) \o After(C, a, m) = First(C, a + m)
      BY <3>2, <3>3, Spliced
    <3>8. X[i] = X[b] \o seqs[i]
      BY <3>3, <3>5, <3>6, <3>7
    <3> QED BY <3>8 DEF b
  <2>4. FlattenSeq(seqs) = X[N]
    <3> HIDE DEF X, seqs
    <3>1. \A i \in 2 .. N : X[i] = X[i - 1] \o seqs[i]
      BY <2>3
    <3>3. N \in Nat \ {0}
      BY <1>3, <1>8
    <3>2. Joins(seqs, N, X)
      BY <2>1, <2>2, <3>1, <3>3, Zenon DEF Joins
    <3> QED BY <3>2, FlattenIs
  <2>5. X[N] = First(C, n)
    <3>1. N \in 1 .. N /\ hi(N) = n
      <4>1. N * B >= n /\ N * B \in Int
        BY <1>1, <1>3
      <4>2. hi(N) = n
        BY <1>1, <4>1
      <4> QED BY <1>3, <1>8, <4>2
    <3> QED BY <3>1
  <2> HIDE DEF X, seqs, C
  <2> QED BY <1>2, <2>4, <2>5 DEF n, C
<1> QED BY <1>3, <1>7, <1>8

(* A file of n particles, those of ids, at time t.                         *)
FileOf(out, n, ids, t) ==
  /\ DOMAIN out = 1 .. n /\ Len(out) = n /\ {out[k].id : k \in 1 .. n} = ids
  /\ \A k \in 1 .. n : out[k].t = t
(* The file has every particle once, its momentum at the time of its       *)
(* position (dump_particles).                                              *)
LEMMA DumpedIs ==
  ASSUME deck \in Decks, NEW s, List(p[s], np(s)), NEW t \in Int,
         \A i \in 0 .. np(s) - 1 : p[s][i].t = t
  PROVE  FileOf(dump_particles(s), np(s), Ids(p[s]), t + 1)
<1> DEFINE n == np(s)
           q == p[s]
           C == Centered(q, n)
           out == dump_particles(s)
<1>1. n \in Nat /\ DOMAIN q = 0 .. n - 1 /\ \A i \in 0 .. n - 1 : Whole(q[i])
  BY DEF List
<1>2. out = First(C, n)
  BY <1>1, DumpIs
<1>3. \A i \in 0 .. n - 1 : C[i].id = q[i].id /\ C[i].t = t + 1
  <2> SUFFICES ASSUME NEW i \in 0 .. n - 1 PROVE C[i].id = q[i].id /\ C[i].t = t + 1
    OBVIOUS
  <2> DEFINE x == q[i]
             y == [x EXCEPT !.t = @ + 1]
  <2>1. C[i] = y
    BY DEF Centered
  <2>2. Whole(x) /\ x.t = t
    BY <1>1
  <2> HIDE DEF x
  <2>3. y.id = x.id /\ y.t = x.t + 1
    BY <2>2, WholeKick
  <2> HIDE DEF y
  <2> QED BY <2>1, <2>2, <2>3 DEF x
<1> HIDE DEF n, q, C, out
<1>4. DOMAIN out = 1 .. n /\ Len(out) = n /\ \A k \in 1 .. n : out[k] = C[k - 1]
  BY <1>1, <1>2 DEF First
<1>5. {out[k].id : k \in 1 .. n} = {q[i].id : i \in 0 .. n - 1}
  <2>1. \A k \in 1 .. n : k - 1 \in 0 .. n - 1
    BY <1>1
  <2>2. \A i \in 0 .. n - 1 : i + 1 \in 1 .. n /\ i + 1 - 1 = i
    BY <1>1
  <2>3. \A k \in 1 .. n : out[k].id = q[k - 1].id
    BY <1>3, <1>4, <2>1
  <2>4. \A i \in 0 .. n - 1 : out[i + 1].id = q[i].id
    <3> SUFFICES ASSUME NEW i \in 0 .. n - 1 PROVE out[i + 1].id = q[i].id
      OBVIOUS
    <3> DEFINE k == i + 1
    <3>1. k \in 1 .. n /\ k - 1 = i
      BY <1>1
    <3> HIDE DEF k
    <3>2. out[k].id = q[i].id
      BY <2>3, <3>1
    <3> QED BY <3>2 DEF k
  <2> QED BY <2>1, <2>2, <2>3, <2>4
<1>6. \A k \in 1 .. n : out[k].t = t + 1
  <2>1. \A k \in 1 .. n : k - 1 \in 0 .. n - 1
    BY <1>1
  <2> QED BY <1>3, <1>4, <2>1
<1>7. FileOf(out, n, Ids(q), t + 1)
  BY <1>1, <1>4, <1>5, <1>6 DEF FileOf, Ids
<1> QED BY <1>7 DEF out, n, q

-----------------------------------------------------------------------------
(* An injected particle, and its mover.                                    *)
Longer(q, n, x, b) ==
  /\ List(b, n + 1) /\ Ids(b) = Ids(q) \cup {x.id} /\ b = [i \in 0 .. n |-> b[i]]
  /\ b[n] = x /\ \A i \in 0 .. n - 1 : b[i] = q[i]
LEMMA AddIs ==
  ASSUME NEW q, NEW n, List(q, n), NEW x, Whole(x), x.id \notin Ids(q), NEW b, b = Put(q, n, x)
  PROVE  Longer(q, n, x, b)
<1>1. /\ n \in Nat /\ DOMAIN q = 0 .. n - 1 /\ \A i \in 0 .. n - 1 : Whole(q[i])
      /\ \A i, j \in 0 .. n - 1 : q[i].id = q[j].id => i = j
  BY DEF List
<1>2. b = [i \in 0 .. n |-> IF i \in 0 .. n - 1 THEN q[i] ELSE x]
  <2>1. (0 .. n - 1) \cup {n} = 0 .. n
    BY <1>1
  <2>2. b = [i \in (0 .. n - 1) \cup {n} |-> IF i = n THEN x ELSE q[i]]
    BY <1>1 DEF Put
  <2>3. \A i \in 0 .. n : i \notin 0 .. n - 1 <=> i = n
    BY <1>1
  <2> QED BY <2>1, <2>2, <2>3
<1>3. b[n] = x /\ \A i \in 0 .. n - 1 : b[i] = q[i]
  BY <1>1, <1>2
<1>4. DOMAIN b = 0 .. n + 1 - 1 /\ DOMAIN b = 0 .. n /\ \A i \in 0 .. n + 1 - 1 : i = n \/ i \in 0 .. n - 1
  BY <1>1, <1>2
<1>5. b = [i \in 0 .. n |-> b[i]]
  BY <1>2
<1>6. \A i \in 0 .. n - 1 : x.id # q[i].id
  BY <1>1 DEF Ids
<1>7. \A i, j \in 0 .. n + 1 - 1 : b[i].id = b[j].id => i = j
  BY <1>1, <1>3, <1>4, <1>6
<1>8. \A i \in 0 .. n + 1 - 1 : Whole(b[i])
  BY <1>1, <1>3, <1>4
<1>9. List(b, n + 1)
  BY <1>1, <1>4, <1>7, <1>8 DEF List
<1>10. Ids(b) = Ids(q) \cup {x.id}
  <2>1. \A i \in 0 .. n : i = n \/ i \in 0 .. n - 1
    BY <1>1
  <2>2. n \in 0 .. n /\ \A i \in 0 .. n - 1 : i \in 0 .. n
    BY <1>1
  <2> QED BY <1>1, <1>3, <1>4, <2>1, <2>2 DEF Ids
<1>11. b[n] = x /\ b = [i \in 0 .. n |-> b[i]] /\ \A i \in 0 .. n - 1 : b[i] = q[i]
  BY <1>3, <1>5
<1> QED BY <1>9, <1>10, <1>11, Zenon DEF Longer

(* An injected particle that stops at a face has the last mover, and the   *)
(* order is kept.                                                          *)
MoverFits(N, b, n, new, h) == h \in 0 .. N /\ MoversOK(b, n + 1, new, h)
LEMMA MoverAdded ==
  ASSUME NEW q, NEW n \in Nat, NEW list, NEW m, MoversOK(q, n, list, m), NEW N \in Nat,
         DOMAIN list = 0 .. N - 1, NEW b, \A i \in 0 .. n - 1 : b[i] = q[i],
         NEW new, new = Put(list, m, n), DOMAIN new = 0 .. N - 1, NEW stops \in BOOLEAN,
         IF stops THEN b[n].i \in Faces ELSE b[n].i \in Box,
         NEW h, h = m + IF stops THEN 1 ELSE 0
  PROVE  MoverFits(N, b, n, new, h)
<1>1. /\ m \in Nat /\ \A k \in 0 .. m - 1 : list[k] \in 0 .. n - 1
      /\ \A k, l \in 0 .. m - 1 : k < l => list[k] < list[l]
      /\ \A i \in 0 .. n - 1 : IF \E k \in 0 .. m - 1 : list[k] = i THEN q[i].i \in Faces
                                                                   ELSE q[i].i \in Box
  BY DEF MoversOK
<1>2. new = [k \in (0 .. N - 1) \cup {m} |-> IF k = m THEN n ELSE list[k]]
  BY DEF Put
<1>3. m \in 0 .. N - 1
  BY <1>1, <1>2
<1>4. new[m] = n /\ \A k \in 0 .. m - 1 : new[k] = list[k]
  <2>1. \A k \in 0 .. m - 1 : k \in 0 .. N - 1 /\ k # m
    BY <1>1, <1>3
  <2> QED BY <1>2, <1>3, <2>1
<1>5. \A i \in 0 .. n + 1 - 1 : i = n \/ i \in 0 .. n - 1
  OBVIOUS
<1>6. \A i \in 0 .. n - 1 : i \in 0 .. n + 1 - 1 /\ i # n /\ i < n
  OBVIOUS
<1>7. n \in 0 .. n + 1 - 1
  OBVIOUS
<1>8. CASE stops
  <2> DEFINE k1 == m + 1
  <2>1. \A k \in 0 .. k1 - 1 : k = m \/ k \in 0 .. m - 1
    BY <1>1
  <2>2. k1 \in Nat /\ m \in 0 .. k1 - 1 /\ \A k \in 0 .. m - 1 : k \in 0 .. k1 - 1 /\ k < m /\ ~ (m < k)
    BY <1>1
  <2> HIDE DEF k1
  <2>3. \A k \in 0 .. k1 - 1 : new[k] \in 0 .. n + 1 - 1
    BY <1>1, <1>4, <1>6, <1>7, <2>1
  <2>4. \A k, l \in 0 .. k1 - 1 : k < l => new[k] < new[l]
    <3> SUFFICES ASSUME NEW k \in 0 .. k1 - 1, NEW l \in 0 .. k1 - 1, k < l PROVE new[k] < new[l]
      OBVIOUS
    <3>1. k \in 0 .. m - 1
      BY <2>1, <2>2
    <3>2. CASE l = m
      BY <1>1, <1>4, <1>6, <3>1, <3>2
    <3>3. CASE l \in 0 .. m - 1
      BY <1>1, <1>4, <3>1, <3>3
    <3> QED BY <2>1, <3>2, <3>3
  <2>5. \A i \in 0 .. n + 1 - 1 : IF \E k \in 0 .. k1 - 1 : new[k] = i THEN b[i].i \in Faces
                                                                      ELSE b[i].i \in Box
    <3> SUFFICES ASSUME NEW i \in 0 .. n + 1 - 1
                 PROVE  IF \E k \in 0 .. k1 - 1 : new[k] = i THEN b[i].i \in Faces ELSE b[i].i \in Box
      OBVIOUS
    <3>1. CASE i = n
      BY <1>4, <1>8, <2>2, <3>1
    <3>2. CASE i \in 0 .. n - 1
      <4>1. (\E k \in 0 .. k1 - 1 : new[k] = i) <=> \E k \in 0 .. m - 1 : list[k] = i
        BY <1>4, <1>6, <2>1, <2>2, <3>2
      <4> QED BY <1>1, <3>2, <4>1
    <3> QED BY <1>5, <3>1, <3>2
  <2>6. MoversOK(b, n + 1, new, k1)
    BY <2>2, <2>3, <2>4, <2>5 DEF MoversOK
  <2>7. h = k1 /\ h \in 0 .. N
    BY <1>3, <1>8 DEF k1
  <2> QED BY <2>6, <2>7, Zenon DEF MoverFits
<1>9. CASE ~ stops
  <2>1. \A k \in 0 .. m - 1 : new[k] \in 0 .. n + 1 - 1
    BY <1>1, <1>4, <1>6
  <2>2. \A k, l \in 0 .. m - 1 : k < l => new[k] < new[l]
    BY <1>1, <1>4
  <2>3. \A i \in 0 .. n + 1 - 1 : IF \E k \in 0 .. m - 1 : new[k] = i THEN b[i].i \in Faces
                                                                     ELSE b[i].i \in Box
    <3> SUFFICES ASSUME NEW i \in 0 .. n + 1 - 1
                 PROVE  IF \E k \in 0 .. m - 1 : new[k] = i THEN b[i].i \in Faces ELSE b[i].i \in Box
      OBVIOUS
    <3>1. CASE i = n
      <4>1. \A k \in 0 .. m - 1 : new[k] # i
        BY <1>1, <1>4, <1>6, <3>1
      <4> QED BY <1>9, <3>1, <4>1
    <3>2. CASE i \in 0 .. n - 1
      <4>1. (\E k \in 0 .. m - 1 : new[k] = i) <=> \E k \in 0 .. m - 1 : list[k] = i
        BY <1>4, Zenon
      <4>2. b[i] = q[i]
        BY <3>2
      <4> QED BY <1>1, <3>2, <4>1, <4>2, Zenon
    <3> QED BY <1>5, <3>1, <3>2
  <2>4. MoversOK(b, n + 1, new, m)
    BY <1>1, <2>1, <2>2, <2>3 DEF MoversOK
  <2>5. m + 0 = m /\ m \in 0 .. N
    BY <1>1, <1>3
  <2>6. h = m
    BY <1>9, <2>5
  <2> QED BY <2>4, <2>5, <2>6, Zenon DEF MoverFits
<1> QED BY <1>8, <1>9

-----------------------------------------------------------------------------
(* The invariant.                                                          *)

(* Where the particles of a species are: the last pass of the threaded     *)
(* sort has them in aux.                                                   *)
L(s) == IF pc = "subsort" /\ call.s = s THEN aux ELSE p[s]

Settling == {"energy_p", "hydro_p", "dump", "begin", "coarse_count", "coarse_sort", "subsort",
             "collide", "colliding"}
Leaving == {"inject", "remove", "error"}

(* Who is at work on what.                                                 *)
Ctl ==
  /\ deck \in Decks /\ pc \in Phases /\ step \in 0 .. MaxStep /\ op \in Nat \ {0}
  /\ todo \subseteq 0 .. N_PIPELINE
  /\ pc \in {"coarse_count", "coarse_sort", "colliding"} => todo \subseteq Pipelines
  /\ pc = "uncenter_p" => step = 0
  /\ call.s \in Species
  /\ pc = "advance_p" => /\ call.motion \in deck.motions
                         /\ call = [k |-> call.k, s |-> call.s, motion |-> call.motion]
  /\ pc # "advance_p" => call = [k |-> call.k, s |-> call.s]
  /\ Sorting => call.k \in {"begin", "collide"}
  /\ Sorting \/ pc \in {"collide", "colliding", "advance_p", "inject", "remove"} => step < MaxStep
  /\ pc = "colliding" =>
       /\ op <= Len(deck.ops)
       /\ deck.ops[op].kind # "unary" =>
            last_sorted[deck.ops[op].i] = step /\ last_sorted[deck.ops[op].j] = step

(* What is a function of what.                                             *)
Domains ==
  /\ p = [s \in Species |-> p[s]] /\ pm = [s \in Species |-> pm[s]]
  /\ nm = [s \in Species |-> nm[s]] /\ lost = [s \in Species |-> lost[s]]
  /\ partition = [s \in Species |-> partition[s]]
  /\ last_sorted = [s \in Species |-> last_sorted[s]]
  /\ seg = [r \in 0 .. N_PIPELINE |-> seg[r]]
  /\ \A s \in Species :
       /\ DOMAIN p[s] = 0 .. np(s) - 1 /\ p[s] = [i \in DOMAIN p[s] |-> p[s][i]]
       /\ np(s) \in Nat /\ np(s) <= deck.species[s].max_np
       /\ nm[s] \in 0 .. deck.species[s].max_nm
       /\ DOMAIN partition[s] = 0 .. n_voxel /\ \A v \in 0 .. n_voxel : partition[s][v] \in Int
       /\ last_sorted[s] \in Int /\ last_sorted[s] <= step
       /\ pc \in {"uncenter_p", "energy_p", "hydro_p", "dump"} => last_sorted[s] < step

(* Every particle there is, is there once.                                 *)
Listed(ids, gone, ever, newId, loaded) ==
  /\ ids \cap gone = {}
  /\ \A id \in ids \cup gone : id \in Nat /\ id < ever
  /\ {id \in ids \cup gone : id < newId} = 1 .. loaded
Ever == deck.newId + step + IF pc = "remove" THEN 1 ELSE 0
Census ==
  \A s \in Species :
    /\ List(L(s), np(s))
    /\ Listed(Ids(L(s)), lost[s], Ever, deck.newId, deck.loaded[s])

(* A kernel that goes from species to species, rank by rank, has come by.  *)
Reached(s, i) ==
  \/ s < call.s
  \/ s = call.s /\ \E r \in (0 .. N_PIPELINE) \ todo : i \in Met(np(s), r)

(* The times the momenta are known at.                                     *)
Momenta ==
  \A s \in Species : \A i \in 0 .. np(s) - 1 :
    /\ pc = "uncenter_p" => L(s)[i].t = IF Reached(s, i) THEN -1 ELSE 0
    /\ pc = "advance_p" => L(s)[i].t = 2 * step + IF Reached(s, i) THEN 1 ELSE -1
    /\ pc \in Leaving => L(s)[i].t = 2 * step + 1
    /\ pc \in Settling => L(s)[i].t = 2 * step - 1

(* The voxels and faces they are at.                                       *)
Boxed(q, n) == \A i \in 0 .. n - 1 : q[i].i \in Box
Places ==
  /\ pc \notin Leaving \cup {"advance_p"} =>
       \A s \in Species : nm[s] = 0 /\ Boxed(L(s), np(s))
  /\ pc = "advance_p" =>
       /\ \A s \in Species :
            IF s < call.s THEN MoversOK(p[s], np(s), pm[s], nm[s])
            ELSE nm[s] = 0 /\ \A i \in 0 .. np(s) - 1 : ~ Reached(s, i) => p[s][i].i \in Box
       /\ \A r \in (0 .. N_PIPELINE) \ todo :
            Segment(p[call.s], pm[call.s], Met(np(call.s), r),
                    Room(np(call.s), deck.species[call.s].max_nm, r), seg[r])
  /\ pc \in Leaving => \A s \in Species : MoversOK(p[s], np(s), pm[s], nm[s])

(* How far the threaded sort has come.                                     *)
CountedBy(q, n, cp, ranks) ==
  \A k \in Pipelines, r \in ranks : cp[CpAt(k, r)] = Tally(q, n, k, r)
StartsAre(q, n, cp) ==
  \A k, r \in Pipelines : cp[CpAt(k, r)] = Start(q, n, k, r)
CopiedBy(q, n, a, ranks) ==
  \A r \in ranks : \A i \in Of(n, r) : a[Place(QKey(q), i)] = q[i]
Grouped(a, n, cp) ==
  /\ \A k \in 0 .. N_PIPELINE : cp[k] = Less(QKey(a), k)
  /\ \A k \in Pipelines : cp[k] .. cp[k + 1] - 1 = {i \in 0 .. n - 1 : QKey(a)[i] = k}
SubsortedBy(a, n, q, part, ranks) ==
  \A k \in ranks :
    /\ \A v \in P2V(k, N_PIPELINE) .. P2V(k + 1, N_PIPELINE) : part[v] = Less(VKey(a), v)
    /\ \A i \in 0 .. n - 1 : QKey(a)[i] = k => q[Place(VKey(a), i)] = a[i]
GhostsAre(part, n) ==
  \A v \in 0 .. n_voxel - 1 : (v < vl => part[v] = 0) /\ (v > vh => part[v] = n)

Passes ==
  LET s == call.s
      done == Pipelines \ todo
  IN /\ pc \in {"coarse_count", "coarse_sort"} =>
          DOMAIN aux = 0 .. np(s) - 1 /\ DOMAIN coarse_partition = 0 .. cp_stride * N_PIPELINE
     /\ pc = "coarse_count" => CountedBy(p[s], np(s), coarse_partition, done)
     /\ pc = "coarse_sort" => /\ StartsAre(p[s], np(s), coarse_partition)
                              /\ CopiedBy(p[s], np(s), aux, done)
     /\ pc = "subsort" => /\ Grouped(aux, np(s), coarse_partition)
                          /\ SubsortedBy(aux, np(s), p[s], partition[s], done)
                          /\ N_PIPELINE \notin todo => GhostsAre(partition[s], np(s))

(* What the last sort left, until the particles move.                      *)
Brackets ==
  pc \in {"begin", "collide", "colliding"} \/ Sorting =>
    \A s \in Species :
      last_sorted[s] = step /\ ~ (Sorting /\ call.s = s) /\ ~ (deck.legacy /\ np(s) = 0) =>
        Bracketed(p[s], partition[s])

(* What the diagnostics found.                                             *)
Sums ==
  pc \in {"energy_p", "hydro_p"} =>
    \A r \in (0 .. N_PIPELINE) \ todo : seg[r] = Cardinality(Met(np(call.s), r))
Files ==
  pc = "begin" \/ (Sorting /\ call.k = "begin") =>
    \A s \in Species : FileOf(file[s], np(s), Ids(L(s)), 2 * step)

IInv == /\ Ctl /\ Domains /\ Census /\ Momenta /\ Places /\ Passes /\ Brackets /\ Sums /\ Files

-----------------------------------------------------------------------------
(* What the deck alone says stays as it is.                                *)
LEMMA SameDeck ==
  ASSUME deck' = deck
  PROVE  /\ Species' = Species /\ N_PIPELINE' = N_PIPELINE /\ Pipelines' = Pipelines
         /\ n_voxel' = n_voxel /\ vl' = vl /\ vh' = vh /\ cp_stride' = cp_stride
         /\ Box' = Box /\ Faces' = Faces
<1>1. Species' = Species /\ N_PIPELINE' = N_PIPELINE /\ n_voxel' = n_voxel /\ vl' = vl /\ vh' = vh
  BY DEF Species, N_PIPELINE, n_voxel, vl, vh
<1>2. Pipelines' = Pipelines /\ cp_stride' = cp_stride
  BY <1>1 DEF Pipelines, cp_stride
<1>3. Box' = Box
  BY DEF Box
<1>4. Faces' = Faces
  BY <1>3 DEF Faces
<1> QED BY <1>1, <1>2, <1>3, <1>4

(* What a kernel meets and where its movers go depends on the deck only.   *)
LEMMA SameKernels ==
  ASSUME deck' = deck
  PROVE  /\ \A n, r : Met(n, r)' = Met(n, r)
         /\ \A n, N, r : Room(n, N, r)' = Room(n, N, r)
         /\ \A q, n, list, m : MoversOK(q, n, list, m)' <=> MoversOK(q, n, list, m)
         /\ \A q, list, S, room, g : Segment(q, list, S, room, g)' <=> Segment(q, list, S, room, g)
         /\ \A q, n : Boxed(q, n)' <=> Boxed(q, n)
<1>1. \A n, r : Met(n, r)' = Met(n, r)
  BY SameDeck DEF Met, Lanes
<1>2. \A n, N, r : Room(n, N, r)' = Room(n, N, r)
  BY SameDeck DEF Room
<1>3. \A q, n, list, m : MoversOK(q, n, list, m)' <=> MoversOK(q, n, list, m)
  BY SameDeck DEF MoversOK
<1>4. \A q, list, S, room, g : Segment(q, list, S, room, g)' <=> Segment(q, list, S, room, g)
  BY SameDeck DEF Segment
<1>5. \A q, n : Boxed(q, n)' <=> Boxed(q, n)
  BY SameDeck DEF Boxed
<1> QED BY <1>1, <1>2, <1>3, <1>4, <1>5

(* And so does what the passes of the sort have to do.                     *)
LEMMA SameSort ==
  ASSUME deck' = deck
  PROVE  /\ \A q, n, cp, ranks : CountedBy(q, n, cp, ranks)' <=> CountedBy(q, n, cp, ranks)
         /\ \A q, n, cp : StartsAre(q, n, cp)' <=> StartsAre(q, n, cp)
         /\ \A q, n, a, ranks : CopiedBy(q, n, a, ranks)' <=> CopiedBy(q, n, a, ranks)
         /\ \A a, n, cp : Grouped(a, n, cp)' <=> Grouped(a, n, cp)
         /\ \A a, n, q, part, ranks : SubsortedBy(a, n, q, part, ranks)' <=> SubsortedBy(a, n, q, part, ranks)
         /\ \A part, n : GhostsAre(part, n)' <=> GhostsAre(part, n)
         /\ \A q, part : Bracketed(q, part)' <=> Bracketed(q, part)
<1>1. \A q : QKey(q)' = QKey(q)
  BY SameDeck DEF QKey, V2P
<1>2. \A n, r : Of(n, r)' = Of(n, r)
  BY SameDeck DEF Of
<1>3. \A k, r : CpAt(k, r)' = CpAt(k, r)
  BY SameDeck DEF CpAt
<1>4. \A q, n, k, r : Tally(q, n, k, r)' = Tally(q, n, k, r)
  BY <1>1, <1>2 DEF Tally
<1>5. \A n, h, r : InEarlier(n, h, r)' <=> InEarlier(n, h, r)
  BY <1>2 DEF InEarlier
<1>6. \A q, n, k, r : Start(q, n, k, r)' = Start(q, n, k, r)
  BY <1>1, <1>5 DEF Start
<1>7. \A k, P : P2V(k, P)' = P2V(k, P)
  BY SameDeck DEF P2V
<1>8. \A q, n, cp, ranks : CountedBy(q, n, cp, ranks)' <=> CountedBy(q, n, cp, ranks)
  BY <1>3, <1>4, SameDeck DEF CountedBy
<1>9. \A q, n, cp : StartsAre(q, n, cp)' <=> StartsAre(q, n, cp)
  BY <1>3, <1>6, SameDeck DEF StartsAre
<1>10. \A q, n, a, ranks : CopiedBy(q, n, a, ranks)' <=> CopiedBy(q, n, a, ranks)
  BY <1>1, <1>2 DEF CopiedBy
<1>11. \A a, n, cp : Grouped(a, n, cp)' <=> Grouped(a, n, cp)
  BY <1>1, SameDeck DEF Grouped
<1>12. \A a, n, q, part, ranks : SubsortedBy(a, n, q, part, ranks)' <=> SubsortedBy(a, n, q, part, ranks)
  BY <1>1, <1>7, SameDeck DEF SubsortedBy
<1>13. \A part, n : GhostsAre(part, n)' <=> GhostsAre(part, n)
  BY SameDeck DEF GhostsAre
<1>14. \A q, part : Bracketed(q, part)' <=> Bracketed(q, part)
  BY SameDeck DEF Bracketed
<1> QED BY <1>8, <1>9, <1>10, <1>11, <1>12, <1>13, <1>14

(* The least of some numbers is one of them.                               *)
LEMMA MinOf ==
  ASSUME NEW S, S \subseteq Nat, S # {}
  PROVE  Min(S) \in S
<1>1. \E m \in S : \A k \in S : m <= k
  BY Listing!LeastNumber
<1> QED BY <1>1 DEF Min

-----------------------------------------------------------------------------
(* Who is at work, from one step to the next.                              *)

(* A sort leaves the caller's business to be gone on with.                 *)
LEMMA CtlSort ==
  ASSUME Ctl, NEW s \in Species, NEW back \in {"begin", "collide"}, pc = back, step < MaxStep,
         sort_p(s, back), UNCHANGED <<deck, step, op>>
  PROVE  Ctl'
<1>1. pc' \in {pc, "coarse_count"} /\ (pc' = "coarse_count" => todo' = Pipelines)
      /\ (pc' = pc => todo' = todo) /\ call' = [k |-> back, s |-> s]
  BY DEF sort_p, Ctl
<1>2. Species' = Species /\ Pipelines' = Pipelines /\ N_PIPELINE' = N_PIPELINE
  BY SameDeck
<1>3. Pipelines \subseteq 0 .. N_PIPELINE
  BY DeckIs DEF Pipelines, Ctl
<1> QED BY <1>1, <1>2, <1>3 DEF Ctl, Sorting, Phases

(* The start of a step leads to its sorts, to its collisions or on.        *)
LEMMA CtlBegin ==
  ASSUME Ctl, Begin
  PROVE  Ctl'
<1>1. Species' = Species /\ Pipelines' = Pipelines /\ N_PIPELINE' = N_PIPELINE
  BY SameDeck DEF Begin
<1> DEFINE due == {s \in Species : /\ deck.species[s].sort_interval > 0
                                   /\ step % deck.species[s].sort_interval = 0
                                   /\ last_sorted[s] # step}
<1>2. CASE due # {}
  <2>1. due \subseteq Nat
    BY DeckIs DEF Ctl
  <2>2. Min(due) \in due
    <3> HIDE DEF due
    <3> QED BY <1>2, <2>1, MinOf
  <2>3. Min(due) \in Species /\ sort_p(Min(due), "begin") /\ UNCHANGED <<deck, step, op>>
        /\ pc = "begin" /\ step < MaxStep
    BY <1>2, <2>2 DEF Begin
  <2> HIDE DEF due
  <2> QED BY <2>3, CtlSort
<1>3. CASE due = {}
  <2>1. pc = "begin" /\ step < MaxStep /\ pc' = "collide" /\ op' = 1
        /\ UNCHANGED <<call, todo, deck, step>>
    BY <1>3 DEF Begin
  <2> QED BY <1>1, <2>1 DEF Ctl, Sorting, Phases
<1> QED BY <1>2, <1>3

(* The collisions lead to the next operator or to the advance.             *)
LEMMA CtlCollide ==
  ASSUME Ctl, Collide
  PROVE  Ctl'
<1>1. Species' = Species /\ Pipelines' = Pipelines /\ N_PIPELINE' = N_PIPELINE
  BY SameDeck DEF Collide
<1>2. deck \in Decks /\ op \in Nat \ {0} /\ pc = "collide" /\ step < MaxStep
      /\ Len(deck.ops) \in Nat /\ N_PIPELINE \in Nat /\ 1 \in Species
  BY OpIs, DeckIs DEF Ctl, Collide
<1>3. CASE op > Len(deck.ops)
  <2>1. PICK m \in deck.motions :
          /\ pc' = "advance_p" /\ todo' = 0 .. N_PIPELINE
          /\ call' = [k |-> "advance_p", s |-> 1, motion |-> m]
          /\ UNCHANGED <<op, deck, step>>
    BY <1>3 DEF Collide
  <2> QED BY <1>1, <1>2, <2>1 DEF Ctl, Sorting, Phases
<1>4. CASE ~ (op > Len(deck.ops))
  <2> DEFINE o == deck.ops[op]
             stale == {s \in {o.i, o.j} : last_sorted[s] # step}
  <2>1. op \in 1 .. Len(deck.ops) /\ op <= Len(deck.ops)
    BY <1>2, <1>4
  <2>2. o.i \in Species /\ o.j \in Species
    BY <1>2, <2>1, OpIs
  <2>3. UNCHANGED <<deck, step>>
    BY DEF Collide
  <2>4. CASE step % o.interval # 0
    <3>1. op' = op + 1 /\ UNCHANGED <<pc, call, todo>>
      BY <1>4, <2>4 DEF Collide
    <3> QED BY <1>1, <1>2, <2>3, <3>1 DEF Ctl, Sorting, Phases
  <2>5. CASE step % o.interval = 0 /\ o.kind # "unary" /\ stale # {}
    <3> DEFINE s == IF o.i \in stale THEN o.i ELSE o.j
    <3>1. s \in Species
      BY <2>2
    <3>2. sort_p(s, "collide") /\ UNCHANGED op
      BY <1>4, <2>5 DEF Collide
    <3> HIDE DEF s
    <3> QED BY <1>2, <2>3, <3>1, <3>2, CtlSort
  <2>6. CASE step % o.interval = 0 /\ ~ (o.kind # "unary" /\ stale # {})
    <3>1. pc' = "colliding" /\ todo' = Pipelines /\ UNCHANGED <<sortVars, call, op>>
      BY <1>4, <2>6 DEF Collide
    <3>2. o.kind # "unary" => last_sorted[o.i] = step /\ last_sorted[o.j] = step
      BY <2>6
    <3>3. last_sorted' = last_sorted
      BY <3>1 DEF sortVars
    <3>4. Pipelines \subseteq 0 .. N_PIPELINE
      BY <1>2 DEF Pipelines
    <3> QED BY <1>1, <1>2, <2>1, <2>3, <3>1, <3>2, <3>3, <3>4 DEF Ctl, Sorting, Phases
  <2> QED BY <2>4, <2>5, <2>6
<1> QED BY <1>3, <1>4

(* A kernel over all species goes on with the next one or is done.         *)
LEMMA CtlNextSpecies ==
  ASSUME Ctl, pc \in {"uncenter_p", "energy_p", "hydro_p", "advance_p"},
         NEW k, NEW next,
         <<k, next>> \in {<<"uncenter_p", "energy_p">>, <<"energy_p", "hydro_p">>,
                          <<"hydro_p", "dump">>, <<"advance_p", "inject">>},
         k = pc, Next_species(k, next), UNCHANGED <<deck, step, op>>
  PROVE  Ctl'
<1>1. Species' = Species /\ Pipelines' = Pipelines /\ N_PIPELINE' = N_PIPELINE
  BY SameDeck
<1>2. call.s \in Species /\ Len(deck.species) \in Nat /\ 1 \in Species /\ N_PIPELINE \in Nat
  BY DeckIs DEF Ctl
<1>3. next \in {"energy_p", "hydro_p", "dump", "inject"} /\ (k = "advance_p" <=> next = "inject")
  OBVIOUS
<1>4. CASE call.s < Len(deck.species)
  <2>1. pc' = pc /\ call' = [call EXCEPT !.s = call.s + 1] /\ todo' = 0 .. N_PIPELINE
    BY <1>4 DEF Next_species
  <2>2. call.s + 1 \in Species
    BY <1>2, <1>4 DEF Species
  <2>3. CASE pc = "advance_p"
    <3>1. call = [k |-> call.k, s |-> call.s, motion |-> call.motion] /\ call.motion \in deck.motions
      BY <2>3 DEF Ctl
    <3>2. call' = [k |-> call.k, s |-> call.s + 1, motion |-> call.motion]
      BY <2>1, <3>1
    <3> QED BY <1>1, <1>2, <2>1, <2>2, <2>3, <3>1, <3>2 DEF Ctl, Sorting, Phases
  <2>4. CASE pc # "advance_p"
    <3>1. call = [k |-> call.k, s |-> call.s]
      BY <2>4 DEF Ctl
    <3>2. call' = [k |-> call.k, s |-> call.s + 1]
      BY <2>1, <3>1
    <3> QED BY <1>1, <1>2, <2>1, <2>2, <2>4, <3>2 DEF Ctl, Sorting, Phases
  <2> QED BY <2>3, <2>4
<1>5. CASE ~ (call.s < Len(deck.species))
  <2>1. pc' = next /\ call' = [k |-> next, s |-> 1]
        /\ todo' = IF next \in {"energy_p", "hydro_p"} THEN 0 .. N_PIPELINE ELSE {}
    BY <1>5 DEF Next_species
  <2> QED BY <1>1, <1>2, <1>3, <2>1 DEF Ctl, Sorting, Phases
<1> QED BY <1>4, <1>5

(* Every action leaves a place in the step, with something for it to do.   *)
LEMMA CtlStep ==
  ASSUME Ctl, Next
  PROVE  Ctl'
<1>1. deck' = deck
  BY DEF Next, uncenter_p, energy_p, accumulate_hydro_p, coarse_count, coarse_sort, subsort, colliding,
         advance_p, Uncentered, Summed, Dump, Begin, Counted, CoarseSorted, Subsorted, Collide, Collided,
         Advanced, inject_particle, Drop, Done, vars
<1>2. Species' = Species /\ Pipelines' = Pipelines /\ N_PIPELINE' = N_PIPELINE
  BY <1>1, SameDeck
<1>3. deck \in Decks /\ N_PIPELINE \in Nat \ {0} /\ 1 \in Species /\ Pipelines \subseteq 0 .. N_PIPELINE
  BY DeckIs DEF Ctl, Pipelines
<1>4. ASSUME NEW rank \in 0 .. N_PIPELINE,
             uncenter_p(rank) \/ energy_p(rank) \/ accumulate_hydro_p(rank)
               \/ coarse_count(rank) \/ coarse_sort(rank) \/ subsort(rank)
               \/ colliding(rank) \/ advance_p(rank)
      PROVE  Ctl'
  <2>1. /\ todo' = todo \ {rank} /\ UNCHANGED <<deck, pc, step, call, op>>
        /\ pc = "colliding" => last_sorted' = last_sorted
    BY <1>4, Zenon DEF uncenter_p, energy_p, accumulate_hydro_p, coarse_count, coarse_sort, subsort,
                       colliding, advance_p, sortVars
  <2> QED BY <1>2, <2>1 DEF Ctl, Sorting
<1>5. CASE Uncentered
  BY <1>5, CtlNextSpecies DEF Uncentered
<1>6. CASE Summed
  BY <1>6, CtlNextSpecies DEF Summed
<1>7. CASE Dump
  BY <1>2, <1>7 DEF Ctl, Dump, Sorting, Phases
<1>8. CASE Begin
  BY <1>8, CtlBegin
<1>9. CASE Counted
  BY <1>2, <1>3, <1>9 DEF Ctl, Counted, Sorting, Phases
<1>10. CASE CoarseSorted
  BY <1>2, <1>3, <1>10 DEF Ctl, CoarseSorted, Sorting, Phases
<1>11. CASE Subsorted
  BY <1>2, <1>11 DEF Ctl, Subsorted, Sorting, Phases
<1>12. CASE Collide
  BY <1>12, CtlCollide
<1>13. CASE Collided
  BY <1>2, <1>13 DEF Ctl, Collided, Sorting, Phases
<1>14. CASE Advanced
  BY <1>14, CtlNextSpecies DEF Advanced
<1>15. CASE inject_particle
  BY <1>2, <1>15 DEF Ctl, inject_particle, Sorting, Phases
<1>16. CASE Drop
  <2>1. step < MaxStep /\ step \in Nat /\ MaxStep \in Nat /\ step' = step + 1 /\ pc' = "energy_p"
        /\ call' = [k |-> "energy_p", s |-> 1] /\ todo' = 0 .. N_PIPELINE /\ UNCHANGED <<deck, op>>
    BY <1>16, DecksAssumption DEF Ctl, Drop
  <2> QED BY <1>2, <1>3, <2>1 DEF Ctl, Sorting, Phases
<1>17. CASE Done
  BY <1>2, <1>17 DEF Ctl, Done, vars, Sorting
<1> QED BY <1>4, <1>5, <1>6, <1>7, <1>8, <1>9, <1>10, <1>11, <1>12, <1>13, <1>14, <1>15, <1>16,
           <1>17 DEF Next

-----------------------------------------------------------------------------
(* The deck's particles, as they are loaded.                               *)
Loads(s, q) ==
  /\ Cardinality(DOMAIN q) = deck.loaded[s] /\ deck.loaded[s] \in Nat
  /\ deck.loaded[s] <= deck.species[s].max_np
  /\ List(q, deck.loaded[s])
  /\ Listed(Ids(q), {}, deck.newId, deck.newId, deck.loaded[s])
  /\ Boxed(q, deck.loaded[s]) /\ \A i \in 0 .. deck.loaded[s] - 1 : q[i].t = 0
(* What the deck loads is a list in the box, its times zero.               *)
LEMMA LoadedList ==
  ASSUME deck \in Decks, NEW at \in deck.at, NEW s \in Species, NEW q,
         q = [i \in 0 .. Len(at[s]) - 1 |-> [id |-> i + 1, i |-> at[s][i + 1], t |-> 0, c |-> 0]]
  PROVE  Loads(s, q)
<1> DEFINE n == deck.loaded[s]
<1>1. at[s] \in Seq(Box) /\ Len(at[s]) = n /\ n <= deck.species[s].max_np /\ n < deck.newId
  BY DecksAssumption DEF DeckOK, Species, Box
<1>2. n \in Nat /\ deck.newId \in Nat
  BY <1>1, DeckIs
<1>3. \A i \in 1 .. n : at[s][i] \in Box
  BY <1>1, Elements
<1> HIDE DEF n
<1>4. /\ DOMAIN q = 0 .. n - 1
      /\ \A i \in 0 .. n - 1 : q[i] = [id |-> i + 1, i |-> at[s][i + 1], t |-> 0, c |-> 0]
  BY <1>1
<1>5. Cardinality(DOMAIN q) = n
  <2>1. 0 \in Int /\ n - 1 \in Int
    BY <1>2
  <2>2. Cardinality(0 .. n - 1) = IF 0 > n - 1 THEN 0 ELSE n - 1 - 0 + 1
    BY <2>1, FS_Interval
  <2> QED BY <1>2, <1>4, <2>2
<1>6. \A i \in 0 .. n - 1 : Whole(q[i]) /\ q[i].id = i + 1 /\ q[i].t = 0 /\ q[i].i = at[s][i + 1]
  BY <1>4 DEF Whole
<1>7. List(q, n)
  <2>1. \A i, j \in 0 .. n - 1 : q[i].id = q[j].id => i = j
    <3> SUFFICES ASSUME NEW i \in 0 .. n - 1, NEW j \in 0 .. n - 1, q[i].id = q[j].id PROVE i = j
      OBVIOUS
    <3>1. i + 1 = j + 1
      BY <1>6
    <3> QED BY <1>2, <3>1
  <2> QED BY <1>2, <1>4, <1>6, <2>1 DEF List
<1>8. Ids(q) = 1 .. n
  <2>1. \A i \in 0 .. n - 1 : i + 1 \in 1 .. n
    BY <1>2
  <2>2. \A k \in 1 .. n : k - 1 \in 0 .. n - 1 /\ (k - 1) + 1 = k
    BY <1>2
  <2>3. \A i \in 0 .. n - 1 : q[i].id \in 1 .. n
    BY <1>6, <2>1
  <2>4. ASSUME NEW k \in 1 .. n PROVE \E i \in 0 .. n - 1 : q[i].id = k
    <3>1. q[k - 1].id = k
      BY <1>6, <2>2
    <3> QED BY <2>2, <3>1
  <2>5. Ids(q) = {q[i].id : i \in 0 .. n - 1}
    BY <1>4 DEF Ids
  <2>6. \A k : k \in Ids(q) => k \in 1 .. n
    BY <2>3, <2>5
  <2>7. \A k \in 1 .. n : k \in Ids(q)
    BY <2>4, <2>5
  <2> QED BY <2>6, <2>7
<1>9. Listed(1 .. n, {}, deck.newId, deck.newId, n)
  <2>1. {id \in (1 .. n) \cup {} : id < deck.newId} = 1 .. n
    BY <1>1, <1>2
  <2> QED BY <1>1, <1>2, <2>1 DEF Listed
<1>10. Boxed(q, n)
  <2>1. \A i \in 0 .. n - 1 : i + 1 \in 1 .. n
    BY <1>2
  <2> QED BY <1>3, <1>6, <2>1 DEF Boxed
<1> QED BY <1>1, <1>2, <1>5, <1>6, <1>7, <1>8, <1>9, <1>10 DEF n, Loads

(* The invariant holds when the particles are loaded.                      *)
LEMMA InitHolds ==
  ASSUME Init
  PROVE  IInv
<1>1. /\ deck \in Decks /\ pc = "uncenter_p" /\ step = 0 /\ op = 1 /\ lost = [s \in Species |-> {}]
      /\ pm = [s \in Species |-> [k \in 0 .. deck.species[s].max_nm - 1 |-> -1]]
      /\ nm = [s \in Species |-> 0] /\ partition = [s \in Species |-> [v \in 0 .. n_voxel |-> 0]]
      /\ last_sorted = [s \in Species |-> -1]
      /\ call = [k |-> "uncenter_p", s |-> 1] /\ todo = 0 .. N_PIPELINE
      /\ seg = [r \in 0 .. N_PIPELINE |-> 0]
  BY DEF Init
<1>2. PICK at \in deck.at :
        p = [s \in Species |-> [i \in 0 .. Len(at[s]) - 1 |->
               [id |-> i + 1, i |-> at[s][i + 1], t |-> 0, c |-> 0]]]
  BY DEF Init
<1>3. ASSUME NEW s \in Species
      PROVE  /\ np(s) = deck.loaded[s] /\ np(s) \in Nat
             /\ np(s) <= deck.species[s].max_np /\ List(p[s], np(s))
             /\ Listed(Ids(p[s]), {}, deck.newId, deck.newId, deck.loaded[s])
             /\ Boxed(p[s], np(s)) /\ \A i \in 0 .. np(s) - 1 : p[s][i].t = 0
  <2>1. p[s] = [i \in 0 .. Len(at[s]) - 1 |-> [id |-> i + 1, i |-> at[s][i + 1], t |-> 0, c |-> 0]]
    BY <1>2
  <2>2. Loads(s, p[s])
    BY <1>1, <2>1, LoadedList
  <2>3. np(s) = deck.loaded[s]
    BY <2>2 DEF np, Loads
  <2> DEFINE n == deck.loaded[s]
             q == p[s]
  <2>4. /\ n \in Nat /\ n <= deck.species[s].max_np /\ List(q, n)
        /\ Listed(Ids(q), {}, deck.newId, deck.newId, n) /\ Boxed(q, n)
        /\ \A i \in 0 .. n - 1 : q[i].t = 0
    BY <2>2 DEF Loads
  <2> HIDE DEF n, q
  <2>5. np(s) = n
    BY <2>3 DEF n
  <2> QED BY <2>4, <2>5 DEF n, q
<1>4. Ctl
  BY <1>1, DeckIs, DecksAssumption DEF Ctl, Phases, Sorting
<1>5. Domains
  <2>1. p = [s \in Species |-> p[s]] /\ \A s \in Species : p[s] = [i \in DOMAIN p[s] |-> p[s][i]]
    BY <1>2
  <2>2. \A s \in Species : DOMAIN p[s] = 0 .. np(s) - 1
    BY <1>3 DEF List
  <2>3. \A s \in Species : deck.species[s].max_nm \in Nat
    BY <1>1, DeckIs
  <2> QED BY <1>1, <1>3, <2>1, <2>2, <2>3 DEF Domains
<1>6. \A s \in Species : L(s) = p[s]
  BY <1>1 DEF L
<1>7. Census
  <2>1. deck.newId \in Nat /\ Ever = deck.newId
    BY <1>1, DeckIs DEF Ever
  <2>2. \A s \in Species : lost[s] = {}
    BY <1>1
  <2> QED BY <1>3, <1>6, <2>1, <2>2 DEF Census
<1>8. \A s \in Species : \A i : ~ Reached(s, i)
  <2>1. Species \subseteq 1 .. Len(deck.species) /\ Len(deck.species) \in Nat
    BY <1>1, DeckIs DEF Species
  <2> QED BY <1>1, <2>1 DEF Reached
<1>9. Momenta
  <2>1. pc = "uncenter_p"
    BY <1>1, Zenon
  <2>2. pc # "advance_p" /\ pc \notin Leaving /\ pc \notin Settling
    BY <2>1 DEF Leaving, Settling
  <2> SUFFICES ASSUME NEW s \in Species, NEW i \in 0 .. np(s) - 1
               PROVE  ~ Reached(s, i) /\ L(s)[i].t = 0
    BY <2>1, <2>2, Zenon DEF Momenta
  <2>3. ~ Reached(s, i) /\ L(s) = p[s]
    BY <1>6, <1>8, Zenon
  <2> QED BY <1>3, <2>3
<1>10. Places
  BY <1>1, <1>3, <1>6 DEF Places, Leaving
<1>11. Passes /\ Brackets /\ Sums /\ Files
  BY <1>1 DEF Passes, Brackets, Sums, Files, Sorting
<1> QED BY <1>4, <1>5, <1>7, <1>9, <1>10, <1>11 DEF IInv

-----------------------------------------------------------------------------
(* Between the momenta's first step back and the next advance the lists    *)
(* stay the same but for the order and the collisions noted.               *)
Same(a, b, n) ==
  /\ List(b, n) /\ Ids(b) = Ids(a)
  /\ \A j \in 0 .. n - 1 : \E i \in 0 .. n - 1 : b[j].i = a[i].i /\ b[j].t = a[i].t

(* A list has the particles it has.                                        *)
LEMMA SameSelf ==
  ASSUME NEW a, NEW n, List(a, n)
  PROVE  Same(a, a, n)
  BY DEF Same

(* A reordered list has the same particles.                                *)
LEMMA SameReordered ==
  ASSUME NEW a, NEW b, NEW n, List(a, n), Reordered(a, b, n)
  PROVE  Same(a, b, n)
<1>1. List(b, n) /\ Ids(b) = Ids(a) /\ \A j \in 0 .. n - 1 : \E i \in 0 .. n - 1 : b[j] = a[i]
  BY ReorderedList
<1> QED BY <1>1 DEF Same

(* A step that keeps who is on each list and where keeps what holds of     *)
(* them.                                                                   *)
LEMMA SettledStep ==
  ASSUME IInv, pc \in Settling, pc' \in Settling, UNCHANGED <<deck, step, nm, lost>>,
         \A s \in Species : np(s)' = np(s) /\ Same(L(s), L(s)', np(s))
  PROVE  Census' /\ Momenta' /\ Places'
<1>1. Species' = Species /\ Box' = Box
  BY SameDeck
<1>2. Ever' = Ever /\ pc # "remove" /\ pc \notin Leaving \cup {"advance_p"}
      /\ pc' \notin Leaving \cup {"advance_p", "uncenter_p"}
  BY DEF Ever, Settling, Leaving
<1>3. ASSUME NEW s \in Species
      PROVE  /\ List(L(s)', np(s)') /\ np(s)' = np(s)
             /\ Listed(Ids(L(s)'), lost'[s], Ever', deck'.newId, deck'.loaded[s])
             /\ \A j \in 0 .. np(s) - 1 : L(s)'[j].t = 2 * step - 1 /\ L(s)'[j].i \in Box
             /\ nm'[s] = 0
  <2>1. np(s)' = np(s) /\ List(L(s)', np(s)) /\ Ids(L(s)') = Ids(L(s))
        /\ \A j \in 0 .. np(s) - 1 :
             \E i \in 0 .. np(s) - 1 : L(s)'[j].i = L(s)[i].i /\ L(s)'[j].t = L(s)[i].t
    BY DEF Same
  <2>2. Listed(Ids(L(s)), lost[s], Ever, deck.newId, deck.loaded[s])
    BY DEF IInv, Census
  <2>3. \A i \in 0 .. np(s) - 1 : L(s)[i].t = 2 * step - 1
    BY DEF IInv, Momenta
  <2>4. nm[s] = 0 /\ \A i \in 0 .. np(s) - 1 : L(s)[i].i \in Box
    BY <1>2 DEF IInv, Places, Boxed
  <2> QED BY <1>2, <2>1, <2>2, <2>3, <2>4
<1>4. Census'
  BY <1>1, <1>3 DEF Census
<1>5. Momenta'
  BY <1>1, <1>2, <1>3 DEF Momenta
<1>6. Places'
  BY <1>1, <1>2, <1>3 DEF Places, Boxed
<1> QED BY <1>4, <1>5, <1>6

-----------------------------------------------------------------------------
(* The diagnostics.                                                        *)

(* A step that leaves the lists alone.                                     *)
Still == UNCHANGED <<deck, step, p, pm, nm, lost, partition, last_sorted>>

(* It keeps every list.                                                    *)
LEMMA StillLists ==
  ASSUME IInv, p' = p, pc # "subsort", pc' # "subsort"
  PROVE  \A s \in Species : np(s)' = np(s) /\ L(s)' = L(s) /\ Same(L(s), L(s)', np(s))
<1>1. \A s \in Species : np(s)' = np(s) /\ L(s)' = L(s) /\ L(s) = p[s]
  BY DEF np, L
<1>2. \A s \in Species : List(L(s), np(s))
  BY DEF IInv, Census
<1> QED BY <1>1, <1>2, SameSelf

(* It keeps the shape of everything.                                       *)
LEMMA StillDomains ==
  ASSUME IInv, Still, seg' = [r \in 0 .. N_PIPELINE |-> seg'[r]],
         \/ pc \in {"uncenter_p", "energy_p", "hydro_p", "dump"}
         \/ pc' \notin {"uncenter_p", "energy_p", "hydro_p", "dump"}
  PROVE  Domains'
<1>1. Species' = Species /\ N_PIPELINE' = N_PIPELINE /\ n_voxel' = n_voxel
  BY SameDeck DEF Still
<1>2. \A s \in Species : np(s)' = np(s)
  BY DEF np, Still
<1>3. Domains
  BY DEF IInv
<1> QED BY <1>1, <1>2, <1>3 DEF Domains, Still

(* A rank's part of the energy or of the moments (energy_p.cc,             *)
(* hydro_p.cc).                                                            *)
LEMMA SumStep ==
  ASSUME IInv, Ctl', NEW rank \in 0 .. N_PIPELINE, energy_p(rank) \/ accumulate_hydro_p(rank)
  PROVE  IInv'
<1>1. /\ pc \in {"energy_p", "hydro_p"} /\ pc' = pc /\ rank \in todo /\ todo' = todo \ {rank}
      /\ Still /\ call' = call
      /\ seg' = [seg EXCEPT ![rank] = IF pc = "energy_p" THEN energy_p_pipeline(p[call.s], rank)
                                        ELSE accumulate_hydro_p_pipeline(p[call.s], rank)]
  BY DEF energy_p, accumulate_hydro_p, Still, sortVars
<1>2. deck \in Decks /\ todo \subseteq 0 .. N_PIPELINE
  BY DEF IInv, Ctl
<1>3. seg' = [seg EXCEPT ![rank] = Cardinality(Met(np(call.s), rank))]
  BY <1>1, <1>2, KernelsAre DEF np
<1>4. seg = [r \in 0 .. N_PIPELINE |-> seg[r]]
  BY DEF IInv, Domains
<1>5. seg' = [r \in 0 .. N_PIPELINE |-> seg'[r]]
  BY <1>3, <1>4
<1>6. Domains'
  BY <1>1, <1>5, StillDomains
<1>7. \A s \in Species : np(s)' = np(s) /\ L(s)' = L(s) /\ Same(L(s), L(s)', np(s))
  BY <1>1, StillLists DEF Still
<1>8. Census' /\ Momenta' /\ Places'
  BY <1>1, <1>7, SettledStep DEF Still, Settling
<1>9. Sums'
  <2>1. Sums /\ call.s \in Species
    BY DEF IInv, Ctl
  <2>2. N_PIPELINE' = N_PIPELINE /\ (\A n, r : Met(n, r)' = Met(n, r)) /\ call'.s = call.s
    BY <1>1, SameDeck, SameKernels DEF Still
  <2>3. np(call.s)' = np(call.s)
    BY <1>1, <1>7, <2>1
  <2>4. np(call.s)' = Cardinality(DOMAIN p[call.s])
    BY <1>1 DEF np, Still
  <2>5. \A r \in (0 .. N_PIPELINE) \ todo' : seg'[r] = Cardinality(Met(np(call.s), r))
    BY <1>1, <1>3, <1>4, <2>1 DEF Sums
  <2> QED BY <1>1, <2>2, <2>3, <2>5 DEF Sums, np
<1>10. Passes' /\ Brackets' /\ Files'
  BY <1>1 DEF Passes, Brackets, Files, Sorting
<1> QED BY <1>6, <1>8, <1>9, <1>10 DEF IInv

(* From a kernel's last rank to the next species, or on.                   *)
LEMMA SummedStep ==
  ASSUME IInv, Ctl', Summed
  PROVE  IInv'
<1>1. /\ pc \in {"energy_p", "hydro_p"} /\ pc' \in {"energy_p", "hydro_p", "dump"} /\ Still
      /\ pc' # "dump" => todo' = 0 .. N_PIPELINE
      /\ seg' = seg
  BY DEF Summed, Next_species, Still, sortVars
<1>2. Domains'
  <2>1. seg = [r \in 0 .. N_PIPELINE |-> seg[r]]
    BY DEF IInv, Domains
  <2> QED BY <1>1, <2>1, StillDomains
<1>3. Census' /\ Momenta' /\ Places'
  <2>1. \A s \in Species : np(s)' = np(s) /\ L(s)' = L(s) /\ Same(L(s), L(s)', np(s))
    BY <1>1, StillLists DEF Still
  <2> QED BY <1>1, <2>1, SettledStep DEF Still, Settling
<1>4. Sums'
  <2>1. N_PIPELINE' = N_PIPELINE
    BY <1>1, SameDeck DEF Still
  <2> QED BY <1>1, <2>1 DEF Sums
<1>5. Passes' /\ Brackets' /\ Files'
  BY <1>1 DEF Passes, Brackets, Files, Sorting
<1> QED BY <1>2, <1>3, <1>4, <1>5 DEF IInv

(* The dump of all species (vpic/dump.cc).                                 *)
LEMMA DumpStep ==
  ASSUME IInv, Ctl', Dump
  PROVE  IInv'
<1>1. /\ pc = "dump" /\ pc' = "begin" /\ Still /\ seg' = seg
      /\ file' = [s \in Species |-> dump_particles(s)]
  BY DEF Dump, Still, sortVars
<1>2. deck \in Decks /\ step \in Int
  BY DEF IInv, Ctl
<1>3. Domains'
  <2>1. seg = [r \in 0 .. N_PIPELINE |-> seg[r]]
    BY DEF IInv, Domains
  <2> QED BY <1>1, <2>1, StillDomains
<1>4. \A s \in Species : np(s)' = np(s) /\ L(s)' = L(s) /\ Same(L(s), L(s)', np(s))
  BY <1>1, StillLists DEF Still
<1>5. Census' /\ Momenta' /\ Places'
  BY <1>1, <1>4, SettledStep DEF Still, Settling
<1>6. Files'
  <2>1. ASSUME NEW s \in Species
        PROVE  FileOf(dump_particles(s), np(s), Ids(p[s]), (2 * step - 1) + 1)
    <3>1. List(p[s], np(s)) /\ \A i \in 0 .. np(s) - 1 : p[s][i].t = 2 * step - 1
      BY <1>1 DEF IInv, Census, Momenta, L, Settling
    <3>2. 2 * step - 1 \in Int
      BY <1>2
    <3> QED BY <1>2, <3>1, <3>2, DumpedIs
  <2>2. Species' = Species /\ (2 * step - 1) + 1 = 2 * step /\ step' = step
    BY <1>1, <1>2, SameDeck DEF Still
  <2>3. \A s \in Species : L(s)' = p[s]
    BY <1>1, <1>4 DEF L
  <2>4. \A s \in Species : file'[s] = dump_particles(s)
    BY <1>1
  <2>5. \A s \in Species : FileOf(file'[s], np(s)', Ids(L(s)'), 2 * step')
    BY <1>4, <2>1, <2>2, <2>3, <2>4
  <2> QED BY <2>2, <2>5 DEF Files, FileOf, Ids
<1>7. Brackets'
  <2>1. \A s \in Species : last_sorted'[s] # step'
    BY <1>1 DEF IInv, Domains, Still
  <2>2. Species' = Species
    BY <1>1, SameDeck DEF Still
  <2> QED BY <2>1, <2>2 DEF Brackets
<1>8. Passes' /\ Sums'
  BY <1>1 DEF Passes, Sums
<1> QED BY <1>3, <1>5, <1>6, <1>7, <1>8 DEF IInv

-----------------------------------------------------------------------------
(* Lists of as many particles as before.                                   *)
Lists0 ==
  /\ p' = [s \in Species |-> p'[s]]
  /\ \A s \in Species : /\ np(s)' = np(s) /\ Plain(p'[s])
                        /\ DOMAIN p'[s] = 0 .. np(s) - 1
Parts0 ==
  /\ partition' = [s \in Species |-> partition'[s]]
  /\ last_sorted' = [s \in Species |-> last_sorted'[s]]
  /\ \A s \in Species :
       /\ DOMAIN partition'[s] = 0 .. n_voxel /\ \A v \in 0 .. n_voxel : partition'[s][v] \in Int
       /\ last_sorted'[s] \in Int /\ last_sorted'[s] <= step

(* One list replaced by another one of its length.                         *)
LEMMA OneList ==
  ASSUME Domains, NEW s \in Species, NEW b, p' = [p EXCEPT ![s] = b], DOMAIN b = 0 .. np(s) - 1,
         Plain(b)
  PROVE  Lists0 /\ p'[s] = b /\ \A t \in Species : t # s => p'[t] = p[t]
<1>1. p = [t \in Species |-> p[t]]
  BY DEF Domains
<1>2. p' = [t \in Species |-> p'[t]] /\ p'[s] = b /\ \A t \in Species : t # s => p'[t] = p[t]
  BY <1>1
<1>3. ASSUME NEW t \in Species
      PROVE  np(t)' = np(t) /\ Plain(p'[t]) /\ DOMAIN p'[t] = 0 .. np(t) - 1
  <2>1. DOMAIN p[t] = 0 .. np(t) - 1 /\ Plain(p[t])
    BY DEF Domains, Plain
  <2>2. CASE t = s
    <3>1. DOMAIN p'[t] = DOMAIN p[t] /\ Plain(p'[t])
      BY <1>2, <2>1, <2>2
    <3> QED BY <2>1, <3>1 DEF np
  <2>3. CASE t # s
    BY <1>2, <2>1, <2>3 DEF np
  <2> QED BY <2>2, <2>3
<1> QED BY <1>2, <1>3 DEF Lists0

(* No list replaced.                                                       *)
LEMMA KeptLists ==
  ASSUME Domains, p' = p
  PROVE  Lists0
  BY DEF Domains, Lists0, Plain, np

(* No partition replaced.                                                  *)
LEMMA KeptParts ==
  ASSUME Domains, UNCHANGED <<partition, last_sorted>>
  PROVE  Parts0
  BY DEF Domains, Parts0

(* With lists and partitions of their shapes, all of it is.                *)
LEMMA KeptDomains ==
  ASSUME Domains, UNCHANGED <<deck, step, nm, lost>>, pm' = [s \in Species |-> pm'[s]],
         Lists0, Parts0, seg' = [r \in 0 .. N_PIPELINE |-> seg'[r]],
         \/ pc \in {"uncenter_p", "energy_p", "hydro_p", "dump"} /\ last_sorted' = last_sorted
         \/ pc' \notin {"uncenter_p", "energy_p", "hydro_p", "dump"}
  PROVE  Domains'
<1>1. Species' = Species /\ N_PIPELINE' = N_PIPELINE /\ n_voxel' = n_voxel
  BY SameDeck
<1>2. nm' = [s \in Species |-> nm'[s]] /\ lost' = [s \in Species |-> lost'[s]]
  BY DEF Domains
<1>3. ASSUME NEW s \in Species
      PROVE  /\ DOMAIN p'[s] = 0 .. np(s)' - 1 /\ p'[s] = [i \in DOMAIN p'[s] |-> p'[s][i]]
             /\ np(s)' \in Nat /\ np(s)' <= deck'.species[s].max_np
             /\ nm'[s] \in 0 .. deck'.species[s].max_nm
             /\ last_sorted'[s] \in Int /\ last_sorted'[s] <= step'
             /\ pc' \in {"uncenter_p", "energy_p", "hydro_p", "dump"} => last_sorted'[s] < step'
  BY DEF Domains, Lists0, Parts0, Plain
<1>4. \A s \in Species :
        DOMAIN partition'[s] = 0 .. n_voxel' /\ \A v \in 0 .. n_voxel' : partition'[s][v] \in Int
  BY <1>1 DEF Parts0
<1> QED BY <1>1, <1>2, <1>3, <1>4 DEF Domains, Lists0, Parts0

-----------------------------------------------------------------------------
(* The momenta put half a step back.                                       *)

(* A rank more has come by.                                                *)
LEMMA ReachedMore ==
  ASSUME deck' = deck, call' = call, NEW rank \in todo, todo \subseteq 0 .. N_PIPELINE,
         todo' = todo \ {rank}, NEW s, NEW i, np(s)' = np(s)
  PROVE  Reached(s, i)' <=> Reached(s, i) \/ (s = call.s /\ i \in Met(np(s), rank))
<1>1. N_PIPELINE' = N_PIPELINE /\ \A n, r : Met(n, r)' = Met(n, r)
  BY SameDeck, SameKernels
<1>2. (0 .. N_PIPELINE) \ todo' = ((0 .. N_PIPELINE) \ todo) \cup {rank}
  OBVIOUS
<1>3. \A r : Met(np(s), r)' = Met(np(s), r)
  BY <1>1
<1>4. Reached(s, i)'
        <=> s < call.s \/ (s = call.s /\ \E r \in (0 .. N_PIPELINE) \ todo' : i \in Met(np(s), r)')
  BY <1>1 DEF Reached
<1> QED BY <1>2, <1>3, <1>4 DEF Reached

(* Whom a rank yet to run meets nobody else has.                           *)
LEMMA NotReached ==
  ASSUME deck \in Decks, NEW rank \in todo, todo \subseteq 0 .. N_PIPELINE, np(call.s) \in Nat,
         call.s \in Species, NEW i \in Met(np(call.s), rank)
  PROVE  ~ Reached(call.s, i)
<1>1. call.s \in Nat
  BY DeckIs
<1>2. ASSUME NEW r \in (0 .. N_PIPELINE) \ todo
      PROVE  i \notin Met(np(call.s), r)
  BY MetOnce
<1> QED BY <1>1, <1>2 DEF Reached

(* A rank's part of the half step back (uncenter_p.cc).                    *)
LEMMA UncenterStep ==
  ASSUME IInv, Ctl', NEW rank \in 0 .. N_PIPELINE, uncenter_p(rank)
  PROVE  IInv'
<1>1. /\ pc = "uncenter_p" /\ pc' = pc /\ rank \in todo /\ todo' = todo \ {rank}
      /\ UNCHANGED <<deck, step, pm, nm, lost, partition, last_sorted, seg, call>>
      /\ p' = [p EXCEPT ![call.s] = uncenter_p_pipeline(p[call.s], rank)]
  BY DEF uncenter_p, sortVars
<1>2. deck \in Decks /\ todo \subseteq 0 .. N_PIPELINE /\ call.s \in Species /\ Domains
  BY DEF IInv, Ctl
<1> DEFINE s == call.s
           n == np(s)
           S == Met(n, rank)
           b == Kick(p[s], S, -1)
<1>3. p' = [p EXCEPT ![s] = b]
  BY <1>1, <1>2, KernelsAre DEF np
<1>4. List(p[s], n)
  BY <1>1, <1>2 DEF IInv, Census, L
<1>5. Kicked(p[s], n, S, -1, b)
  BY <1>4, KickIs DEF List
<1>6. Alter(p[s], b, n) /\ \A i \in 0 .. n - 1 : b[i].t = IF i \in S THEN p[s][i].t + -1 ELSE p[s][i].t
  BY <1>4, <1>5, KickedList
<1>7. Plain(b) /\ DOMAIN b = 0 .. n - 1
  BY <1>5 DEF Kick, Plain, Kicked
<1>8. Ids(b) = Ids(p[s])
  BY <1>4, <1>6, AlterIds
<1> HIDE DEF b
<1>9. Lists0 /\ p'[s] = b /\ \A t \in Species : t # s => p'[t] = p[t]
  BY <1>2, <1>3, <1>7, OneList
<1>10. Species' = Species /\ Box' = Box /\ Ever' = Ever
  BY <1>1, SameDeck DEF Ever
<1>11. \A t \in Species : L(t) = p[t] /\ L(t)' = p'[t] /\ np(t)' = np(t)
  BY <1>1, <1>9 DEF L, Lists0
<1>12. Domains'
  BY <1>1, <1>2, <1>9, KeptParts, KeptDomains DEF Domains
<1>13. Census'
  <2>1. ASSUME NEW t \in Species
        PROVE  List(p'[t], np(t)) /\ Listed(Ids(p'[t]), lost[t], Ever, deck.newId, deck.loaded[t])
    <3>1. List(p[t], np(t)) /\ Listed(Ids(p[t]), lost[t], Ever, deck.newId, deck.loaded[t])
      BY <1>11 DEF IInv, Census
    <3>2. CASE t = s
      BY <1>6, <1>8, <1>9, <3>1, <3>2 DEF Alter
    <3> QED BY <1>9, <3>1, <3>2
  <2> QED BY <1>1, <1>10, <1>11, <2>1 DEF Census
<1>14. Momenta'
  <2>1. ASSUME NEW t \in Species, NEW i \in 0 .. np(t) - 1
        PROVE  p'[t][i].t = IF Reached(t, i)' THEN -1 ELSE 0
    <3>1. p[t][i].t = IF Reached(t, i) THEN -1 ELSE 0
      BY <1>1, <1>11 DEF IInv, Momenta
    <3>2. Reached(t, i)' <=> Reached(t, i) \/ (t = call.s /\ i \in Met(np(t), rank))
      BY <1>1, <1>2, <1>11, ReachedMore
    <3>3. CASE t = s /\ i \in S
      <4>1. ~ Reached(t, i)
        BY <1>1, <1>2, <1>4, <3>3, NotReached DEF List
      <4>2. p[t][i].t = 0
        BY <3>1, <4>1
      <4>3. p'[t][i].t = 0 + -1
        BY <1>6, <1>9, <3>3, <4>2
      <4> QED BY <3>2, <3>3, <4>3
    <3>4. CASE ~ (t = s /\ i \in S)
      <4>1. p'[t][i].t = p[t][i].t
        BY <1>6, <1>9, <3>4
      <4> QED BY <3>1, <3>2, <3>4, <4>1
    <3> QED BY <3>3, <3>4
  <2> QED BY <1>1, <1>10, <1>11, <2>1 DEF Momenta, Leaving, Settling
<1>15. Places'
  <2>1. ASSUME NEW t \in Species
        PROVE  nm'[t] = 0 /\ \A i \in 0 .. np(t) - 1 : p'[t][i].i \in Box
    <3>1. nm[t] = 0 /\ \A i \in 0 .. np(t) - 1 : p[t][i].i \in Box
      BY <1>1, <1>11 DEF IInv, Places, Boxed, Leaving
    <3>2. CASE t = s
      BY <1>1, <1>6, <1>9, <3>1, <3>2 DEF Alter
    <3> QED BY <1>1, <1>9, <3>1, <3>2
  <2> QED BY <1>1, <1>10, <1>11, <2>1 DEF Places, Boxed, Leaving
<1>16. Passes' /\ Brackets' /\ Sums' /\ Files'
  BY <1>1 DEF Passes, Brackets, Sums, Files, Sorting
<1> QED BY <1>12, <1>13, <1>14, <1>15, <1>16 DEF IInv

(* With every rank through, a kernel has reached all of its species.       *)
LEMMA ReachedAll ==
  ASSUME deck \in Decks, todo = {}, call.s \in Species, NEW s \in Species, np(s) \in Nat,
         NEW i \in 0 .. np(s) - 1
  PROVE  Reached(s, i) <=> s <= call.s
<1>1. s \in Nat /\ call.s \in Nat
  BY DeckIs
<1>2. \E r \in (0 .. N_PIPELINE) \ todo : i \in Met(np(s), r)
  BY MetIs
<1> QED BY <1>1, <1>2 DEF Reached

(* Before any rank has run it has come by the species before.              *)
LEMMA ReachedNext ==
  ASSUME todo = 0 .. N_PIPELINE, NEW s, NEW i
  PROVE  Reached(s, i) <=> s < call.s
  BY DEF Reached

(* The half step back of the next species, or the first diagnostics.       *)
LEMMA UncenteredStep ==
  ASSUME IInv, Ctl', Uncentered
  PROVE  IInv'
<1>1. /\ pc = "uncenter_p" /\ todo = {} /\ Still /\ seg' = seg
      /\ Next_species("uncenter_p", "energy_p")
  BY DEF Uncentered, Still, sortVars
<1>2. deck \in Decks /\ call.s \in Species /\ step = 0 /\ call = [k |-> call.k, s |-> call.s]
  BY <1>1 DEF IInv, Ctl
<1>3. /\ pc' = "uncenter_p" \/ pc' = "energy_p"
      /\ todo' = 0 .. N_PIPELINE
      /\ pc' = "uncenter_p" => call'.s = call.s + 1
      /\ pc' = "energy_p" => ~ (call.s < Len(deck.species))
  <2>1. call.s < Len(deck.species) => call'.s = call.s + 1
    BY <1>1, <1>2 DEF Next_species
  <2> QED BY <1>1, <2>1 DEF Next_species
<1>4. Domains'
  <2>1. seg = [r \in 0 .. N_PIPELINE |-> seg[r]]
    BY DEF IInv, Domains
  <2> QED BY <1>1, <2>1, StillDomains
<1>5. \A s \in Species : np(s)' = np(s) /\ L(s)' = L(s)
  BY <1>1, <1>3, StillLists DEF Still
<1>6. Species' = Species /\ Box' = Box /\ Ever' = Ever /\ N_PIPELINE' = N_PIPELINE /\ step' = 0
  BY <1>1, <1>2, <1>3, SameDeck DEF Ever, Still
<1>7. Census'
  BY <1>1, <1>5, <1>6 DEF IInv, Census, Ids, Still
<1>8. Momenta'
  <2>1. ASSUME NEW s \in Species, NEW i \in 0 .. np(s) - 1
        PROVE  L(s)[i].t = IF s <= call.s THEN -1 ELSE 0
    <3>1. np(s) \in Nat
      BY DEF IInv, Domains
    <3> QED BY <1>1, <1>2, <3>1, ReachedAll DEF IInv, Momenta
  <2>2. Species \subseteq 1 .. Len(deck.species) /\ Len(deck.species) \in Nat
    BY <1>2, DeckIs DEF Species
  <2>3. pc' = "uncenter_p" =>
          \A s \in Species : \A i \in 0 .. np(s) - 1 : L(s)[i].t = IF Reached(s, i)' THEN -1 ELSE 0
    <3>1. \A s, i : Reached(s, i)' <=> s < call'.s
      BY <1>3, <1>6, ReachedNext DEF Reached
    <3>2. \A s \in Species : s <= call.s <=> s < call.s + 1
      BY <1>2, <2>2
    <3> QED BY <1>3, <2>1, <3>1, <3>2
  <2>4. pc' = "energy_p" => \A s \in Species : \A i \in 0 .. np(s) - 1 : L(s)[i].t = 2 * step' - 1
    <3>1. pc' = "energy_p" => \A s \in Species : s <= call.s
      BY <1>2, <1>3, <2>2
    <3> QED BY <1>6, <2>1, <3>1
  <2> QED BY <1>3, <1>5, <1>6, <2>3, <2>4 DEF Momenta, Leaving, Settling
<1>9. Places'
  <2>1. \A s \in Species : nm[s] = 0 /\ Boxed(L(s), np(s))
    BY <1>1 DEF IInv, Places, Leaving
  <2> QED BY <1>1, <1>3, <1>5, <1>6, <2>1 DEF Places, Leaving, Boxed, Still
<1>10. Sums'
  BY <1>3, <1>6 DEF Sums
<1>11. Passes' /\ Brackets' /\ Files'
  BY <1>3 DEF Passes, Brackets, Files, Sorting
<1> QED BY <1>4, <1>7, <1>8, <1>9, <1>10, <1>11 DEF IInv

-----------------------------------------------------------------------------
(* The threaded sort's first two passes.                                   *)

(* Outside the advance the particles of a species are in the box.          *)
LEMMA SettledIs ==
  ASSUME IInv, pc \notin Leaving \cup {"advance_p"}, NEW s \in Species
  PROVE  Settled(L(s), np(s)) /\ List(L(s), np(s)) /\ np(s) \in Nat
<1>1. List(L(s), np(s)) /\ Boxed(L(s), np(s)) /\ deck \in Decks
  BY DEF IInv, Census, Places, Ctl
<1> QED BY <1>1, BoxIs DEF List, Boxed, Settled

(* What holds of the other species while one is being sorted.              *)
LEMMA SortingStill ==
  ASSUME IInv, Still, pc \in {"coarse_count", "coarse_sort"}, pc' \in {"coarse_count", "coarse_sort"},
         UNCHANGED <<seg, call, file>>
  PROVE  Domains' /\ Census' /\ Momenta' /\ Places' /\ Brackets' /\ Sums' /\ Files'
<1>1. Domains'
  <2>1. seg = [r \in 0 .. N_PIPELINE |-> seg[r]]
    BY DEF IInv, Domains
  <2> QED BY <2>1, StillDomains
<1>2. \A s \in Species : np(s)' = np(s) /\ L(s)' = L(s) /\ Same(L(s), L(s)', np(s))
  BY StillLists DEF Still
<1>3. Census' /\ Momenta' /\ Places'
  BY <1>2, SettledStep DEF Still, Settling
<1>4. Brackets'
  <2>1. Species' = Species /\ \A q, part : Bracketed(q, part)' <=> Bracketed(q, part)
    BY SameDeck, SameSort DEF Still
  <2> QED BY <1>2, <2>1 DEF IInv, Brackets, Sorting, Still
<1>5. Sums'
  BY DEF Sums
<1>6. Files'
  <2>1. Species' = Species
    BY SameDeck DEF Still
  <2>2. call.k = "begin" => \A s \in Species : FileOf(file[s], np(s), Ids(L(s)), 2 * step)
    BY DEF IInv, Files, Sorting
  <2>3. call.k = "begin" => \A s \in Species : FileOf(file'[s], np(s)', Ids(L(s)'), 2 * step')
    BY <1>2, <2>2 DEF Still
  <2> QED BY <2>1, <2>3 DEF Files, Sorting
<1> QED BY <1>1, <1>3, <1>4, <1>5, <1>6

(* A rank counts its particles by subsort (sort_p_pipeline.cc).            *)
LEMMA CoarseCountStep ==
  ASSUME IInv, Ctl', NEW rank \in 0 .. N_PIPELINE, coarse_count(rank)
  PROVE  IInv'
<1>1. /\ pc = "coarse_count" /\ pc' = pc /\ rank \in todo /\ todo' = todo \ {rank} /\ Still
      /\ UNCHANGED <<seg, call, file, aux>>
      /\ coarse_partition' = coarse_count_pipeline_scalar(call.s, rank)
  BY DEF coarse_count, Still
<1> DEFINE s == call.s
<1>2. deck \in Decks /\ s \in Species /\ todo \subseteq Pipelines
  BY <1>1 DEF IInv, Ctl
<1>3. Settled(p[s], np(s))
  BY <1>1, <1>2, SettledIs DEF L, Leaving
<1>4. /\ DOMAIN aux = 0 .. np(s) - 1 /\ DOMAIN coarse_partition = 0 .. cp_stride * N_PIPELINE
      /\ CountedBy(p[s], np(s), coarse_partition, Pipelines \ todo)
  BY <1>1 DEF IInv, Passes
<1>5. /\ DOMAIN coarse_partition' = 0 .. cp_stride * N_PIPELINE
      /\ \A k, r \in Pipelines :
           coarse_partition'[CpAt(k, r)] = IF r = rank THEN Tally(p[s], np(s), k, r)
                                                       ELSE coarse_partition[CpAt(k, r)]
  BY <1>1, <1>2, <1>3, <1>4, CoarseCountIs
<1>6. CountedBy(p[s], np(s), coarse_partition', Pipelines \ todo')
  BY <1>1, <1>4, <1>5 DEF CountedBy
<1>7. Passes'
  <2>1. np(s)' = np(s)
    BY <1>1 DEF np, Still
  <2>2. /\ \A q, n, cp, ranks : CountedBy(q, n, cp, ranks)' <=> CountedBy(q, n, cp, ranks)
        /\ cp_stride' = cp_stride /\ N_PIPELINE' = N_PIPELINE /\ Pipelines' = Pipelines
    BY <1>1, SameDeck, SameSort DEF Still
  <2> QED BY <1>1, <1>4, <1>5, <1>6, <2>1, <2>2 DEF Passes, Still
<1>8. Domains' /\ Census' /\ Momenta' /\ Places' /\ Brackets' /\ Sums' /\ Files'
  BY <1>1, SortingStill
<1> QED BY <1>7, <1>8 DEF IInv

(* The host turns the counts into places (sort_p_pipeline.cc).             *)
LEMMA CountedStep ==
  ASSUME IInv, Ctl', Counted
  PROVE  IInv'
<1>1. /\ pc = "coarse_count" /\ pc' = "coarse_sort" /\ todo = {} /\ todo' = Pipelines /\ Still
      /\ UNCHANGED <<seg, call, file, aux>> /\ coarse_partition' = CoarsePartition
  BY DEF Counted, Still
<1> DEFINE s == call.s
<1>2. deck \in Decks /\ s \in Species
  BY <1>1 DEF IInv, Ctl
<1>3. Settled(p[s], np(s))
  BY <1>1, <1>2, SettledIs DEF L, Leaving
<1>4. /\ DOMAIN aux = 0 .. np(s) - 1 /\ DOMAIN coarse_partition = 0 .. cp_stride * N_PIPELINE
      /\ CountedBy(p[s], np(s), coarse_partition, Pipelines)
  BY <1>1 DEF IInv, Passes
<1>5. /\ DOMAIN coarse_partition' = 0 .. cp_stride * N_PIPELINE
      /\ StartsAre(p[s], np(s), coarse_partition')
  BY <1>1, <1>2, <1>3, <1>4, CoarsePartitionIs DEF CountedBy, StartsAre
<1>6. Passes'
  <2>1. np(s)' = np(s)
    BY <1>1 DEF np, Still
  <2>2. /\ \A q, n, cp : StartsAre(q, n, cp)' <=> StartsAre(q, n, cp)
        /\ cp_stride' = cp_stride /\ N_PIPELINE' = N_PIPELINE /\ Pipelines' = Pipelines
    BY <1>1, SameDeck, SameSort DEF Still
  <2>3. CopiedBy(p[s], np(s), aux, {})' 
    BY DEF CopiedBy
  <2>4. Pipelines' \ todo' = {}
    BY <1>1, <2>2
  <2> QED BY <1>1, <1>4, <1>5, <2>1, <2>2, <2>3, <2>4 DEF Passes, Still
<1>7. Domains' /\ Census' /\ Momenta' /\ Places' /\ Brackets' /\ Sums' /\ Files'
  BY <1>1, SortingStill
<1> QED BY <1>6, <1>7 DEF IInv

(* A rank copies its particles to their subsorts in aux                    *)
(* (sort_p_pipeline.cc).                                                   *)
LEMMA CoarseSortStep ==
  ASSUME IInv, Ctl', NEW rank \in 0 .. N_PIPELINE, coarse_sort(rank)
  PROVE  IInv'
<1>1. /\ pc = "coarse_sort" /\ pc' = pc /\ rank \in todo /\ todo' = todo \ {rank} /\ Still
      /\ UNCHANGED <<seg, call, file, coarse_partition>>
      /\ aux' = coarse_sort_pipeline_scalar(call.s, rank)
  BY DEF coarse_sort, Still
<1> DEFINE s == call.s
           key == QKey(p[s])
           n == np(s)
<1>2. deck \in Decks /\ s \in Species /\ todo \subseteq Pipelines
  BY <1>1 DEF IInv, Ctl
<1>3. Settled(p[s], n) /\ n \in Nat
  BY <1>1, <1>2, SettledIs DEF L, Leaving
<1>4. /\ DOMAIN aux = 0 .. n - 1 /\ DOMAIN coarse_partition = 0 .. cp_stride * N_PIPELINE
      /\ StartsAre(p[s], n, coarse_partition)
      /\ CopiedBy(p[s], n, aux, Pipelines \ todo)
  BY <1>1 DEF IInv, Passes
<1>5. /\ DOMAIN aux' = 0 .. n - 1
      /\ \A i \in Of(n, rank) : aux'[Place(key, i)] = p[s][i]
      /\ \A j \in 0 .. n - 1 : (\A i \in Of(n, rank) : Place(key, i) # j) => aux'[j] = aux[j]
  <2>1. \A k, r \in Pipelines : coarse_partition[CpAt(k, r)] = Start(p[s], n, k, r)
    BY <1>4 DEF StartsAre
  <2> QED BY <1>1, <1>2, <1>3, <1>4, <2>1, CoarseSortIs
<1>6. CopiedBy(p[s], n, aux', Pipelines \ todo')
  <2> SUFFICES ASSUME NEW r \in Pipelines \ todo', NEW i \in Of(n, r)
               PROVE  aux'[Place(key, i)] = p[s][i]
    BY DEF CopiedBy
  <2>1. CASE r = rank
    BY <1>5, <2>1
  <2>2. CASE r # rank
    <3>1. aux[Place(key, i)] = p[s][i]
      BY <1>1, <1>4, <2>2 DEF CopiedBy
    <3>2. key \in Keys(n) /\ i \in 0 .. n - 1 /\ Of(n, rank) \subseteq 0 .. n - 1
      BY <1>1, <1>2, <1>3, KeysAre, OfIs
    <3>3. Place(key, i) \in 0 .. n - 1
      BY <1>3, <3>2, PlaceIs
    <3>4. ASSUME NEW h \in Of(n, rank) PROVE Place(key, h) # Place(key, i)
      <4>1. h # i
        <5>1. r \in Nat /\ rank \in Nat /\ r \in Pipelines /\ rank \in Pipelines
          BY <1>1, <1>2, DeckIs DEF Pipelines
        <5>2. r < rank => i < h
          BY <1>2, <1>3, <5>1, OfIs
        <5>3. rank < r => h < i
          BY <1>2, <1>3, <5>1, OfIs
        <5>4. h \in Int /\ i \in Int
          BY <3>2
        <5> QED BY <2>2, <5>1, <5>2, <5>3, <5>4
      <4> QED BY <1>3, <3>2, <4>1, PlaceIs
    <3> QED BY <1>5, <3>1, <3>3, <3>4
  <2> QED BY <2>1, <2>2
<1>7. Passes'
  <2>1. np(s)' = np(s)
    BY <1>1 DEF np, Still
  <2>2. /\ \A q, m, cp : StartsAre(q, m, cp)' <=> StartsAre(q, m, cp)
        /\ \A q, m, a, ranks : CopiedBy(q, m, a, ranks)' <=> CopiedBy(q, m, a, ranks)
        /\ cp_stride' = cp_stride /\ N_PIPELINE' = N_PIPELINE /\ Pipelines' = Pipelines
    BY <1>1, SameDeck, SameSort DEF Still
  <2> QED BY <1>1, <1>4, <1>5, <1>6, <2>1, <2>2 DEF Passes, Still
<1>8. Domains' /\ Census' /\ Momenta' /\ Places' /\ Brackets' /\ Sums' /\ Files'
  BY <1>1, SortingStill
<1> QED BY <1>7, <1>8 DEF IInv

-----------------------------------------------------------------------------
(* The threaded sort's last pass.                                          *)

(* With every particle at the place of its key, keys ascend and are counted*)
(* by where they are.                                                      *)
Placed(key, n, src, q) ==
  n \in Nat /\ key \in Keys(n) /\ DOMAIN q = 0 .. n - 1
  /\ \A i \in 0 .. n - 1 : q[Place(key, i)] = src[i]
(* A list with every particle at its place is a reordering.                *)
LEMMA PlacedReorders ==
  ASSUME NEW n, NEW key, NEW src, NEW q, Placed(key, n, src, q)
  PROVE  Reordered(src, q, n)
<1>1. n \in Nat /\ key \in Keys(n) /\ DOMAIN q = 0 .. n - 1 /\ \A i \in 0 .. n - 1 : q[Place(key, i)] = src[i]
  BY DEF Placed
<1> DEFINE f == [i \in 0 .. n - 1 |-> Place(key, i)]
<1>2. /\ \A i \in 0 .. n - 1 : Place(key, i) \in 0 .. n - 1
      /\ \A i, j \in 0 .. n - 1 : Place(key, i) = Place(key, j) => i = j
      /\ \A k \in 0 .. n - 1 : \E i \in 0 .. n - 1 : Place(key, i) = k
  BY <1>1, PlaceIs
<1>3. \A i \in 0 .. n - 1 : f[i] = Place(key, i)
  OBVIOUS
<1>4. f \in [0 .. n - 1 -> 0 .. n - 1]
  BY <1>2
<1>6. \A i \in 0 .. n - 1 : q[f[i]] = src[i]
  BY <1>1, <1>3
<1>7. /\ \A i, j \in 0 .. n - 1 : f[i] = f[j] => i = j
      /\ \A k \in 0 .. n - 1 : \E i \in 0 .. n - 1 : f[i] = k
  BY <1>2, <1>3
<1> HIDE DEF f
<1>5. Reorders(src, q, n, f)
  BY <1>1, <1>4, <1>6, <1>7 DEF Reorders
<1> QED BY <1>5 DEF Reordered

(* Its keys ascend, and as many are below any number as before.            *)
LEMMA PlacedKeys ==
  ASSUME NEW n \in Nat, NEW key \in Keys(n), NEW new \in Keys(n),
         \A i \in 0 .. n - 1 : new[Place(key, i)] = key[i], NEW v \in Int
  PROVE  /\ Less(new, v) = Less(key, v)
         /\ \A j \in 0 .. n - 1 : new[j] = v <=> j \in Less(key, v) .. Less(key, v + 1) - 1
<1>1. ASSUME NEW j \in 0 .. n - 1
      PROVE  /\ new[j] < v <=> j < Less(key, v)
             /\ new[j] = v <=> j \in Less(key, v) .. Less(key, v + 1) - 1
  <2>1. PICK i \in 0 .. n - 1 : Place(key, i) = j
    BY PlaceIs
  <2>2. new[j] = key[i] /\ key[i] \in Int
    BY <2>1 DEF Keys
  <2> DEFINE w == key[i]
  <2>3. w \in Int /\ w + 1 \in Int /\ v + 1 \in Int
    BY <2>2
  <2>4. w = v <=> Place(key, i) \in Less(key, v) .. Less(key, v + 1) - 1
    BY PlaceBracket
  <2>5. Place(key, i) \in Less(key, w) .. Less(key, w + 1) - 1
    BY <2>3, PlaceBracket
  <2> HIDE DEF w
  <2>6. Less(key, v) \in Int /\ Less(key, w) \in Int /\ Less(key, w + 1) \in Int
    BY <2>3, LessOrder
  <2>7. w < v => Less(key, w + 1) <= Less(key, v)
    <3> HAVE w < v
    <3>1. w + 1 <= v
      BY <2>3
    <3> QED BY <2>3, <3>1, LessOrder
  <2>8. v <= w => Less(key, v) <= Less(key, w)
    BY <2>3, LessOrder
  <2>9. w < v \/ v <= w
    BY <2>3
  <2>10. w < v <=> j < Less(key, v)
    <3>1. CASE w < v
      BY <2>1, <2>5, <2>6, <2>7, <3>1
    <3>2. CASE v <= w
      BY <2>1, <2>3, <2>5, <2>6, <2>8, <3>2
    <3> QED BY <2>9, <3>1, <3>2
  <2>11. new[j] = w
    BY <2>2 DEF w
  <2> QED BY <2>1, <2>4, <2>10, <2>11
<1>2. Less(key, v) \in 0 .. n
  BY LessOrder
<1>3. {j \in DOMAIN new : new[j] < v} = 0 .. Less(key, v) - 1
  <2>1. DOMAIN new = 0 .. n - 1
    BY DEF Keys
  <2>2. \A j \in 0 .. Less(key, v) - 1 : j \in 0 .. n - 1 /\ j < Less(key, v)
    BY <1>2
  <2>3. \A j \in 0 .. n - 1 : j < Less(key, v) => j \in 0 .. Less(key, v) - 1
    BY <1>2
  <2>4. \A j : j \in {h \in DOMAIN new : new[h] < v} <=> j \in 0 .. Less(key, v) - 1
    BY <1>1, <2>1, <2>2, <2>3
  <2> QED BY <2>4
<1>4. Cardinality(0 .. Less(key, v) - 1) = Less(key, v)
  <2>1. 0 \in Int /\ Less(key, v) - 1 \in Int
    BY <1>2
  <2>2. Cardinality(0 .. Less(key, v) - 1) = IF 0 > Less(key, v) - 1 THEN 0 ELSE Less(key, v) - 1 - 0 + 1
    BY <2>1, FS_Interval
  <2> QED BY <1>2, <2>2
<1>5. Less(new, v) = Less(key, v)
  BY <1>3, <1>4 DEF Less
<1> QED BY <1>1, <1>5

(* The other species as they were, this one reordered in aux.              *)
LEMMA CoarseSortedStep ==
  ASSUME IInv, Ctl', CoarseSorted
  PROVE  IInv'
<1>1. /\ pc = "coarse_sort" /\ pc' = "subsort" /\ todo = {} /\ todo' = 0 .. N_PIPELINE /\ Still
      /\ UNCHANGED <<seg, call, file, aux>>
      /\ coarse_partition' = [coarse_partition EXCEPT ![N_PIPELINE] = np(call.s)]
  BY DEF CoarseSorted, Still
<1> DEFINE s == call.s
           n == np(s)
           key == QKey(p[s])
<1>2. deck \in Decks /\ s \in Species
  BY <1>1 DEF IInv, Ctl
<1>3. Settled(p[s], n) /\ n \in Nat /\ List(p[s], n)
  BY <1>1, <1>2, SettledIs DEF L, Leaving
<1>4. /\ DOMAIN aux = 0 .. n - 1 /\ DOMAIN coarse_partition = 0 .. cp_stride * N_PIPELINE
      /\ StartsAre(p[s], n, coarse_partition) /\ CopiedBy(p[s], n, aux, Pipelines)
  BY <1>1 DEF IInv, Passes
<1>5. /\ key \in Keys(n)
      /\ \A i \in 0 .. n - 1 : key[i] = V2P(p[s][i].i, N_PIPELINE) /\ key[i] \in 0 .. N_PIPELINE - 1
  BY <1>2, <1>3, KeysAre
<1>6. \A i \in 0 .. n - 1 : aux[Place(key, i)] = p[s][i]
  BY <1>2, <1>3, <1>4, OfIs DEF CopiedBy
<1>7. Placed(key, n, p[s], aux)
  BY <1>3, <1>4, <1>5, <1>6 DEF Placed
<1>8. Reordered(p[s], aux, n)
  BY <1>7, PlacedReorders
<1>9. \A i \in 0 .. n - 1 : Place(key, i) \in 0 .. n - 1
  BY <1>3, <1>5, PlaceIs
<1>10. /\ QKey(aux) \in Keys(n)
       /\ \A i \in 0 .. n - 1 : QKey(aux)[Place(key, i)] = key[i]
  <2>1. \A j \in 0 .. n - 1 : QKey(aux)[j] = V2P(aux[j].i, N_PIPELINE)
    BY <1>4 DEF QKey
  <2>2. \A i \in 0 .. n - 1 : QKey(aux)[Place(key, i)] = key[i]
    BY <1>5, <1>6, <1>9, <2>1
  <2>3. ASSUME NEW j \in 0 .. n - 1 PROVE QKey(aux)[j] \in Int
    <3>1. PICK i \in 0 .. n - 1 : Place(key, i) = j
      BY <1>3, <1>5, PlaceIs
    <3> QED BY <1>5, <2>2, <3>1 DEF Keys
  <2> QED BY <1>4, <2>2, <2>3 DEF QKey, Keys
<1>11. /\ \A k \in Int : Less(QKey(aux), k) = Less(key, k)
       /\ \A k \in Int : \A j \in 0 .. n - 1 :
            QKey(aux)[j] = k <=> j \in Less(key, k) .. Less(key, k + 1) - 1
  BY <1>3, <1>5, <1>10, PlacedKeys
<1>12. N_PIPELINE \in Nat \ {0} /\ cp_stride \in Nat /\ N_PIPELINE <= cp_stride
  <2>1. N_PIPELINE \in Nat \ {0}
    BY <1>2, DeckIs
  <2>2. 0 \in 0 .. N_PIPELINE - 1
    BY <2>1
  <2> QED BY <1>2, <2>1, <2>2, Strides
<1>13. \A k \in 0 .. N_PIPELINE : coarse_partition'[k] = Less(key, k)
  <2>1. ASSUME NEW k \in Pipelines PROVE coarse_partition'[k] = Less(key, k)
    <3>1. k \in Nat /\ k # N_PIPELINE /\ 0 \in Pipelines /\ CpAt(k, 0) = k
      BY <1>12 DEF Pipelines, CpAt
    <3>2. coarse_partition[k] = Start(p[s], n, k, 0)
      BY <1>4, <3>1 DEF StartsAre
    <3>3. \A h : ~ InEarlier(n, h, 0)
      BY DEF InEarlier
    <3>4. Less(key, k) \in Int
      BY <1>3, <1>5, <3>1, LessOrder
    <3>5. Start(p[s], n, k, 0) = Less(key, k)
      BY <3>3, <3>4, FS_EmptySet DEF Start
    <3>6. k \in DOMAIN coarse_partition
      BY <1>2, <1>4, <3>1, Strides DEF Pipelines
    <3> QED BY <1>1, <3>1, <3>2, <3>5, <3>6
  <2>2. coarse_partition'[N_PIPELINE] = Less(key, N_PIPELINE)
    <3>1. N_PIPELINE \in DOMAIN coarse_partition
      <4>1. cp_stride * N_PIPELINE \in Nat /\ N_PIPELINE <= cp_stride * N_PIPELINE
        BY <1>12
      <4> QED BY <1>4, <1>12, <4>1
    <3>2. {h \in DOMAIN key : key[h] < N_PIPELINE} = 0 .. n - 1
      <4>1. DOMAIN key = 0 .. n - 1
        BY <1>5 DEF Keys
      <4>2. \A h \in 0 .. n - 1 : key[h] < N_PIPELINE
        BY <1>5, <1>12
      <4> HIDE DEF key
      <4> QED BY <4>1, <4>2
    <3>3. Cardinality(0 .. n - 1) = n
      <4>1. 0 \in Int /\ n - 1 \in Int
        BY <1>3
      <4>2. Cardinality(0 .. n - 1) = IF 0 > n - 1 THEN 0 ELSE n - 1 - 0 + 1
        BY <4>1, FS_Interval
      <4> QED BY <1>3, <4>2
    <3>4. Less(key, N_PIPELINE) = n
      BY <3>2, <3>3 DEF Less
    <3> QED BY <1>1, <3>1, <3>4
  <2>3. \A k \in 0 .. N_PIPELINE : k \in Pipelines \/ k = N_PIPELINE
    BY <1>12 DEF Pipelines
  <2> QED BY <2>1, <2>2, <2>3
<1>14. Grouped(aux, n, coarse_partition')
  <2>1. \A k \in 0 .. N_PIPELINE : k \in Int
    OBVIOUS
  <2>2. \A k \in 0 .. N_PIPELINE : coarse_partition'[k] = Less(QKey(aux), k)
    BY <1>11, <1>13, <2>1
  <2>3. ASSUME NEW k \in Pipelines
        PROVE  coarse_partition'[k] .. coarse_partition'[k + 1] - 1
                 = {i \in 0 .. n - 1 : QKey(aux)[i] = k}
    <3>1. k \in Int /\ k + 1 \in Int /\ k \in 0 .. N_PIPELINE /\ k + 1 \in 0 .. N_PIPELINE
      BY <1>12 DEF Pipelines
    <3>2. Less(key, k) \in 0 .. n /\ Less(key, k + 1) \in 0 .. n
      BY <1>3, <1>5, <3>1, LessOrder
    <3>3. \A j \in 0 .. n - 1 : QKey(aux)[j] = k <=> j \in Less(key, k) .. Less(key, k + 1) - 1
      BY <1>11, <3>1
    <3>4. Less(key, k) .. Less(key, k + 1) - 1 \subseteq 0 .. n - 1
      BY <1>3, <3>2
    <3>5. coarse_partition'[k] = Less(key, k) /\ coarse_partition'[k + 1] = Less(key, k + 1)
      BY <1>13, <3>1
    <3> QED BY <3>3, <3>4, <3>5
  <2> QED BY <2>2, <2>3 DEF Grouped
<1> HIDE DEF key
<1>15. np(s)' = n /\ call'.s = s
  BY <1>1 DEF np, Still
<1>16. Passes'
  <2>1. /\ \A q, m, cp : Grouped(q, m, cp)' <=> Grouped(q, m, cp)
        /\ N_PIPELINE' = N_PIPELINE /\ Pipelines' = Pipelines
    BY <1>1, SameDeck, SameSort DEF Still
  <2>3. \A q, m, a, part : SubsortedBy(a, m, q, part, {})'
    BY DEF SubsortedBy
  <2>4. Pipelines' \ todo' = {} /\ N_PIPELINE' \in todo'
    BY <1>1, <1>12, <2>1 DEF Pipelines
  <2> QED BY <1>1, <1>14, <1>15, <2>1, <2>3, <2>4 DEF Passes
<1>17. ASSUME NEW t \in Species
       PROVE  np(t)' = np(t) /\ Same(L(t), L(t)', np(t))
  <2>1. np(t)' = np(t) /\ L(t) = p[t] /\ L(t)' = (IF t = s THEN aux ELSE p[t])
    BY <1>1 DEF np, L, Still
  <2>2. List(p[t], np(t))
    BY <2>1 DEF IInv, Census
  <2>3. CASE t = s
    BY <1>8, <2>1, <2>2, <2>3, SameReordered
  <2>4. CASE t # s
    BY <2>1, <2>2, <2>4, SameSelf
  <2> QED BY <2>3, <2>4
<1>18. Census' /\ Momenta' /\ Places'
  BY <1>1, <1>17, SettledStep DEF Still, Settling
<1>19. Domains'
  <2>1. seg' = [r \in 0 .. N_PIPELINE |-> seg'[r]]
    BY <1>1 DEF IInv, Domains
  <2> QED BY <1>1, <2>1, StillDomains
<1>20. Brackets'
  <2>1. Species' = Species /\ \A q, part : Bracketed(q, part)' <=> Bracketed(q, part)
    BY <1>1, SameDeck, SameSort DEF Still
  <2>2. \A t \in Species : last_sorted[t] = step /\ t # s /\ ~ (deck.legacy /\ np(t) = 0)
                             => Bracketed(p[t], partition[t])
    BY <1>1 DEF IInv, Brackets, Sorting
  <2> QED BY <1>1, <1>15, <1>17, <2>1, <2>2 DEF Brackets, Sorting, Still
<1>21. Sums'
  BY <1>1 DEF Sums
<1>22. Files'
  <2>1. Species' = Species
    BY <1>1, SameDeck DEF Still
  <2>2. call.k = "begin" => \A t \in Species : FileOf(file[t], np(t), Ids(L(t)), 2 * step)
    BY <1>1 DEF IInv, Files, Sorting
  <2>3. \A t \in Species : Ids(L(t)') = Ids(L(t))
    BY <1>17 DEF Same
  <2>4. call.k = "begin" => \A t \in Species : FileOf(file'[t], np(t)', Ids(L(t)'), 2 * step')
    BY <1>1, <1>17, <2>2, <2>3 DEF Still
  <2> QED BY <1>1, <2>1, <2>4 DEF Files, Sorting
<1> QED BY <1>16, <1>18, <1>19, <1>20, <1>21, <1>22 DEF IInv

(* While aux is sorted into the list all that others see stays as it is.   *)
SubsortKeeps ==
  /\ pc = "subsort" /\ pc' = pc
  /\ UNCHANGED <<deck, step, pm, nm, lost, last_sorted, aux, coarse_partition, seg, call, file>>
  /\ p' = [p EXCEPT ![call.s] = p'[call.s]] /\ Plain(p'[call.s])
  /\ DOMAIN p'[call.s] = 0 .. np(call.s) - 1
  /\ partition' = [partition EXCEPT ![call.s] = partition'[call.s]]
  /\ DOMAIN partition'[call.s] = 0 .. n_voxel
  /\ \A v \in 0 .. n_voxel : partition'[call.s][v] \in Int

(* What holds of the lists, with aux for the one being sorted, still does. *)
LEMMA SubsortStill ==
  ASSUME IInv, SubsortKeeps
  PROVE  /\ Domains' /\ Census' /\ Momenta' /\ Places' /\ Brackets' /\ Sums' /\ Files'
         /\ np(call.s)' = np(call.s)
<1>1. /\ pc = "subsort" /\ pc' = pc
      /\ UNCHANGED <<deck, step, pm, nm, lost, last_sorted, aux, coarse_partition, seg, call, file>>
      /\ p' = [p EXCEPT ![call.s] = p'[call.s]] /\ Plain(p'[call.s])
      /\ DOMAIN p'[call.s] = 0 .. np(call.s) - 1
  BY DEF SubsortKeeps
<1>2. call.s \in Species /\ Domains /\ deck \in Decks
  BY DEF IInv, Ctl
<1>3. Lists0 /\ \A t \in Species : t # call.s => p'[t] = p[t]
  BY <1>1, <1>2, OneList
<1>4. Parts0 /\ \A t \in Species : t # call.s => partition'[t] = partition[t]
  <2>1. /\ partition = [t \in Species |-> partition[t]]
        /\ last_sorted = [t \in Species |-> last_sorted[t]]
        /\ \A t \in Species :
             /\ DOMAIN partition[t] = 0 .. n_voxel /\ \A v \in 0 .. n_voxel : partition[t][v] \in Int
             /\ last_sorted[t] \in Int /\ last_sorted[t] <= step
    BY <1>2 DEF Domains
  <2>2. partition' = [t \in Species |-> partition'[t]]
        /\ \A t \in Species : t # call.s => partition'[t] = partition[t]
    BY <1>2, <2>1 DEF SubsortKeeps
  <2>3. ASSUME NEW t \in Species
        PROVE  DOMAIN partition'[t] = 0 .. n_voxel /\ \A v \in 0 .. n_voxel : partition'[t][v] \in Int
    <3>1. CASE t = call.s
      BY <3>1 DEF SubsortKeeps
    <3>2. CASE t # call.s
      BY <2>1, <2>2, <3>2
    <3> QED BY <3>1, <3>2
  <2> QED BY <1>1, <2>1, <2>2, <2>3 DEF Parts0
<1>5. Domains'
  BY <1>1, <1>2, <1>3, <1>4, KeptDomains DEF Domains
<1>6. ASSUME NEW t \in Species
      PROVE  np(t)' = np(t) /\ L(t)' = L(t) /\ Same(L(t), L(t)', np(t))
  <2>1. np(t)' = np(t) /\ L(t)' = L(t)
    BY <1>1, <1>3 DEF Lists0, L
  <2>2. List(L(t), np(t))
    BY DEF IInv, Census
  <2> QED BY <2>1, <2>2, SameSelf
<1>7. Census' /\ Momenta' /\ Places'
  BY <1>1, <1>6, SettledStep DEF Settling
<1>8. Brackets'
  <2>1. Species' = Species /\ \A q, part : Bracketed(q, part)' <=> Bracketed(q, part)
    BY <1>1, SameDeck, SameSort
  <2>2. \A t \in Species : last_sorted[t] = step /\ t # call.s /\ ~ (deck.legacy /\ np(t) = 0)
                             => Bracketed(p[t], partition[t])
    BY <1>1 DEF IInv, Brackets, Sorting
  <2>3. \A t \in Species : last_sorted'[t] = step' /\ t # call.s /\ ~ (deck'.legacy /\ np(t)' = 0)
                             => Bracketed(p'[t], partition'[t])
    BY <1>1, <1>3, <1>4, <1>6, <2>2
  <2> QED BY <1>1, <2>1, <2>3 DEF Brackets, Sorting
<1>9. Files'
  <2>1. Species' = Species
    BY <1>1, SameDeck
  <2>2. call.k = "begin" => \A t \in Species : FileOf(file[t], np(t), Ids(L(t)), 2 * step)
    BY <1>1 DEF IInv, Files, Sorting
  <2>3. call.k = "begin" => \A t \in Species : FileOf(file'[t], np(t)', Ids(L(t)'), 2 * step')
    BY <1>1, <1>6, <2>2
  <2> QED BY <1>1, <2>1, <2>3 DEF Files, Sorting
<1>10. Sums'
  BY <1>1 DEF Sums
<1>11. np(call.s)' = np(call.s)
  BY <1>1, <1>2, <1>6
<1> QED BY <1>5, <1>7, <1>8, <1>9, <1>10, <1>11

(* The host's part: the ghosts'.                                           *)
LEMMA GhostStep ==
  ASSUME IInv, Ctl', subsort(N_PIPELINE)
  PROVE  IInv'
<1> DEFINE s == call.s
           n == np(s)
           part == partition[s]
           new == ClearGhosts(part, n)
<1>1. /\ pc = "subsort" /\ pc' = pc /\ todo' = todo \ {N_PIPELINE} /\ p' = p
      /\ UNCHANGED <<deck, step, pm, nm, lost, last_sorted, aux, coarse_partition, seg, call, file>>
      /\ partition' = [partition EXCEPT ![s] = new]
  BY DEF subsort
<1>2. deck \in Decks /\ s \in Species /\ todo \subseteq 0 .. N_PIPELINE
  BY DEF IInv, Ctl
<1>3. Settled(aux, n) /\ n \in Nat
  BY <1>1, <1>2, SettledIs DEF L, Leaving
<1>4. /\ DOMAIN part = 0 .. n_voxel /\ \A v \in 0 .. n_voxel : part[v] \in Int
      /\ DOMAIN partition = Species /\ DOMAIN p = Species
      /\ DOMAIN p[s] = 0 .. n - 1 /\ p[s] = [i \in DOMAIN p[s] |-> p[s][i]]
      /\ p = [t \in Species |-> p[t]]
  BY <1>2 DEF IInv, Domains
<1>5. vl \in Nat \ {0} /\ vh \in Nat /\ vl <= vh /\ n_voxel \in Nat /\ vh + 2 <= n_voxel
  BY <1>2, BoxIs
<1>6. /\ DOMAIN new = 0 .. n_voxel
      /\ \A v \in 0 .. n_voxel :
           new[v] = IF v < vl THEN 0 ELSE IF v \in vh + 1 .. n_voxel - 1 THEN n ELSE part[v]
  BY <1>4 DEF ClearGhosts
<1> HIDE DEF new
<1>7. partition'[s] = new
  BY <1>1, <1>2, <1>4
<1>8. SubsortKeeps
  <2>1. \A v \in 0 .. n_voxel : new[v] \in Int
    BY <1>3, <1>4, <1>6
  <2>2. p' = [p EXCEPT ![s] = p'[s]]
    BY <1>1, <1>4
  <2> QED BY <1>1, <1>4, <1>6, <1>7, <2>1, <2>2 DEF SubsortKeeps, Plain
<1>9. SubsortedBy(aux, n, p'[s], new, Pipelines \ todo')
  <2> SUFFICES ASSUME NEW k \in Pipelines \ todo'
               PROVE  /\ \A v \in P2V(k, N_PIPELINE) .. P2V(k + 1, N_PIPELINE) : new[v] = Less(VKey(aux), v)
                      /\ \A i \in 0 .. n - 1 : QKey(aux)[i] = k => p'[s][Place(VKey(aux), i)] = aux[i]
    BY DEF SubsortedBy
  <2>0. N_PIPELINE \in Nat \ {0} /\ k \in Nat /\ k # N_PIPELINE /\ k \in 0 .. N_PIPELINE
        /\ k + 1 \in 0 .. N_PIPELINE
    BY <1>2, DeckIs DEF Pipelines
  <2>1. /\ \A v \in P2V(k, N_PIPELINE) .. P2V(k + 1, N_PIPELINE) : part[v] = Less(VKey(aux), v)
        /\ \A i \in 0 .. n - 1 : QKey(aux)[i] = k => p[s][Place(VKey(aux), i)] = aux[i]
    BY <1>1, <2>0 DEF IInv, Passes, SubsortedBy
  <2>2. P2V(k, N_PIPELINE) \in vl .. vh + 1 /\ P2V(k + 1, N_PIPELINE) \in vl .. vh + 1
    BY <1>2, <2>0, SubsortEnds
  <2>3. ASSUME NEW v \in P2V(k, N_PIPELINE) .. P2V(k + 1, N_PIPELINE)
        PROVE  new[v] = Less(VKey(aux), v)
    <3>1. v \in vl .. vh + 1 /\ v \in 0 .. n_voxel /\ v \in Int
      BY <1>5, <2>2
    <3>2. vh < v => Less(VKey(aux), v) = n
      BY <1>2, <1>3, <3>1, GhostCounts
    <3>3. CASE v = vh + 1
      BY <1>5, <1>6, <3>1, <3>2, <3>3
    <3>4. CASE v # vh + 1
      BY <1>5, <1>6, <2>1, <3>1, <3>4
    <3> QED BY <3>3, <3>4
  <2> QED BY <1>1, <2>1, <2>3
<1>10. GhostsAre(new, n)
  BY <1>5, <1>6 DEF GhostsAre
<1>11. np(s)' = n
  BY <1>8, SubsortStill
<1>12. Passes'
  <2>1. /\ \A q, m, cp : Grouped(q, m, cp)' <=> Grouped(q, m, cp)
        /\ \A a, m, q, pt, ranks : SubsortedBy(a, m, q, pt, ranks)' <=> SubsortedBy(a, m, q, pt, ranks)
        /\ \A pt, m : GhostsAre(pt, m)' <=> GhostsAre(pt, m)
        /\ N_PIPELINE' = N_PIPELINE /\ Pipelines' = Pipelines
    BY <1>1, SameDeck, SameSort
  <2>2. Grouped(aux, n, coarse_partition)
    BY <1>1 DEF IInv, Passes
  <2> QED BY <1>1, <1>7, <1>9, <1>10, <1>11, <2>1, <2>2 DEF Passes
<1>13. Domains' /\ Census' /\ Momenta' /\ Places' /\ Brackets' /\ Sums' /\ Files'
  BY <1>8, SubsortStill
<1> QED BY <1>12, <1>13 DEF IInv

(* A pipeline's part: the voxels of its subsort.                           *)
LEMMA SubsortRankStep ==
  ASSUME IInv, Ctl', NEW rank \in 0 .. N_PIPELINE, rank # N_PIPELINE, subsort(rank)
  PROVE  IInv'
<1> DEFINE s == call.s
           n == np(s)
           part == partition[s]
           o == subsort_pipeline_scalar(aux, p[s], part, rank, coarse_partition[rank],
                                        coarse_partition[rank + 1], N_PIPELINE)
           new == o.partition
           b == o.p
<1>1. /\ pc = "subsort" /\ pc' = pc /\ rank \in todo /\ todo' = todo \ {rank}
      /\ UNCHANGED <<deck, step, pm, nm, lost, last_sorted, aux, coarse_partition, seg, call, file>>
      /\ partition' = [partition EXCEPT ![s] = new] /\ p' = [p EXCEPT ![s] = b]
  BY DEF subsort
<1>2. deck \in Decks /\ s \in Species /\ todo \subseteq 0 .. N_PIPELINE
  BY DEF IInv, Ctl
<1>3. Settled(aux, n) /\ n \in Nat
  BY <1>1, <1>2, SettledIs DEF L, Leaving
<1>4. /\ DOMAIN part = 0 .. n_voxel /\ \A v \in 0 .. n_voxel : part[v] \in Int
      /\ DOMAIN partition = Species /\ DOMAIN p = Species
      /\ DOMAIN p[s] = 0 .. n - 1
  BY <1>2 DEF IInv, Domains
<1>5. vl \in Nat \ {0} /\ vh \in Nat /\ vl <= vh /\ n_voxel \in Nat /\ vh + 2 <= n_voxel
  BY <1>2, BoxIs
<1>6. N_PIPELINE \in Nat \ {0} /\ rank \in Pipelines /\ rank \in 0 .. N_PIPELINE - 1
      /\ rank \in 0 .. N_PIPELINE /\ rank + 1 \in 0 .. N_PIPELINE /\ rank \in Int /\ rank + 1 \in Int
  BY <1>2, DeckIs DEF Pipelines
<1>7. Grouped(aux, n, coarse_partition)
  BY <1>1 DEF IInv, Passes
<1>8. VKey(aux) \in Keys(n) /\ QKey(aux) \in Keys(n)
      /\ \A i \in 0 .. n - 1 : QKey(aux)[i] \in 0 .. N_PIPELINE - 1
  BY <1>2, <1>3, KeysAre
<1>9. SubsortDone(aux, n, p[s], part, rank, o)
  <2>1. coarse_partition[rank] = Less(QKey(aux), rank)
        /\ coarse_partition[rank + 1] = Less(QKey(aux), rank + 1)
    BY <1>6, <1>7 DEF Grouped
  <2>2. coarse_partition[rank] \in Int /\ coarse_partition[rank + 1] \in Int
    <3>1. Less(QKey(aux), rank) \in 0 .. n /\ Less(QKey(aux), rank + 1) \in 0 .. n
      BY <1>3, <1>6, <1>8, LessOrder
    <3> QED BY <2>1, <3>1
  <2>3. \A i \in Int : i \in coarse_partition[rank] .. coarse_partition[rank + 1] - 1
                         <=> i \in 0 .. n - 1 /\ QKey(aux)[i] = rank
    BY <1>6, <1>7, Zenon DEF Grouped
  <2> QED BY <1>2, <1>3, <1>4, <1>6, <2>1, <2>2, <2>3, SubsortIs
<1>10. Plain(b)
  BY Zenon DEF subsort_pipeline_scalar, Scatter, Plain
<1> HIDE DEF o
<1>11. /\ DOMAIN new = 0 .. n_voxel /\ DOMAIN b = 0 .. n - 1
       /\ \A v \in 0 .. n_voxel :
            new[v] = IF v \in P2V(rank, N_PIPELINE) .. P2V(rank + 1, N_PIPELINE)
                       THEN Less(VKey(aux), v) ELSE part[v]
       /\ \A i \in 0 .. n - 1 : QKey(aux)[i] = rank => b[Place(VKey(aux), i)] = aux[i]
       /\ \A j \in 0 .. n - 1 :
            (\A i \in 0 .. n - 1 : QKey(aux)[i] = rank => Place(VKey(aux), i) # j) => b[j] = p[s][j]
  BY <1>9 DEF SubsortDone
<1> HIDE DEF new, b
<1>12. partition'[s] = new /\ p'[s] = b
  BY <1>1, <1>2, <1>4
<1>13. SubsortKeeps
  <2>1. ASSUME NEW v \in 0 .. n_voxel PROVE new[v] \in Int
    <3>1. Less(VKey(aux), v) \in 0 .. n
      BY <1>3, <1>8, LessOrder
    <3> QED BY <1>4, <1>11, <3>1
  <2> QED BY <1>1, <1>10, <1>11, <1>12, <2>1 DEF SubsortKeeps
<1>14. ASSUME NEW k \in Pipelines
       PROVE  /\ k \in Nat /\ k \in 0 .. N_PIPELINE /\ k + 1 \in 0 .. N_PIPELINE
              /\ P2V(k, N_PIPELINE) \in vl .. vh + 1 /\ P2V(k + 1, N_PIPELINE) \in vl .. vh + 1
  <2>1. k \in Nat /\ k \in 0 .. N_PIPELINE /\ k + 1 \in 0 .. N_PIPELINE
    BY <1>6 DEF Pipelines
  <2> QED BY <1>2, <2>1, SubsortEnds
<1>15. SubsortedBy(aux, n, b, new, Pipelines \ todo')
  <2> SUFFICES ASSUME NEW k \in Pipelines \ todo'
               PROVE  /\ \A v \in P2V(k, N_PIPELINE) .. P2V(k + 1, N_PIPELINE) : new[v] = Less(VKey(aux), v)
                      /\ \A i \in 0 .. n - 1 : QKey(aux)[i] = k => b[Place(VKey(aux), i)] = aux[i]
    BY DEF SubsortedBy
  <2>1. CASE k = rank
    <3>1. \A v \in P2V(k, N_PIPELINE) .. P2V(k + 1, N_PIPELINE) : v \in 0 .. n_voxel
      BY <1>5, <1>14
    <3> QED BY <1>11, <2>1, <3>1
  <2>2. CASE k # rank
    <3>1. /\ \A v \in P2V(k, N_PIPELINE) .. P2V(k + 1, N_PIPELINE) : part[v] = Less(VKey(aux), v)
          /\ \A i \in 0 .. n - 1 : QKey(aux)[i] = k => p[s][Place(VKey(aux), i)] = aux[i]
      <4>1. SubsortedBy(aux, n, p[s], part, Pipelines \ todo) /\ k \in Pipelines \ todo
        BY <1>1, <2>2 DEF IInv, Passes
      <4> QED BY <4>1 DEF SubsortedBy
    <3>2. \A v \in P2V(k, N_PIPELINE) .. P2V(k + 1, N_PIPELINE) : v \in 0 .. n_voxel
      BY <1>5, <1>14
    <3>3. \A v \in P2V(k, N_PIPELINE) .. P2V(k + 1, N_PIPELINE) : new[v] = Less(VKey(aux), v)
      BY <1>11, <3>1, <3>2
    <3>4. ASSUME NEW i \in 0 .. n - 1, QKey(aux)[i] = k PROVE b[Place(VKey(aux), i)] = aux[i]
      <4>1. Place(VKey(aux), i) \in 0 .. n - 1
        BY <1>3, <1>8, PlaceIs
      <4>2. \A h \in 0 .. n - 1 : QKey(aux)[h] = rank => Place(VKey(aux), h) # Place(VKey(aux), i)
        <5> SUFFICES ASSUME NEW h \in 0 .. n - 1, QKey(aux)[h] = rank
                     PROVE  Place(VKey(aux), h) # Place(VKey(aux), i)
          OBVIOUS
        <5>1. h # i
          BY <2>2, <3>4
        <5>2. \A j, l \in 0 .. n - 1 : Place(VKey(aux), j) = Place(VKey(aux), l) => j = l
          BY <1>3, <1>8, PlaceIs
        <5> QED BY <5>1, <5>2
      <4> QED BY <1>11, <3>1, <3>4, <4>1, <4>2
    <3> QED BY <3>3, <3>4
  <2> QED BY <2>1, <2>2
<1>16. N_PIPELINE \notin todo' => GhostsAre(new, n)
  <2> SUFFICES ASSUME N_PIPELINE \notin todo', NEW v \in 0 .. n_voxel - 1
               PROVE  (v < vl => new[v] = 0) /\ (v > vh => new[v] = n)
    BY DEF GhostsAre
  <2>1. N_PIPELINE \notin todo
    BY <1>1, <1>6
  <2>2. (v < vl => part[v] = 0) /\ (v > vh => part[v] = n)
    BY <1>1, <2>1 DEF IInv, Passes, GhostsAre
  <2>3. v \in 0 .. n_voxel /\ v \in Int
    BY <1>5
  <2>4. vh < v => Less(VKey(aux), v) = n
    BY <1>2, <1>3, <2>3, GhostCounts
  <2>5. v < vl => v \notin P2V(rank, N_PIPELINE) .. P2V(rank + 1, N_PIPELINE)
    BY <1>5, <1>6, <1>14, <2>3
  <2> QED BY <1>5, <1>11, <2>2, <2>3, <2>4, <2>5
<1>17. np(s)' = n
  BY <1>13, SubsortStill
<1>18. Passes'
  <2>1. /\ \A q, m, cp : Grouped(q, m, cp)' <=> Grouped(q, m, cp)
        /\ \A a, m, q, pt, ranks : SubsortedBy(a, m, q, pt, ranks)' <=> SubsortedBy(a, m, q, pt, ranks)
        /\ \A pt, m : GhostsAre(pt, m)' <=> GhostsAre(pt, m)
        /\ N_PIPELINE' = N_PIPELINE /\ Pipelines' = Pipelines
    BY <1>1, SameDeck, SameSort
  <2> QED BY <1>1, <1>7, <1>12, <1>15, <1>16, <1>17, <2>1 DEF Passes
<1>19. Domains' /\ Census' /\ Momenta' /\ Places' /\ Brackets' /\ Sums' /\ Files'
  BY <1>13, SubsortStill
<1> QED BY <1>18, <1>19 DEF IInv

(* All sorted, the list has what aux had.                                  *)
LEMMA SubsortedStep ==
  ASSUME IInv, Ctl', Subsorted
  PROVE  IInv'
<1> DEFINE s == call.s
           n == np(s)
           part == partition[s]
           q == p[s]
<1>1. /\ pc = "subsort" /\ todo = {} /\ pc' = call.k /\ Still /\ UNCHANGED <<call, seg, file>>
  BY DEF Subsorted, Still, sortVars
<1>2. deck \in Decks /\ s \in Species /\ call.k \in {"begin", "collide"}
  BY <1>1 DEF IInv, Ctl, Sorting
<1>3. Settled(aux, n) /\ n \in Nat /\ List(aux, n)
  BY <1>1, <1>2, SettledIs DEF L, Leaving
<1>4. DOMAIN part = 0 .. n_voxel /\ DOMAIN q = 0 .. n - 1
  BY <1>2 DEF IInv, Domains
<1>5. vl \in Nat \ {0} /\ vh \in Nat /\ vl <= vh /\ n_voxel \in Nat /\ vh + 2 <= n_voxel
  BY <1>2, BoxIs
<1>6. N_PIPELINE \in Nat \ {0}
  BY <1>2, DeckIs
<1>7. /\ \A k \in Pipelines :
           /\ \A v \in P2V(k, N_PIPELINE) .. P2V(k + 1, N_PIPELINE) : part[v] = Less(VKey(aux), v)
           /\ \A i \in 0 .. n - 1 : QKey(aux)[i] = k => q[Place(VKey(aux), i)] = aux[i]
      /\ \A v \in 0 .. n_voxel - 1 : (v < vl => part[v] = 0) /\ (v > vh => part[v] = n)
  BY <1>1 DEF IInv, Passes, SubsortedBy, GhostsAre
<1> HIDE DEF part, q
<1>8. \A i \in 0 .. n - 1 : q[Place(VKey(aux), i)] = aux[i]
  <2>1. \A i \in 0 .. n - 1 : QKey(aux)[i] \in Pipelines
    BY <1>2, <1>3, KeysAre DEF Pipelines
  <2> QED BY <1>7, <2>1
<1>9. ASSUME NEW v \in 0 .. n_voxel - 1 PROVE part[v] = Less(VKey(aux), v)
  <2>1. v \in Int
    OBVIOUS
  <2>2. (v <= vl => Less(VKey(aux), v) = 0) /\ (vh < v => Less(VKey(aux), v) = n)
    BY <1>2, <1>3, <2>1, GhostCounts
  <2>3. CASE v < vl
    BY <1>5, <1>7, <2>1, <2>2, <2>3
  <2>4. CASE v > vh
    BY <1>5, <1>7, <2>1, <2>2, <2>4
  <2>5. CASE v \in vl .. vh
    <3> DEFINE k == V2P(v, N_PIPELINE)
    <3>1. k \in 0 .. N_PIPELINE - 1
      <4>1. 0 \in 0 .. N_PIPELINE
        BY <1>6
      <4> QED BY <1>2, <2>5, <4>1, SubsortBounds
    <3> HIDE DEF k
    <3>2. k \in Int /\ k \in 0 .. N_PIPELINE /\ k + 1 \in 0 .. N_PIPELINE
      BY <1>6, <3>1
    <3>3. P2V(k, N_PIPELINE) <= v <=> k <= k
      BY <1>2, <2>5, <3>2, SubsortBounds DEF k
    <3>4. P2V(k + 1, N_PIPELINE) <= v <=> k + 1 <= k
      BY <1>2, <2>5, <3>2, SubsortBounds DEF k
    <3>5. P2V(k, N_PIPELINE) \in Int /\ P2V(k + 1, N_PIPELINE) \in Int
      <4>1. P2V(k, N_PIPELINE) \in vl .. vh + 1 /\ P2V(k + 1, N_PIPELINE) \in vl .. vh + 1
        BY <1>2, <3>2, SubsortEnds
      <4> QED BY <1>5, <4>1
    <3>6. v \in P2V(k, N_PIPELINE) .. P2V(k + 1, N_PIPELINE)
      BY <2>1, <3>2, <3>3, <3>4, <3>5
    <3> QED BY <1>7, <3>1, <3>6 DEF Pipelines
  <2>6. v < vl \/ v > vh \/ v \in vl .. vh
    BY <1>5, <2>1
  <2> QED BY <2>3, <2>4, <2>5, <2>6
<1>10. SortedOut(aux, n, q, part)
  BY <1>2, <1>3, <1>4, <1>8, <1>9, PlacedIsSorted DEF q, part
<1>11. Reordered(aux, q, n) /\ Bracketed(q, part)
  BY <1>10 DEF SortedOut
<1>12. pc' # "subsort" /\ pc' \in {"begin", "collide"}
  BY <1>1, <1>2
<1>13. ASSUME NEW t \in Species
       PROVE  np(t)' = np(t) /\ Same(L(t), L(t)', np(t))
  <2>1. np(t)' = np(t) /\ L(t)' = p[t] /\ L(t) = (IF t = s THEN aux ELSE p[t])
    BY <1>1, <1>12 DEF np, L, Still
  <2>2. List(L(t), np(t))
    BY DEF IInv, Census
  <2>3. CASE t = s
    BY <1>11, <2>1, <2>2, <2>3, SameReordered DEF q
  <2>4. CASE t # s
    BY <2>1, <2>2, <2>4, SameSelf
  <2> QED BY <2>3, <2>4
<1>14. Census' /\ Momenta' /\ Places'
  BY <1>1, <1>12, <1>13, SettledStep DEF Still, Settling
<1>15. Domains'
  <2>1. seg' = [r \in 0 .. N_PIPELINE |-> seg'[r]]
    BY <1>1 DEF IInv, Domains
  <2> QED BY <1>1, <1>12, <2>1, StillDomains
<1>16. Brackets'
  <2>1. Species' = Species /\ \A a, pt : Bracketed(a, pt)' <=> Bracketed(a, pt)
    BY <1>1, SameDeck, SameSort DEF Still
  <2>2. \A t \in Species : last_sorted[t] = step /\ t # s /\ ~ (deck.legacy /\ np(t) = 0)
                             => Bracketed(p[t], partition[t])
    BY <1>1 DEF IInv, Brackets, Sorting
  <2>3. \A t \in Species : last_sorted'[t] = step' /\ ~ (deck'.legacy /\ np(t)' = 0)
                             => Bracketed(p'[t], partition'[t])
    BY <1>1, <1>11, <1>13, <2>2 DEF Still, q, part
  <2> QED BY <1>12, <2>1, <2>3 DEF Brackets
<1>17. Files'
  <2>1. Species' = Species
    BY <1>1, SameDeck DEF Still
  <2>2. call.k = "begin" => \A t \in Species : FileOf(file[t], np(t), Ids(L(t)), 2 * step)
    BY <1>1 DEF IInv, Files, Sorting
  <2>3. \A t \in Species : Ids(L(t)') = Ids(L(t))
    BY <1>13 DEF Same
  <2>4. call.k = "begin" => \A t \in Species : FileOf(file'[t], np(t)', Ids(L(t)'), 2 * step')
    BY <1>1, <1>13, <2>2, <2>3 DEF Still
  <2> QED BY <1>1, <1>12, <2>1, <2>4 DEF Files, Sorting
<1>18. Passes' /\ Sums'
  BY <1>12 DEF Passes, Sums
<1> QED BY <1>14, <1>15, <1>16, <1>17, <1>18 DEF IInv

-----------------------------------------------------------------------------
(* The call of a sort.                                                     *)

(* A sort in one go leaves the list and its partition, whole.              *)
SortsTo(src, n, q, part) ==
  /\ SortedOut(src, n, q, part) /\ Plain(q)
  /\ \A v \in 0 .. n_voxel : part[v] \in Int

(* A list scattered to is a function of its places.                        *)
LEMMA ScatterShaped ==
  ASSUME NEW dst, NEW src, NEW at
  PROVE  Plain(Scatter(dst, src, at))
<1> DEFINE e(j) == LET from == {i \in DOMAIN at : at[i] = j}
                   IN IF from = {} THEN dst[j] ELSE src[Max(from)]
<1>1. Scatter(dst, src, at) = [j \in DOMAIN dst |-> e(j)]
  BY DEF Scatter
<1> HIDE DEF e
<1> QED BY <1>1 DEF Plain

(* sort_p.cc sorts a list that has particles.                              *)
LEMMA LegacySorts ==
  ASSUME deck \in Decks, NEW s \in Species, Settled(p[s], np(s)), np(s) > 0, Plain(p[s])
  PROVE  SortsTo(p[s], np(s), legacy_sort_p(s).p, legacy_sort_p(s).partition)
<1> DEFINE part == CountingPartition(p[s])
           n == np(s)
           q == p[s]
<1>1. legacy_sort_p(s) = [p |-> IF deck.out_of_place THEN OutOfPlace(q, part) ELSE InPlace(q, part),
                          partition |-> part]
  BY DEF legacy_sort_p
<1>2. SortedOut(q, n, legacy_sort_p(s).p, part)
  BY <1>1, LegacyIs DEF Plain
<1>3. ASSUME NEW v \in 0 .. n_voxel PROVE part[v] \in Int
  <2>1. part[v] = Less(VKey(q), v)
    BY CountingIs
  <2>2. VKey(q) \in Keys(n) /\ n \in Nat /\ v \in Int
    BY KeysAre DEF Settled
  <2>3. Less(VKey(q), v) \in 0 .. n
    BY <2>2, LessOrder
  <2> QED BY <2>1, <2>3
<1>4. Plain(OutOfPlace(q, part))
  BY ScatterShaped DEF OutOfPlace
<1>5. Plain(InPlace(q, part))
  BY InPlaceIs DEF Plain
<1> HIDE DEF part
<1> QED BY <1>1, <1>2, <1>3, <1>4, <1>5 DEF SortsTo

(* With one pipeline the subsort of the host sorts the list.               *)
LEMMA OneSorts ==
  ASSUME deck \in Decks, N_PIPELINE = 1, NEW q, NEW n, Settled(q, n),
         NEW dst, DOMAIN dst = 0 .. n - 1, NEW part, DOMAIN part = 0 .. n_voxel,
         \A v \in 0 .. n_voxel : part[v] \in Int
  PROVE  LET r == subsort_pipeline_scalar(q, dst, part, 0, 0, n, 1)
         IN SortsTo(q, n, r.p, ClearGhosts(r.partition, n))
<1> DEFINE r == subsort_pipeline_scalar(q, dst, part, 0, 0, n, 1)
<1>1. SortedOut(q, n, r.p, ClearGhosts(r.partition, n))
  BY OneSort, Zenon
<1>2. Plain(r.p)
  BY DEF subsort_pipeline_scalar, Scatter, Plain
<1>3. DOMAIN r.partition = DOMAIN part /\ \A v \in 0 .. n_voxel : r.partition[v] \in Int
  <2> DEFINE In(v) == {i \in 0 .. n - 1 : q[i].i \in P2V(0, 1) .. v - 1}
  <2>1. r.partition = [v \in DOMAIN part |->
          IF v \in P2V(0, 1) .. P2V(0 + 1, 1) THEN 0 + Cardinality(In(v)) ELSE part[v]]
    BY DEF subsort_pipeline_scalar
  <2>2. ASSUME NEW v PROVE Cardinality(In(v)) \in Nat
    <3>1. In(v) \subseteq 0 .. n - 1 /\ n \in Nat
      BY DEF Settled
    <3> HIDE DEF In
    <3> QED BY <3>1, Few
  <2> HIDE DEF In, r
  <2>3. DOMAIN r.partition = DOMAIN part
    BY <2>1
  <2>4. ASSUME NEW v \in 0 .. n_voxel PROVE r.partition[v] \in Int
    <3>1. r.partition[v] = IF v \in P2V(0, 1) .. P2V(0 + 1, 1) THEN 0 + Cardinality(In(v)) ELSE part[v]
      BY <2>1
    <3> QED BY <2>2, <3>1
  <2> QED BY <2>3, <2>4
<1> HIDE DEF r
<1>4. \A v \in 0 .. n_voxel : ClearGhosts(r.partition, n)[v] \in Int
  BY <1>3 DEF ClearGhosts, Settled
<1> QED BY <1>1, <1>2, <1>4 DEF SortsTo, r

(* The species sorted, in one go.                                          *)
AtOnce(s, q, part) ==
  /\ pc' = pc /\ p' = [p EXCEPT ![s] = q] /\ partition' = [partition EXCEPT ![s] = part]
  /\ \/ SortsTo(p[s], np(s), q, part)
     \/ deck.legacy /\ np(s) = 0 /\ q = p[s] /\ part = partition[s]
(* A sort in one go leaves the list sorted; the legacy one leaves an empty *)
(* one alone.                                                              *)
LEMMA SortAtOnce ==
  ASSUME IInv, NEW s \in Species, NEW back \in {"begin", "collide"}, pc = back, sort_p(s, back),
         deck.legacy \/ N_PIPELINE = 1
  PROVE  \E q, part : AtOnce(s, q, part)
<1>1. deck \in Decks
  BY DEF IInv, Ctl
<1>2. Settled(p[s], np(s)) /\ np(s) \in Nat
  BY SettledIs DEF L, Leaving
<1>3. Plain(p[s]) /\ DOMAIN p[s] = 0 .. np(s) - 1
      /\ DOMAIN partition[s] = 0 .. n_voxel /\ \A v \in 0 .. n_voxel : partition[s][v] \in Int
  BY DEF IInv, Domains, Plain
<1>4. CASE deck.legacy
  <2>1. /\ pc' = pc /\ p' = [p EXCEPT ![s] = legacy_sort_p(s).p]
        /\ partition' = [partition EXCEPT ![s] = legacy_sort_p(s).partition]
    BY <1>4 DEF sort_p
  <2>2. np(s) > 0 => SortsTo(p[s], np(s), legacy_sort_p(s).p, legacy_sort_p(s).partition)
    BY <1>1, <1>2, <1>3, LegacySorts
  <2>3. np(s) = 0 => legacy_sort_p(s).p = p[s] /\ legacy_sort_p(s).partition = partition[s]
    BY DEF legacy_sort_p
  <2>4. np(s) > 0 \/ np(s) = 0
    BY <1>2
  <2>5. AtOnce(s, legacy_sort_p(s).p, legacy_sort_p(s).partition)
    BY <1>4, <2>1, <2>2, <2>3, <2>4 DEF AtOnce
  <2> QED BY <2>5
<1>5. CASE ~ deck.legacy
  <2> DEFINE r == subsort_pipeline_scalar(p[s], aux', partition[s], 0, 0, np(s), 1)
             part == ClearGhosts(r.partition, np(s))
  <2>1. N_PIPELINE = 1
    BY <1>5
  <2>2. /\ pc' = pc /\ p' = [p EXCEPT ![s] = r.p] /\ partition' = [partition EXCEPT ![s] = part]
        /\ aux' = [i \in DOMAIN p[s] |-> Nobody]
    BY <1>5, <2>1 DEF sort_p
  <2>3. DOMAIN aux' = 0 .. np(s) - 1
    BY <1>3, <2>2
  <2>4. SortsTo(p[s], np(s), r.p, part)
    BY <1>1, <1>2, <1>3, <2>1, <2>3, OneSorts
  <2> HIDE DEF r, part
  <2>5. AtOnce(s, r.p, part)
    BY <2>2, <2>4 DEF AtOnce
  <2> QED BY <2>5
<1> QED BY <1>4, <1>5

(* What a sort of one species leaves to the others.                        *)
LEMMA AtOnceStep ==
  ASSUME IInv, Ctl', NEW s \in Species, pc \in {"begin", "collide"}, NEW q, NEW part,
         AtOnce(s, q, part), last_sorted' = [last_sorted EXCEPT ![s] = step],
         UNCHANGED <<deck, step, pm, nm, lost, seg, file>>
  PROVE  IInv'
<1>1. /\ pc' = pc /\ p' = [p EXCEPT ![s] = q] /\ partition' = [partition EXCEPT ![s] = part]
      /\ \/ SortsTo(p[s], np(s), q, part)
         \/ deck.legacy /\ np(s) = 0 /\ q = p[s] /\ part = partition[s]
  BY DEF AtOnce
<1>2. deck \in Decks /\ Domains /\ step \in Int
  BY DEF IInv, Ctl
<1>3. Settled(p[s], np(s)) /\ np(s) \in Nat
  BY SettledIs DEF L, Leaving
<1>4. Plain(p[s]) /\ DOMAIN p[s] = 0 .. np(s) - 1
      /\ DOMAIN partition[s] = 0 .. n_voxel /\ \A v \in 0 .. n_voxel : partition[s][v] \in Int
  BY <1>2 DEF Domains, Plain
<1>5. Plain(q) /\ DOMAIN q = 0 .. np(s) - 1 /\ Reordered(p[s], q, np(s))
      /\ DOMAIN part = 0 .. n_voxel /\ \A v \in 0 .. n_voxel : part[v] \in Int
  <2>1. CASE SortsTo(p[s], np(s), q, part)
    <3>1. Plain(q) /\ Reordered(p[s], q, np(s)) /\ DOMAIN part = 0 .. n_voxel
          /\ \A v \in 0 .. n_voxel : part[v] \in Int
      BY <2>1 DEF SortsTo, SortedOut
    <3> QED BY <3>1 DEF Reordered, Reorders
  <2>2. CASE q = p[s] /\ part = partition[s]
    <3>1. Reordered(p[s], p[s], np(s))
      BY <1>4, ReorderedSame
    <3> QED BY <1>4, <2>2, <3>1
  <2> QED BY <1>1, <2>1, <2>2
<1>6. Lists0 /\ p'[s] = q /\ \A t \in Species : t # s => p'[t] = p[t]
  BY <1>1, <1>2, <1>5, OneList
<1>7. Parts0 /\ partition'[s] = part /\ last_sorted'[s] = step
      /\ \A t \in Species : t # s => partition'[t] = partition[t] /\ last_sorted'[t] = last_sorted[t]
  <2>1. /\ partition = [t \in Species |-> partition[t]]
        /\ last_sorted = [t \in Species |-> last_sorted[t]]
        /\ \A t \in Species :
             /\ DOMAIN partition[t] = 0 .. n_voxel /\ \A v \in 0 .. n_voxel : partition[t][v] \in Int
             /\ last_sorted[t] \in Int /\ last_sorted[t] <= step
    BY <1>2 DEF Domains
  <2>2. /\ partition' = [t \in Species |-> partition'[t]]
        /\ last_sorted' = [t \in Species |-> last_sorted'[t]]
        /\ partition'[s] = part /\ last_sorted'[s] = step
        /\ \A t \in Species : t # s => partition'[t] = partition[t] /\ last_sorted'[t] = last_sorted[t]
    BY <1>1, <2>1
  <2>3. ASSUME NEW t \in Species
        PROVE  /\ DOMAIN partition'[t] = 0 .. n_voxel /\ \A v \in 0 .. n_voxel : partition'[t][v] \in Int
               /\ last_sorted'[t] \in Int /\ last_sorted'[t] <= step
    <3>1. CASE t = s
      BY <1>2, <1>5, <2>2, <3>1
    <3>2. CASE t # s
      BY <2>1, <2>2, <3>2
    <3> QED BY <3>1, <3>2
  <2> QED BY <2>2, <2>3 DEF Parts0
<1>8. Domains'
  BY <1>1, <1>2, <1>6, <1>7, KeptDomains DEF Domains
<1>9. ASSUME NEW t \in Species
      PROVE  np(t)' = np(t) /\ Same(L(t), L(t)', np(t)) /\ L(t) = p[t] /\ L(t)' = p'[t]
  <2>1. np(t)' = np(t) /\ L(t)' = p'[t] /\ L(t) = p[t]
    BY <1>1, <1>6 DEF Lists0, L
  <2>2. List(L(t), np(t))
    BY DEF IInv, Census
  <2>3. CASE t = s
    BY <1>5, <1>6, <2>1, <2>2, <2>3, SameReordered
  <2>4. CASE t # s
    BY <1>6, <2>1, <2>2, <2>4, SameSelf
  <2> QED BY <2>1, <2>3, <2>4
<1>10. Census' /\ Momenta' /\ Places'
  BY <1>1, <1>9, SettledStep DEF Settling
<1>11. Brackets'
  <2>1. Species' = Species /\ \A a, pt : Bracketed(a, pt)' <=> Bracketed(a, pt)
    BY SameDeck, SameSort
  <2>2. \A t \in Species : last_sorted[t] = step /\ ~ (deck.legacy /\ np(t) = 0)
                             => Bracketed(p[t], partition[t])
    BY DEF IInv, Brackets, Sorting
  <2>3. (deck.legacy /\ np(s) = 0) \/ Bracketed(q, part)
    BY <1>1 DEF SortsTo, SortedOut
  <2>4. \A t \in Species : last_sorted'[t] = step' /\ ~ (deck'.legacy /\ np(t)' = 0)
                             => Bracketed(p'[t], partition'[t])
    BY <1>6, <1>7, <1>9, <2>2, <2>3
  <2> QED BY <1>1, <2>1, <2>4 DEF Brackets
<1>12. Files'
  <2>1. Species' = Species
    BY SameDeck
  <2>2. pc = "begin" => \A t \in Species : FileOf(file[t], np(t), Ids(L(t)), 2 * step)
    BY DEF IInv, Files
  <2>3. \A t \in Species : Ids(L(t)') = Ids(L(t))
    BY <1>9 DEF Same
  <2>4. pc = "begin" => \A t \in Species : FileOf(file'[t], np(t)', Ids(L(t)'), 2 * step')
    BY <1>9, <2>2, <2>3
  <2> QED BY <1>1, <2>1, <2>4 DEF Files, Sorting
<1>13. Passes' /\ Sums'
  BY <1>1 DEF Passes, Sums
<1> QED BY <1>8, <1>10, <1>11, <1>12, <1>13 DEF IInv

(* The threaded sort, called.                                              *)
LEMMA ThreadedStart ==
  ASSUME IInv, Ctl', NEW s \in Species, NEW back \in {"begin", "collide"}, pc = back, sort_p(s, back),
         ~ (deck.legacy \/ N_PIPELINE = 1), UNCHANGED <<deck, step, pm, nm, lost, seg, file>>
  PROVE  IInv'
<1>1. /\ pc' = "coarse_count" /\ todo' = Pipelines /\ p' = p /\ partition' = partition
      /\ last_sorted' = [last_sorted EXCEPT ![s] = step]
      /\ aux' = [i \in DOMAIN p[s] |-> Nobody]
      /\ coarse_partition' = [k \in 0 .. cp_stride * N_PIPELINE |-> -1]
      /\ call' = [k |-> back, s |-> s]
  BY DEF sort_p
<1>2. deck \in Decks /\ Domains /\ step \in Int
  BY DEF IInv, Ctl
<1>3. Lists0
  BY <1>1, <1>2, KeptLists
<1>4. Parts0 /\ \A t \in Species : t # s => last_sorted'[t] = last_sorted[t]
  <2>1. /\ last_sorted = [t \in Species |-> last_sorted[t]]
        /\ \A t \in Species : last_sorted[t] \in Int /\ last_sorted[t] <= step
    BY <1>2 DEF Domains
  <2>2. /\ last_sorted' = [t \in Species |-> last_sorted'[t]] /\ last_sorted'[s] = step
        /\ \A t \in Species : t # s => last_sorted'[t] = last_sorted[t]
    BY <1>1, <2>1
  <2>3. \A t \in Species : last_sorted'[t] \in Int /\ last_sorted'[t] <= step
    BY <1>2, <2>1, <2>2
  <2> QED BY <1>1, <1>2, <2>2, <2>3 DEF Domains, Parts0
<1>5. Domains'
  BY <1>1, <1>2, <1>3, <1>4, KeptDomains DEF Domains
<1>6. \A t \in Species : np(t)' = np(t) /\ L(t)' = L(t) /\ Same(L(t), L(t)', np(t))
  BY <1>1, StillLists
<1>7. Census' /\ Momenta' /\ Places'
  BY <1>1, <1>6, SettledStep DEF Settling
<1>8. Passes'
  <2>1. DOMAIN aux' = 0 .. np(s) - 1 /\ np(s)' = np(s)
    BY <1>1, <1>2, <1>6 DEF Domains
  <2>2. N_PIPELINE' = N_PIPELINE /\ Pipelines' = Pipelines /\ cp_stride' = cp_stride
    BY SameDeck
  <2>3. \A q, n, cp : CountedBy(q, n, cp, {})'
    BY DEF CountedBy
  <2>4. Pipelines' \ todo' = {} /\ call'.s = s
    BY <1>1, <2>2
  <2> QED BY <1>1, <2>1, <2>2, <2>3, <2>4 DEF Passes
<1>9. Brackets'
  <2>1. Species' = Species /\ \A a, pt : Bracketed(a, pt)' <=> Bracketed(a, pt)
    BY SameDeck, SameSort
  <2>2. \A t \in Species : last_sorted[t] = step /\ ~ (deck.legacy /\ np(t) = 0)
                             => Bracketed(p[t], partition[t])
    BY DEF IInv, Brackets, Sorting
  <2>3. call'.s = s
    BY <1>1
  <2>4. \A t \in Species : last_sorted'[t] = step' /\ t # s /\ ~ (deck'.legacy /\ np(t)' = 0)
                             => Bracketed(p'[t], partition'[t])
    BY <1>1, <1>4, <1>6, <2>2
  <2> QED BY <1>1, <2>1, <2>3, <2>4 DEF Brackets, Sorting
<1>10. Files'
  <2>1. Species' = Species
    BY SameDeck
  <2>2. pc = "begin" => \A t \in Species : FileOf(file[t], np(t), Ids(L(t)), 2 * step)
    BY DEF IInv, Files
  <2>3. pc = "begin" => \A t \in Species : FileOf(file'[t], np(t)', Ids(L(t)'), 2 * step')
    BY <1>6, <2>2
  <2> QED BY <1>1, <2>1, <2>3 DEF Files, Sorting
<1>11. Sums'
  BY <1>1 DEF Sums
<1> QED BY <1>5, <1>7, <1>8, <1>9, <1>10, <1>11 DEF IInv

(* A species sorted in one go, or its threaded sort begun.                 *)
LEMMA SortCallStep ==
  ASSUME IInv, Ctl', NEW s \in Species, NEW back \in {"begin", "collide"}, pc = back, sort_p(s, back),
         UNCHANGED <<deck, step, pm, nm, lost, seg, file>>
  PROVE  IInv'
<1>1. CASE deck.legacy \/ N_PIPELINE = 1
  <2>1. PICK q, part : AtOnce(s, q, part)
    BY <1>1, SortAtOnce
  <2>2. last_sorted' = [last_sorted EXCEPT ![s] = step]
    BY DEF sort_p
  <2> QED BY <2>1, <2>2, AtOnceStep
<1>2. CASE ~ (deck.legacy \/ N_PIPELINE = 1)
  BY <1>2, ThreadedStart
<1> QED BY <1>1, <1>2

-----------------------------------------------------------------------------
(* The collisions.                                                         *)

(* The lists as they were but for what has been collided, and the order    *)
(* within the voxels.                                                      *)
Collides ==
  /\ pc \in {"begin", "collide", "colliding"} /\ pc' \in {"collide", "colliding"}
  /\ UNCHANGED <<deck, step, pm, nm, lost, seg, partition, last_sorted>>
  /\ p' = [s \in Species |-> p'[s]]
  /\ \A s \in Species : /\ Same(p[s], p'[s], np(s)) /\ Plain(p'[s])
                        /\ \A i \in 0 .. np(s) - 1 : p'[s][i].i = p[s][i].i
(* A shuffle within the voxels keeps the invariant.                        *)
LEMMA CollidesStep ==
  ASSUME IInv, Ctl', Collides
  PROVE  IInv'
<1>1. /\ pc \in {"begin", "collide", "colliding"} /\ pc' \in {"collide", "colliding"}
      /\ UNCHANGED <<deck, step, pm, nm, lost, seg, partition, last_sorted>>
      /\ p' = [s \in Species |-> p'[s]]
      /\ \A s \in Species : /\ Same(p[s], p'[s], np(s)) /\ Plain(p'[s])
                            /\ \A i \in 0 .. np(s) - 1 : p'[s][i].i = p[s][i].i
  BY DEF Collides
<1>2. deck \in Decks /\ Domains
  BY DEF IInv, Ctl
<1>3. ASSUME NEW s \in Species
      PROVE  np(s)' = np(s) /\ DOMAIN p'[s] = 0 .. np(s) - 1 /\ DOMAIN p[s] = 0 .. np(s) - 1
             /\ L(s) = p[s] /\ L(s)' = p'[s]
  <2>1. DOMAIN p'[s] = 0 .. np(s) - 1 /\ DOMAIN p[s] = 0 .. np(s) - 1
    BY <1>1, <1>2 DEF Same, List, Domains
  <2> QED BY <1>1, <2>1 DEF np, L
<1>4. Lists0
  BY <1>1, <1>3 DEF Lists0
<1>5. Domains'
  BY <1>1, <1>2, <1>4, KeptParts, KeptDomains DEF Domains
<1>6. Census' /\ Momenta' /\ Places'
  BY <1>1, <1>3, SettledStep DEF Settling
<1>7. Brackets'
  <2>1. Species' = Species /\ \A a, pt : Bracketed(a, pt)' <=> Bracketed(a, pt)
    BY <1>1, SameDeck, SameSort
  <2>2. \A t \in Species : last_sorted[t] = step /\ ~ (deck.legacy /\ np(t) = 0)
                             => Bracketed(p[t], partition[t])
    BY <1>1 DEF IInv, Brackets, Sorting
  <2>3. ASSUME NEW t \in Species, Bracketed(p[t], partition[t]) PROVE Bracketed(p'[t], partition[t])
    <3>1. \A v : {i \in DOMAIN p'[t] : p'[t][i].i = v} = {i \in DOMAIN p[t] : p[t][i].i = v}
      BY <1>1, <1>3
    <3> QED BY <2>3, <3>1 DEF Bracketed
  <2>4. \A t \in Species : last_sorted'[t] = step' /\ ~ (deck'.legacy /\ np(t)' = 0)
                             => Bracketed(p'[t], partition'[t])
    BY <1>1, <1>3, <2>2, <2>3
  <2> QED BY <1>1, <2>1, <2>4 DEF Brackets
<1>8. Passes' /\ Sums' /\ Files'
  BY <1>1 DEF Passes, Sums, Files, Sorting
<1> QED BY <1>5, <1>6, <1>7, <1>8 DEF IInv

(* A list with nothing changed but how much was collided.                  *)
OnlyC(q, n, b) ==
  /\ DOMAIN b = 0 .. n - 1
  /\ \A i \in 0 .. n - 1 : \E c : b[i] = [q[i] EXCEPT !.c = c]
SameAt(q, n, b) == \A i \in 0 .. n - 1 : b[i].i = q[i].i
(* Such a list has the same particles in the same places.                  *)
LEMMA OnlyCIs ==
  ASSUME NEW q, NEW n, List(q, n), NEW b, OnlyC(q, n, b)
  PROVE  Same(q, b, n) /\ SameAt(q, n, b)
<1>1. ASSUME NEW i \in 0 .. n - 1
      PROVE  Whole(b[i]) /\ b[i].id = q[i].id /\ b[i].i = q[i].i /\ b[i].t = q[i].t
  <2>1. PICK c : b[i] = [q[i] EXCEPT !.c = c]
    BY DEF OnlyC
  <2>2. q[i] = [id |-> q[i].id, i |-> q[i].i, t |-> q[i].t, c |-> q[i].c]
    BY DEF List, Whole
  <2>3. b[i] = [id |-> q[i].id, i |-> q[i].i, t |-> q[i].t, c |-> c]
    BY <2>1, <2>2
  <2> QED BY <2>3 DEF Whole
<1>2. Alter(q, b, n)
  <2>1. n \in Nat /\ DOMAIN b = 0 .. n - 1
    BY DEF List, OnlyC
  <2>2. \A i, j \in 0 .. n - 1 : b[i].id = b[j].id => i = j
    BY <1>1 DEF List
  <2> QED BY <1>1, <2>1, <2>2 DEF Alter, List
<1>3. Ids(b) = Ids(q)
  BY <1>2, AlterIds
<1> QED BY <1>1, <1>2, <1>3 DEF Same, Alter, SameAt

(* To leave every list alone is one such shuffle.                          *)
LEMMA CollidesSame ==
  ASSUME IInv, p' = p, pc \in {"begin", "collide", "colliding"}, pc' \in {"collide", "colliding"},
         UNCHANGED <<deck, step, pm, nm, lost, seg, partition, last_sorted>>
  PROVE  Collides
<1>1. \A s \in Species : Same(L(s), L(s)', np(s)) /\ L(s) = p[s] /\ L(s)' = p[s]
  BY StillLists DEF L
<1>2. p' = [s \in Species |-> p'[s]] /\ \A s \in Species : Plain(p[s])
  BY DEF IInv, Domains, Plain
<1> QED BY <1>1, <1>2 DEF Collides

(* The start of a step: sorts that are due, and collisions.                *)
LEMMA BeginStep ==
  ASSUME IInv, Ctl', Begin
  PROVE  IInv'
<1> DEFINE due == {s \in Species : /\ deck.species[s].sort_interval > 0
                                   /\ step % deck.species[s].sort_interval = 0
                                   /\ last_sorted[s] # step}
<1>1. CASE due # {}
  <2>1. due \subseteq Nat
    BY DeckIs DEF IInv, Ctl
  <2>2. Min(due) \in due
    <3> HIDE DEF due
    <3> QED BY <1>1, <2>1, MinOf
  <2>3. PICK s \in Species : sort_p(s, "begin")
    <3>1. sort_p(Min(due), "begin")
      BY <1>1, Zenon DEF Begin
    <3>2. Min(due) \in Species
      BY <2>2
    <3> QED BY <3>1, <3>2
  <2>4. pc = "begin" /\ UNCHANGED <<deck, step, pm, nm, lost, seg, file>>
    BY DEF Begin
  <2> QED BY <2>3, <2>4, SortCallStep
<1>2. CASE due = {}
  <2>1. pc = "begin" /\ pc' = "collide" /\ p' = p
        /\ UNCHANGED <<deck, step, pm, nm, lost, seg, partition, last_sorted>>
    BY <1>2 DEF Begin, sortVars
  <2>2. Collides
    BY <2>1, CollidesSame
  <2> QED BY <2>2, CollidesStep
<1> QED BY <1>1, <1>2

(* All ranks through with an operator, the next one.                       *)
LEMMA CollidedStep ==
  ASSUME IInv, Ctl', Collided
  PROVE  IInv'
<1>1. pc = "colliding" /\ pc' = "collide" /\ p' = p
      /\ UNCHANGED <<deck, step, pm, nm, lost, seg, partition, last_sorted>>
  BY DEF Collided, sortVars
<1>2. Collides
  BY <1>1, CollidesSame
<1> QED BY <1>2, CollidesStep

(* From the collisions to the advance.                                     *)
LEMMA CollideAdvance ==
  ASSUME IInv, Ctl', Collide, op > Len(deck.ops)
  PROVE  IInv'
<1>1. /\ pc = "collide" /\ pc' = "advance_p" /\ todo' = 0 .. N_PIPELINE /\ call'.s = 1
      /\ Still /\ seg' = seg
  <2>1. PICK m \in deck.motions :
          /\ pc' = "advance_p" /\ todo' = 0 .. N_PIPELINE
          /\ call' = [k |-> "advance_p", s |-> 1, motion |-> m]
          /\ UNCHANGED <<p, sortVars, op>>
    BY DEF Collide
  <2> QED BY <2>1 DEF Collide, sortVars, Still
<1>2. deck \in Decks /\ step \in Int
  BY DEF IInv, Ctl
<1>3. Domains'
  <2>1. seg' = [r \in 0 .. N_PIPELINE |-> seg'[r]]
    BY <1>1 DEF IInv, Domains
  <2> QED BY <1>1, <2>1, StillDomains
<1>4. \A s \in Species : np(s)' = np(s) /\ L(s)' = p[s] /\ L(s) = p[s] /\ p'[s] = p[s]
  BY <1>1 DEF np, L, Still
<1>5. Species' = Species /\ Box' = Box /\ Ever' = Ever /\ N_PIPELINE' = N_PIPELINE
  BY <1>1, SameDeck DEF Ever, Still
<1>6. Census'
  <2>1. \A s \in Species : /\ List(L(s), np(s))
                            /\ Listed(Ids(L(s)), lost[s], Ever, deck.newId, deck.loaded[s])
    BY DEF IInv, Census
  <2>2. \A s \in Species : L(s)' = L(s)
    BY <1>4
  <2>3. deck' = deck /\ lost' = lost
    BY <1>1 DEF Still
  <2> QED BY <1>4, <1>5, <2>1, <2>2, <2>3 DEF Census
<1>7. \A s \in Species : \A i : ~ Reached(s, i)'
  <2>1. Species \subseteq 1 .. Len(deck.species) /\ Len(deck.species) \in Nat
    BY <1>2, DeckIs DEF Species
  <2>2. \A s \in Species : ~ (s < 1)
    BY <2>1
  <2>3. (0 .. N_PIPELINE') \ todo' = {}
    BY <1>1, <1>5
  <2> QED BY <1>1, <1>5, <2>2, <2>3 DEF Reached
<1>8. Momenta'
  <2>1. \A s \in Species : \A i \in 0 .. np(s) - 1 : p[s][i].t = 2 * step - 1
    BY <1>1, <1>4 DEF IInv, Momenta, Settling
  <2>2. 2 * step - 1 = 2 * step + -1
    BY <1>2
  <2> QED BY <1>1, <1>4, <1>5, <1>7, <2>1, <2>2 DEF Momenta, Still, Leaving, Settling
<1>9. Places'
  <2>1. \A s \in Species : nm[s] = 0 /\ \A i \in 0 .. np(s) - 1 : p[s][i].i \in Box
    BY <1>1, <1>4 DEF IInv, Places, Leaving, Boxed
  <2>2. \A s \in Species : ~ (s < call'.s)
    <3>1. Species \subseteq 1 .. Len(deck.species) /\ Len(deck.species) \in Nat
      BY <1>2, DeckIs DEF Species
    <3> QED BY <1>1, <3>1
  <2>3. (0 .. N_PIPELINE') \ todo' = {}
    BY <1>1, <1>5
  <2> QED BY <1>1, <1>4, <1>5, <2>1, <2>2, <2>3 DEF Places, Leaving, Still
<1>10. Passes' /\ Brackets' /\ Sums' /\ Files'
  BY <1>1 DEF Passes, Brackets, Sums, Files, Sorting
<1> QED BY <1>3, <1>6, <1>8, <1>9, <1>10 DEF IInv

(* The host starts an operator, sorts for it, or is done with them.        *)
LEMMA CollideStep ==
  ASSUME IInv, Ctl', Collide
  PROVE  IInv'
<1>1. CASE op > Len(deck.ops)
  BY <1>1, CollideAdvance
<1>2. CASE ~ (op > Len(deck.ops))
  <2> DEFINE o == deck.ops[op]
             stale == {s \in {o.i, o.j} : last_sorted[s] # step}
  <2>1. pc = "collide" /\ UNCHANGED <<deck, step, pm, nm, seg, lost, file>>
    BY DEF Collide
  <2>2. o.i \in Species /\ o.j \in Species
    <3>1. op \in 1 .. Len(deck.ops) /\ deck \in Decks
      BY <1>2, OpIs DEF IInv, Ctl
    <3> QED BY <3>1, OpIs
  <2>3. CASE step % o.interval # 0
    <3>1. p' = p /\ pc' = pc /\ UNCHANGED <<partition, last_sorted>>
      BY <1>2, <2>3 DEF Collide, sortVars
    <3>2. Collides
      BY <2>1, <3>1, CollidesSame
    <3> QED BY <3>2, CollidesStep
  <2>4. CASE step % o.interval = 0 /\ o.kind # "unary" /\ stale # {}
    <3>1. sort_p(IF o.i \in stale THEN o.i ELSE o.j, "collide")
      BY <1>2, <2>4 DEF Collide
    <3>2. PICK s \in Species : sort_p(s, "collide")
      <4>1. (IF o.i \in stale THEN o.i ELSE o.j) \in Species
        BY <2>2
      <4> HIDE DEF stale, o
      <4> QED BY <3>1, <4>1
    <3> QED BY <2>1, <3>2, SortCallStep
  <2>5. CASE step % o.interval = 0 /\ ~ (o.kind # "unary" /\ stale # {})
    <3>1. /\ pc' = "colliding" /\ UNCHANGED <<partition, last_sorted>>
          /\ p' = [s \in Species |-> [i \in DOMAIN p[s] |-> [p[s][i] EXCEPT !.c = 0]]]
      BY <1>2, <2>5 DEF Collide, sortVars
    <3>2. ASSUME NEW s \in Species
          PROVE  /\ Same(p[s], p'[s], np(s)) /\ Plain(p'[s])
                 /\ \A i \in 0 .. np(s) - 1 : p'[s][i].i = p[s][i].i
      <4>1. List(p[s], np(s))
        BY <2>1 DEF IInv, Census, L
      <4>2. p'[s] = [i \in DOMAIN p[s] |-> [p[s][i] EXCEPT !.c = 0]]
        BY <3>1
      <4>3. Plain(p'[s])
        BY <4>2 DEF Plain
      <4>4. OnlyC(p[s], np(s), p'[s])
        BY <4>1, <4>2 DEF OnlyC, List
      <4> QED BY <4>1, <4>3, <4>4, OnlyCIs DEF SameAt
    <3>3. p' = [s \in Species |-> p'[s]]
      BY <3>1
    <3>4. Collides
      BY <2>1, <3>1, <3>2, <3>3 DEF Collides
    <3> QED BY <3>4, CollidesStep
  <2> QED BY <2>3, <2>4, <2>5
<1> QED BY <1>1, <1>2

(* A particle that keeps what it collided is itself.                       *)
LEMMA KeepC ==
  ASSUME NEW x, Whole(x)
  PROVE  x = [x EXCEPT !.c = x.c]
  BY DEF Whole
(* A rank's share of an operator on single particles (unary.cc).           *)
LEMMA UnaryStep ==
  ASSUME IInv, Ctl', NEW rank \in 0 .. N_PIPELINE, colliding(rank), deck.ops[op].kind = "unary"
  PROVE  IInv'
<1> DEFINE o == deck.ops[op]
           mine == Cut(np(o.i), rank, N_PIPELINE) .. Cut(np(o.i), rank + 1, N_PIPELINE) - 1
           q == p[o.i]
           n == np(o.i)
           b == [i \in DOMAIN q |-> IF i \in mine THEN [q[i] EXCEPT !.c = @ + 2] ELSE q[i]]
<1>1. /\ pc = "colliding" /\ pc' = pc /\ p' = [p EXCEPT ![o.i] = b]
      /\ UNCHANGED <<deck, step, pm, nm, lost, seg, partition, last_sorted>>
  BY DEF colliding, unary_pipeline_scalar, sortVars
<1>2. o.i \in Species /\ Domains
  <2>1. op \in 1 .. Len(deck.ops) /\ deck \in Decks
    BY <1>1, OpIs DEF IInv, Ctl
  <2> QED BY <2>1, OpIs, Zenon DEF IInv
<1>3. ASSUME NEW s \in Species
      PROVE  List(p[s], np(s)) /\ Plain(p[s]) /\ Same(p[s], p[s], np(s))
  <2>1. List(p[s], np(s)) /\ Plain(p[s])
    BY <1>1, <1>2 DEF IInv, Census, L, Domains, Plain
  <2> QED BY <2>1, SameSelf, Zenon
<1>4. DOMAIN q = 0 .. n - 1
  BY <1>2 DEF Domains
<1>5. OnlyC(q, n, b)
  <2>1. DOMAIN b = 0 .. n - 1
    BY <1>4
  <2>2. ASSUME NEW i \in 0 .. n - 1 PROVE \E c : b[i] = [q[i] EXCEPT !.c = c]
    <3>1. b[i] = IF i \in mine THEN [q[i] EXCEPT !.c = q[i].c + 2] ELSE q[i]
      BY <1>4
    <3>2. q[i] = [q[i] EXCEPT !.c = q[i].c]
      <4>1. Whole(q[i])
        BY <1>2, <1>3 DEF List
      <4> QED BY <4>1, KeepC
    <3> HIDE DEF b, mine, q
    <3>3. CASE i \in mine
      BY <3>1, <3>3
    <3>4. CASE i \notin mine
      BY <3>1, <3>2, <3>4
    <3> QED BY <3>3, <3>4
  <2> HIDE DEF b
  <2> QED BY <2>1, <2>2 DEF OnlyC
<1>6. Plain(b)
  BY DEF Plain
<1> HIDE DEF b
<1>7. Same(q, b, n) /\ \A i \in 0 .. n - 1 : b[i].i = q[i].i
  BY <1>2, <1>3, <1>5, OnlyCIs DEF SameAt
<1>8. p' = [s \in Species |-> p'[s]] /\ p'[o.i] = b /\ \A s \in Species : s # o.i => p'[s] = p[s]
  <2>1. p = [s \in Species |-> p[s]]
    BY <1>2 DEF Domains
  <2> QED BY <1>1, <1>2, <2>1
<1>9. Collides
  <2>1. ASSUME NEW s \in Species
        PROVE  /\ Same(p[s], p'[s], np(s)) /\ Plain(p'[s])
               /\ \A i \in 0 .. np(s) - 1 : p'[s][i].i = p[s][i].i
    <3>1. CASE s = o.i
      BY <1>6, <1>7, <1>8, <3>1
    <3>2. CASE s # o.i
      BY <1>3, <1>8, <3>2
    <3> QED BY <3>1, <3>2
  <2> QED BY <1>1, <1>8, <2>1 DEF Collides
<1> QED BY <1>9, CollidesStep, Zenon

(* The other operators shuffle and count.                                  *)
LEMMA PairStep ==
  ASSUME IInv, Ctl', NEW rank \in 0 .. N_PIPELINE, colliding(rank), deck.ops[op].kind # "unary"
  PROVE  IInv'
<1> DEFINE o == deck.ops[op]
           n == np(o.i)
<1>1. /\ pc = "colliding" /\ pc' = pc
      /\ UNCHANGED <<deck, step, pm, nm, lost, seg, partition, last_sorted>>
  BY Zenon DEF colliding, sortVars
<1>2. /\ o.i \in Species /\ o.j \in Species /\ Domains /\ deck \in Decks
      /\ last_sorted[o.i] = step
  <2>1. Ctl /\ Domains
    BY Zenon DEF IInv
  <2>2. deck \in Decks /\ op \in Nat \ {0} /\ op <= Len(deck.ops) /\ last_sorted[o.i] = step
    BY <1>1, <2>1, Zenon DEF Ctl
  <2>3. Len(deck.ops) \in Nat
    BY <2>2, OpIs, Zenon
  <2>4. op \in 1 .. Len(deck.ops)
    BY <2>2, <2>3
  <2> QED BY <2>1, <2>2, <2>4, OpIs, Zenon
<1>3. PICK d \in deck.draws :
        LET r == IF o.kind = "takizuka_abe"
                   THEN takizuka_abe_pipeline_scalar(o, rank, d)
                   ELSE binary_pipeline_scalar(o, rank, {d})
            q == [p EXCEPT ![o.i] = r.p]
            times(s, i) ==
              Sum({1, 2}, [w \in {1, 2} |->
                LET of == IF w = 1 THEN r.half ELSE r.full
                IN w * (Cardinality({x \in of : s = o.i /\ x[1] = i})
                        + Cardinality({x \in of : s = o.j /\ x[2] = i}))])
        IN p' = [s \in Species |-> [i \in DOMAIN q[s] |-> [q[s][i] EXCEPT !.c = @ + times(s, i)]]]
  BY DEF colliding
<1> DEFINE r == IF o.kind = "takizuka_abe"
                  THEN takizuka_abe_pipeline_scalar(o, rank, d)
                  ELSE binary_pipeline_scalar(o, rank, {d})
           q == [p EXCEPT ![o.i] = r.p]
           times(s, i) ==
             Sum({1, 2}, [w \in {1, 2} |->
               LET of == IF w = 1 THEN r.half ELSE r.full
               IN w * (Cardinality({x \in of : s = o.i /\ x[1] = i})
                       + Cardinality({x \in of : s = o.j /\ x[2] = i}))])
<1>4. p' = [s \in Species |-> [i \in DOMAIN q[s] |-> [q[s][i] EXCEPT !.c = @ + times(s, i)]]]
  BY <1>3
<1>5. ASSUME NEW s \in Species
      PROVE  List(p[s], np(s)) /\ Plain(p[s]) /\ DOMAIN p[s] = 0 .. np(s) - 1 /\ np(s) \in Nat
  BY <1>1, <1>2 DEF IInv, Census, L, Domains, Plain
<1>6. n = 0 \/ Bracketed(p[o.i], partition[o.i])
  BY <1>1, <1>2 DEF IInv, Brackets, Sorting
<1>7. r.p \in Mixed(p[o.i], n)
  <2>1. d \in Nat
    BY <1>2, DeckIs
  <2>2. \A v \in 0 .. n_voxel : partition[o.i][v] \in Int
    BY <1>2 DEF Domains
  <2>3. p[o.i] = [i \in DOMAIN p[o.i] |-> p[o.i][i]]
    BY <1>2, <1>5 DEF Plain
  <2>4. takizuka_abe_pipeline_scalar(o, rank, d).p \in Mixed(p[o.i], n)
    BY <1>2, <1>5, <1>6, <2>1, <2>2, <2>3, CollidedList
  <2>5. p[o.i] \in Mixed(p[o.i], n)
    BY <1>2, <1>5, <2>3, MixedSelf
  <2>6. binary_pipeline_scalar(o, rank, {d}).p = p[o.i]
    BY DEF binary_pipeline_scalar
  <2> QED BY <2>4, <2>5, <2>6
<1> HIDE DEF r, times
<1>8. DOMAIN p = Species
  BY <1>2 DEF Domains
<1>9. ASSUME NEW s \in Species
      PROVE  /\ Same(p[s], q[s], np(s)) /\ List(q[s], np(s))
             /\ \A i \in 0 .. np(s) - 1 : q[s][i].i = p[s][i].i
  <2>1. CASE s = o.i
    <3>1. q[s] = r.p
      BY <1>8, <2>1
    <3>2. Reordered(p[s], r.p, np(s)) /\ \A i \in 0 .. np(s) - 1 : r.p[i].i = p[s][i].i
      BY <1>7, <2>1 DEF Mixed
    <3>3. Same(p[s], r.p, np(s)) /\ List(r.p, np(s))
      <4>1. List(p[s], np(s))
        BY <1>5
      <4>2. Same(p[s], r.p, np(s))
        BY <3>2, <4>1, SameReordered
      <4> QED BY <4>2 DEF Same
    <3> QED BY <3>1, <3>2, <3>3
  <2>2. CASE s # o.i
    <3>1. q[s] = p[s]
      BY <1>8, <2>2
    <3>2. Same(p[s], p[s], np(s))
      BY <1>5, SameSelf
    <3> QED BY <1>5, <3>1, <3>2
  <2> QED BY <2>1, <2>2
<1> HIDE DEF q
<1>10. ASSUME NEW s \in Species
       PROVE  /\ Same(p[s], p'[s], np(s)) /\ Plain(p'[s])
              /\ \A i \in 0 .. np(s) - 1 : p'[s][i].i = p[s][i].i
  <2> DEFINE a == q[s]
             b == p'[s]
             m == np(s)
  <2>1. b = [i \in DOMAIN a |-> [a[i] EXCEPT !.c = @ + times(s, i)]]
    BY <1>4
  <2>2. List(a, m) /\ DOMAIN a = 0 .. m - 1
    BY <1>9 DEF List
  <2>3. Plain(b)
    BY <2>1 DEF Plain
  <2> HIDE DEF a, b, m
  <2>4. OnlyC(a, m, b)
    BY <2>1, <2>2 DEF OnlyC
  <2>5. Same(a, b, m) /\ \A i \in 0 .. m - 1 : b[i].i = a[i].i
    <3>1. Same(a, b, m)
      BY <2>2, <2>4, OnlyCIs
    <3>2. SameAt(a, m, b)
      BY <2>2, <2>4, OnlyCIs
    <3> QED BY <3>1, <3>2 DEF SameAt
  <2>6. Same(p[s], a, m) /\ \A i \in 0 .. m - 1 : a[i].i = p[s][i].i
    BY <1>9 DEF a, m
  <2>7. \A j \in 0 .. m - 1 : \E i \in 0 .. m - 1 : b[j].i = p[s][i].i /\ b[j].t = p[s][i].t
    BY <2>5, <2>6 DEF Same
  <2>8. Same(p[s], b, m)
    BY <2>5, <2>6, <2>7 DEF Same
  <2>9. \A i \in 0 .. m - 1 : b[i].i = p[s][i].i
    BY <2>5, <2>6
  <2> QED BY <2>3, <2>8, <2>9 DEF b, m
<1>11. p' = [s \in Species |-> p'[s]]
  <2> DEFINE e(s) == [i \in DOMAIN q[s] |-> [q[s][i] EXCEPT !.c = @ + times(s, i)]]
  <2>1. p' = [s \in Species |-> e(s)]
    BY <1>4
  <2> HIDE DEF e
  <2> QED BY <2>1
<1>12. Collides
  BY <1>1, <1>10, <1>11 DEF Collides
<1> QED BY <1>12, CollidesStep, Zenon

-----------------------------------------------------------------------------
(* The advance, rank by rank.                                              *)

(* What other ranks do leaves a rank's segment alone.                      *)
LEMMA SegmentKept ==
  ASSUME NEW q, NEW list, NEW S, NEW room, NEW g, Segment(q, list, S, room, g),
         NEW b, \A i \in S : b[i] = q[i],
         NEW new, \A k \in 0 .. g.nm - 1 : new[room.i + k] = list[room.i + k]
  PROVE  Segment(b, new, S, room, g)
<1>1. /\ g.pm = room.i /\ g.nm \in Nat /\ g.nm <= room.n
      /\ \A k \in 0 .. g.nm - 1 : new[room.i + k] \in S
      /\ \A k, l \in 0 .. g.nm - 1 : k < l => new[room.i + k] < new[room.i + l]
  BY DEF Segment
<1>2. ASSUME NEW i \in S
      PROVE  IF \E k \in 0 .. g.nm - 1 : new[room.i + k] = i THEN b[i].i \in Faces ELSE b[i].i \in Box
  <2>1. IF \E k \in 0 .. g.nm - 1 : list[room.i + k] = i THEN q[i].i \in Faces ELSE q[i].i \in Box
    BY DEF Segment
  <2>2. (\E k \in 0 .. g.nm - 1 : list[room.i + k] = i) <=> \E k \in 0 .. g.nm - 1 : new[room.i + k] = i
    OBVIOUS
  <2> QED BY <2>1, <2>2
<1> QED BY <1>1, <1>2 DEF Segment

(* Moved, a list is a list of the same particles.                          *)
LEMMA MovedList ==
  ASSUME NEW q, NEW n, List(q, n), NEW b, NEW S, Moved(q, b, n, S)
  PROVE  List(b, n) /\ Ids(b) = Ids(q)
  BY DEF Moved, List, Ids

(* What the step does to the species it is for.                            *)
AdvanceDoes(rank, b, new, g) ==
  LET s == call.s
      n == np(s)
  IN /\ p' = [p EXCEPT ![s] = b] /\ pm' = [pm EXCEPT ![s] = new] /\ seg' = [seg EXCEPT ![rank] = g]
     /\ Moved(p[s], b, n, Met(n, rank)) /\ Plain(b)
     /\ Writes(pm[s], new, Room(n, deck.species[s].max_nm, rank))
     /\ Segment(b, new, Met(n, rank), Room(n, deck.species[s].max_nm, rank), g)
(* advance_p does to the species its rank's share (AdvanceIs).             *)
LEMMA AdvanceDone ==
  ASSUME IInv, MoversFit, NEW rank \in 0 .. N_PIPELINE, advance_p(rank)
  PROVE  \E b, new, g : AdvanceDoes(rank, b, new, g)
<1> DEFINE s == call.s
           n == np(s)
           N == deck.species[s].max_nm
           r == Advance(s, rank, Lanes(rank), call.motion)
<1>1. pc = "advance_p" /\ rank \in todo
  BY DEF advance_p
<1>2. /\ deck \in Decks /\ s \in Species /\ call.motion \in deck.motions /\ todo \subseteq 0 .. N_PIPELINE
      /\ N \in Nat
  <2>1. deck \in Decks /\ s \in Species /\ call.motion \in deck.motions /\ todo \subseteq 0 .. N_PIPELINE
    BY <1>1 DEF IInv, Ctl
  <2> QED BY <2>1, DeckIs
<1>3. advance_p_pipeline(s, rank, call.motion) = r
  BY <1>2, KernelsAre
<1>4. p' = [p EXCEPT ![s] = r.p] /\ pm' = [pm EXCEPT ![s] = r.pm] /\ seg' = [seg EXCEPT ![rank] = r.seg]
  BY <1>3 DEF advance_p
<1>5. List(p[s], n) /\ n \in Nat /\ DOMAIN pm[s] = 0 .. N - 1
  BY <1>1, <1>2 DEF IInv, Census, L, List, MoversFit
<1>6. \A i \in Met(n, rank) : p[s][i].i \in Box
  <2> SUFFICES ASSUME NEW i \in Met(n, rank) PROVE p[s][i].i \in Box
    OBVIOUS
  <2>1. ~ Reached(s, i)
    BY <1>1, <1>2, <1>5, NotReached
  <2>2. i \in 0 .. n - 1
    BY <1>2, <1>5, MetIs
  <2>3. ~ (s < s)
    BY <1>2, DeckIs
  <2> QED BY <1>1, <1>2, <2>1, <2>2, <2>3 DEF IInv, Places
<1>7. /\ Moved(p[s], r.p, n, Met(n, rank))
      /\ Writes(pm[s], r.pm, Room(n, N, rank))
      /\ Segment(r.p, r.pm, Met(n, rank), Room(n, N, rank), r.seg)
  BY <1>2, <1>5, <1>6, AdvanceIs, Zenon
<1>8. Plain(r.p)
  BY DEF Advance, Plain
<1> HIDE DEF r
<1>9. AdvanceDoes(rank, r.p, r.pm, r.seg)
  BY <1>4, <1>7, <1>8 DEF AdvanceDoes
<1> QED BY <1>9

(* A rank's share of the advance (advance_p.cc).                           *)
LEMMA AdvanceStep ==
  ASSUME IInv, Ctl', MoversFit, NEW rank \in 0 .. N_PIPELINE, advance_p(rank)
  PROVE  IInv'
<1> DEFINE s == call.s
           n == np(s)
           N == deck.species[s].max_nm
           S == Met(n, rank)
<1>1. /\ pc = "advance_p" /\ pc' = pc /\ rank \in todo /\ todo' = todo \ {rank}
      /\ UNCHANGED <<deck, step, nm, lost, partition, last_sorted, call>>
  BY DEF advance_p, sortVars
<1>2. PICK b, new, g : AdvanceDoes(rank, b, new, g)
  BY AdvanceDone
<1>3. /\ deck \in Decks /\ s \in Species /\ todo \subseteq 0 .. N_PIPELINE /\ Domains
      /\ N \in Nat /\ step \in Int
  <2>1. deck \in Decks /\ s \in Species /\ todo \subseteq 0 .. N_PIPELINE /\ Domains /\ step \in Int
    BY DEF IInv, Ctl
  <2> QED BY <2>1, DeckIs
<1>4. /\ p' = [p EXCEPT ![s] = b] /\ pm' = [pm EXCEPT ![s] = new] /\ seg' = [seg EXCEPT ![rank] = g]
      /\ Moved(p[s], b, n, S) /\ Plain(b)
      /\ Writes(pm[s], new, Room(n, N, rank))
      /\ Segment(b, new, S, Room(n, N, rank), g)
  BY <1>2 DEF AdvanceDoes
<1>5. List(p[s], n) /\ n \in Nat /\ DOMAIN pm[s] = 0 .. N - 1
  BY <1>1, <1>3 DEF IInv, Census, L, List, MoversFit
<1>6. List(b, n) /\ Ids(b) = Ids(p[s]) /\ DOMAIN b = 0 .. n - 1
  <2>1. Moved(p[s], b, n, S)
    BY <1>4
  <2>2. List(b, n) /\ Ids(b) = Ids(p[s])
    BY <1>4, <1>5, <2>1, MovedList
  <2> QED BY <2>2 DEF List
<1>7. /\ \A i \in 0 .. n - 1 : i \notin S => b[i] = p[s][i]
      /\ \A i \in S : b[i].t = p[s][i].t + 2
  BY <1>4 DEF Moved
<1>8. Lists0 /\ p'[s] = b /\ \A t \in Species : t # s => p'[t] = p[t]
  BY <1>3, <1>4, <1>6, OneList
<1>9. /\ pm' = [t \in Species |-> pm'[t]] /\ pm'[s] = new
      /\ \A t \in Species : t # s => pm'[t] = pm[t]
  <2>1. pm = [t \in Species |-> pm[t]]
    BY <1>3 DEF Domains
  <2> QED BY <1>3, <1>4, <2>1
<1>10. /\ seg' = [r \in 0 .. N_PIPELINE |-> seg'[r]] /\ seg'[rank] = g
       /\ \A r \in 0 .. N_PIPELINE : r # rank => seg'[r] = seg[r]
  <2>1. seg = [r \in 0 .. N_PIPELINE |-> seg[r]]
    BY <1>3 DEF Domains
  <2> QED BY <1>4, <2>1
<1>11. Species' = Species /\ Box' = Box /\ Ever' = Ever /\ N_PIPELINE' = N_PIPELINE
  BY <1>1, SameDeck DEF Ever
<1>12. \A t \in Species : L(t) = p[t] /\ L(t)' = p'[t] /\ np(t)' = np(t)
  BY <1>1, <1>8 DEF L, Lists0
<1>13. Domains'
  BY <1>1, <1>3, <1>8, <1>9, <1>10, KeptParts, KeptDomains
<1>14. Census'
  <2>1. ASSUME NEW t \in Species
        PROVE  List(p'[t], np(t)) /\ Listed(Ids(p'[t]), lost[t], Ever, deck.newId, deck.loaded[t])
    <3>1. List(p[t], np(t)) /\ Listed(Ids(p[t]), lost[t], Ever, deck.newId, deck.loaded[t])
      BY <1>12 DEF IInv, Census
    <3>2. CASE t = s
      BY <1>6, <1>8, <3>1, <3>2
    <3> QED BY <1>8, <3>1, <3>2
  <2> QED BY <1>1, <1>11, <1>12, <2>1 DEF Census
<1>15. ASSUME NEW t \in Species, NEW i
       PROVE  Reached(t, i)' <=> Reached(t, i) \/ (t = s /\ i \in Met(np(t), rank))
  BY <1>1, <1>3, <1>12, ReachedMore
<1>16. Momenta'
  <2>1. ASSUME NEW t \in Species, NEW i \in 0 .. np(t) - 1
        PROVE  p'[t][i].t = 2 * step + IF Reached(t, i)' THEN 1 ELSE -1
    <3>1. p[t][i].t = 2 * step + IF Reached(t, i) THEN 1 ELSE -1
      BY <1>1, <1>12 DEF IInv, Momenta
    <3>2. Reached(t, i)' <=> Reached(t, i) \/ (t = s /\ i \in Met(np(t), rank))
      BY <1>15
    <3>3. CASE t = s /\ i \in S
      <4>1. ~ Reached(t, i)
        BY <1>1, <1>3, <1>5, <3>3, NotReached
      <4>2. p[t][i].t = 2 * step + -1
        BY <3>1, <4>1
      <4>3. p'[t][i].t = p[t][i].t + 2
        BY <1>7, <1>8, <3>3
      <4>4. (2 * step + -1) + 2 = 2 * step + 1
        BY <1>3
      <4>5. Reached(t, i)'
        BY <3>2, <3>3
      <4> QED BY <4>2, <4>3, <4>4, <4>5
    <3>4. CASE ~ (t = s /\ i \in S)
      <4>1. p'[t][i].t = p[t][i].t
        BY <1>7, <1>8, <3>4
      <4> QED BY <3>1, <3>2, <3>4, <4>1
    <3> QED BY <3>3, <3>4
  <2> QED BY <1>1, <1>11, <1>12, <2>1 DEF Momenta, Leaving, Settling
<1>17. ASSUME NEW t \in Species
       PROVE  IF t < s THEN MoversOK(p'[t], np(t), pm'[t], nm[t])
              ELSE nm[t] = 0 /\ \A i \in 0 .. np(t) - 1 : ~ Reached(t, i)' => p'[t][i].i \in Box
  <2>1. IF t < s THEN MoversOK(p[t], np(t), pm[t], nm[t])
        ELSE nm[t] = 0 /\ \A i \in 0 .. np(t) - 1 : ~ Reached(t, i) => p[t][i].i \in Box
    BY <1>1 DEF IInv, Places
  <2>2. CASE t = s
    <3>1. ~ (s < s)
      BY <1>3, DeckIs
    <3>2. ASSUME NEW i \in 0 .. np(t) - 1, ~ Reached(t, i)' PROVE p'[t][i].i \in Box
      BY <1>7, <1>8, <1>15, <2>1, <2>2, <3>1, <3>2
    <3> QED BY <2>1, <2>2, <3>1, <3>2
  <2>3. CASE t # s
    <3>1. p'[t] = p[t] /\ pm'[t] = pm[t] /\ \A i : Reached(t, i)' <=> Reached(t, i)
      BY <1>8, <1>9, <1>15, <2>3
    <3> QED BY <2>1, <3>1
  <2> QED BY <2>2, <2>3
<1>18. ASSUME NEW r \in (0 .. N_PIPELINE) \ todo'
       PROVE  Segment(b, new, Met(n, r), Room(n, N, r), seg'[r])
  <2>1. CASE r = rank
    BY <1>4, <1>10, <2>1
  <2>2. CASE r # rank
    <3>1. r \in (0 .. N_PIPELINE) \ todo
      BY <1>1, <2>2
    <3>2. Segment(p[s], pm[s], Met(n, r), Room(n, N, r), seg[r])
      BY <1>1, <3>1 DEF IInv, Places
    <3>3. \A i \in Met(n, r) : b[i] = p[s][i]
      <4>1. Met(n, r) \cap S = {} /\ Met(n, r) \subseteq 0 .. n - 1
        BY <1>3, <1>5, <2>2, <3>1, MetOnce, MetIs, Zenon
      <4> QED BY <1>7, <4>1
    <3>4. ASSUME NEW k \in 0 .. seg[r].nm - 1
          PROVE  new[Room(n, N, r).i + k] = pm[s][Room(n, N, r).i + k]
      <4>1. seg[r].nm \in Nat /\ seg[r].nm <= Room(n, N, r).n
        BY <3>2 DEF Segment
      <4>2. /\ Room(n, N, r).i \in Nat /\ Room(n, N, r).n \in Nat
            /\ Room(n, N, rank).i \in Nat /\ Room(n, N, rank).n \in Nat
            /\ Room(n, N, r).i + Room(n, N, r).n <= N
        BY <1>3, <1>5, <3>1, RoomIs
      <4>3. r < rank => Room(n, N, r).i + Room(n, N, r).n <= Room(n, N, rank).i
        BY <1>3, <1>5, <3>1, RoomIs
      <4>4. rank < r => Room(n, N, rank).i + Room(n, N, rank).n <= Room(n, N, r).i
        BY <1>3, <1>5, <3>1, RoomIs
      <4>5. r < rank \/ rank < r
        <5>1. r \in Int /\ rank \in Int
          BY <3>1
        <5> QED BY <2>2, <5>1
      <4>6. Room(n, N, r).i + k \in 0 .. N - 1
        BY <1>3, <4>1, <4>2
      <4>7. Room(n, N, r).i + k \notin Room(n, N, rank).i .. Room(n, N, rank).i + Room(n, N, rank).n - 1
        BY <1>3, <4>1, <4>2, <4>3, <4>4, <4>5
      <4> QED BY <1>4, <1>5, <4>6, <4>7, Zenon DEF Writes
    <3>5. Segment(b, new, Met(n, r), Room(n, N, r), seg[r])
      BY <3>2, <3>3, <3>4, SegmentKept
    <3> QED BY <1>10, <2>2, <3>1, <3>5
  <2> QED BY <2>1, <2>2
<1>19. Places'
  <2>1. /\ \A q, m, list, k : MoversOK(q, m, list, k)' <=> MoversOK(q, m, list, k)
        /\ \A q, list, T, room, h : Segment(q, list, T, room, h)' <=> Segment(q, list, T, room, h)
        /\ \A m, r : Met(m, r)' = Met(m, r)
        /\ \A m, M, r : Room(m, M, r)' = Room(m, M, r)
    BY <1>1, SameKernels
  <2>2. np(s)' = n /\ call'.s = s
    BY <1>1, <1>3, <1>12
  <2>3. \A r \in (0 .. N_PIPELINE) \ todo' :
          Segment(p'[s], pm'[s], Met(n, r), Room(n, N, r), seg'[r])
    BY <1>8, <1>9, <1>18
  <2> QED BY <1>1, <1>11, <1>12, <1>17, <2>1, <2>2, <2>3 DEF Places, Leaving
<1>20. Passes' /\ Brackets' /\ Sums' /\ Files'
  BY <1>1 DEF Passes, Brackets, Sums, Files, Sorting
<1> QED BY <1>13, <1>14, <1>16, <1>19, <1>20 DEF IInv

-----------------------------------------------------------------------------
(* The advance of one species over.                                        *)

(* Domains, where neither lists nor partitions change.                     *)
LEMMA MoversDomains ==
  ASSUME Domains, UNCHANGED <<deck, step, p, lost, partition, last_sorted>>,
         pm' = [s \in Species |-> pm'[s]], nm' = [s \in Species |-> nm'[s]],
         \A s \in Species : nm'[s] \in 0 .. deck.species[s].max_nm,
         seg' = [r \in 0 .. N_PIPELINE |-> seg'[r]],
         pc' \notin {"uncenter_p", "energy_p", "hydro_p", "dump"}
  PROVE  Domains'
<1>1. Species' = Species /\ N_PIPELINE' = N_PIPELINE /\ n_voxel' = n_voxel
  BY SameDeck
<1>2. \A s \in Species : np(s)' = np(s)
  BY DEF np
<1> QED BY <1>1, <1>2 DEF Domains

(* The segments of a species all ranks are through with.                   *)
LEMMA SegmentsAre ==
  ASSUME IInv, MoversFit, pc = "advance_p", todo = {}
  PROVE  LET s == call.s
             N == deck.species[s].max_nm
         IN /\ Total(seg) \in 0 .. N
            /\ MoversOK(p[s], np(s), Compacted(pm[s], seg), Total(seg))
<1> DEFINE s == call.s
           N == deck.species[s].max_nm
           n == np(s)
<1>1. deck \in Decks /\ s \in Species /\ n \in Nat
  BY DEF IInv, Ctl, Domains
<1>2. N \in Nat /\ DOMAIN pm[s] = 0 .. N - 1
  BY <1>1, DeckIs DEF MoversFit
<1>3. Segments(p[s], n, pm[s], N, seg)
  <2>1. DOMAIN seg = 0 .. N_PIPELINE
    BY DEF IInv, Domains
  <2>2. \A r \in 0 .. N_PIPELINE : Segment(p[s], pm[s], Met(n, r), Room(n, N, r), seg[r])
    BY DEF IInv, Places
  <2> QED BY <2>1, <2>2 DEF Segments
<1> HIDE DEF N, n, s
<1>4. Total(seg) \in 0 .. N /\ MoversOK(p[s], n, Compacted(pm[s], seg), Total(seg))
  BY <1>1, <1>2, <1>3, CompactedIs
<1> QED BY <1>4 DEF N, n, s

(* Movers in all, up to a species.                                         *)
LEMMA AdvancedStep ==
  ASSUME IInv, Ctl', MoversFit, Advanced
  PROVE  IInv'
<1> DEFINE s == call.s
           list == Compacted(pm[s], seg)
           m == Total(seg)
<1>1. /\ pc = "advance_p" /\ todo = {}
      /\ UNCHANGED <<deck, step, p, lost, partition, last_sorted>>
      /\ pm' = [pm EXCEPT ![s] = list]
      /\ seg' = [r \in 0 .. N_PIPELINE |-> 0]
      /\ Next_species("advance_p", "inject")
  BY DEF Advanced, sortVars
<1>2. nm' = [nm EXCEPT ![s] = m]
  BY DEF Advanced, Total
<1>3. /\ deck \in Decks /\ s \in Species /\ Domains /\ step \in Int
      /\ call = [k |-> call.k, s |-> call.s, motion |-> call.motion]
  BY <1>1 DEF IInv, Ctl
<1>4. m \in 0 .. deck.species[s].max_nm /\ MoversOK(p[s], np(s), list, m)
  BY <1>1, SegmentsAre
<1> HIDE DEF list, m
<1>5. /\ pc' = "advance_p" \/ pc' = "inject"
      /\ pc' = "advance_p" => call'.s = s + 1 /\ todo' = 0 .. N_PIPELINE
      /\ pc' = "inject" => ~ (s < Len(deck.species))
  <2>1. s < Len(deck.species) => call'.s = s + 1
    BY <1>1, <1>3 DEF Next_species
  <2> QED BY <1>1, <2>1 DEF Next_species
<1>6. /\ Species' = Species /\ Box' = Box /\ Ever' = Ever /\ N_PIPELINE' = N_PIPELINE
  BY <1>1, <1>5, SameDeck DEF Ever
<1>7. \A t \in Species : L(t) = p[t] /\ L(t)' = p[t] /\ np(t)' = np(t) /\ np(t) \in Nat
  BY <1>1, <1>3, <1>5 DEF L, np, Domains
<1>8. /\ pm' = [t \in Species |-> pm'[t]] /\ pm'[s] = list
      /\ \A t \in Species : t # s => pm'[t] = pm[t]
  <2>1. pm = [t \in Species |-> pm[t]]
    BY <1>3 DEF Domains
  <2> QED BY <1>1, <1>3, <2>1
<1>9. /\ nm' = [t \in Species |-> nm'[t]] /\ nm'[s] = m
      /\ \A t \in Species : t # s => nm'[t] = nm[t]
  <2>1. nm = [t \in Species |-> nm[t]]
    BY <1>3 DEF Domains
  <2> QED BY <1>2, <1>3, <2>1
<1>10. Domains'
  <2>1. \A t \in Species : nm'[t] \in 0 .. deck.species[t].max_nm
    BY <1>3, <1>4, <1>9 DEF Domains
  <2>2. seg' = [r \in 0 .. N_PIPELINE |-> seg'[r]]
    BY <1>1
  <2> QED BY <1>1, <1>3, <1>5, <1>8, <1>9, <2>1, <2>2, MoversDomains
<1>11. Census'
  BY <1>1, <1>6, <1>7 DEF IInv, Census
<1>12. Species \subseteq 1 .. Len(deck.species) /\ Len(deck.species) \in Nat
  BY <1>3, DeckIs DEF Species
<1>13. \A t, i : pc' = "advance_p" => (Reached(t, i)' <=> t < call'.s)
  BY <1>5, <1>6 DEF Reached
<1>14. \A t \in Species : t <= s <=> t < s + 1
  BY <1>3, <1>12
<1>15. Momenta'
  <2>1. ASSUME NEW t \in Species, NEW i \in 0 .. np(t) - 1
        PROVE  p[t][i].t = 2 * step + IF t <= s THEN 1 ELSE -1
    BY <1>1, <1>3, <1>7, ReachedAll DEF IInv, Momenta
  <2>2. pc' = "advance_p" => \A t \in Species : \A i \in 0 .. np(t) - 1 :
                               p[t][i].t = 2 * step + IF Reached(t, i)' THEN 1 ELSE -1
    BY <1>5, <1>13, <1>14, <2>1
  <2>3. pc' = "inject" => \A t \in Species : \A i \in 0 .. np(t) - 1 : p[t][i].t = 2 * step + 1
    <3>1. pc' = "inject" => \A t \in Species : t <= s
      BY <1>3, <1>5, <1>12
    <3> QED BY <2>1, <3>1
  <2> QED BY <1>1, <1>5, <1>6, <1>7, <2>2, <2>3 DEF Momenta, Leaving, Settling
<1>16. ASSUME NEW t \in Species
       PROVE  IF t <= s THEN MoversOK(p[t], np(t), pm'[t], nm'[t])
              ELSE nm'[t] = 0 /\ \A i \in 0 .. np(t) - 1 : p[t][i].i \in Box
  <2>1. IF t < s THEN MoversOK(p[t], np(t), pm[t], nm[t])
        ELSE nm[t] = 0 /\ \A i \in 0 .. np(t) - 1 : ~ Reached(t, i) => p[t][i].i \in Box
    BY <1>1 DEF IInv, Places
  <2>2. t \in Int /\ s \in Int
    BY <1>3, <1>12
  <2>3. CASE t = s
    BY <1>4, <1>8, <1>9, <2>2, <2>3
  <2>4. CASE t < s
    BY <1>8, <1>9, <2>1, <2>2, <2>4
  <2>5. CASE s < t
    <3>1. \A i \in 0 .. np(t) - 1 : ~ Reached(t, i)
      BY <1>1, <1>3, <1>7, <2>2, <2>5, ReachedAll
    <3> QED BY <1>9, <2>1, <2>2, <2>5, <3>1
  <2> QED BY <2>2, <2>3, <2>4, <2>5
<1>17. Places'
  <2>1. \A q, k, l, j : MoversOK(q, k, l, j)' <=> MoversOK(q, k, l, j)
    BY <1>1, SameKernels
  <2>2. CASE pc' = "advance_p"
    <3>1. ASSUME NEW t \in Species
          PROVE  IF t < call'.s THEN MoversOK(p'[t], np(t)', pm'[t], nm'[t])
                 ELSE nm'[t] = 0 /\ \A i \in 0 .. np(t)' - 1 : ~ Reached(t, i)' => p'[t][i].i \in Box
      BY <1>1, <1>5, <1>7, <1>14, <1>16, <2>2
    <3>2. (0 .. N_PIPELINE') \ todo' = {}
      BY <1>5, <1>6, <2>2
    <3> QED BY <1>6, <2>1, <2>2, <3>1, <3>2 DEF Places, Leaving
  <2>3. CASE pc' = "inject"
    <3>1. \A t \in Species : t <= s
      BY <1>3, <1>5, <1>12, <2>3
    <3>2. \A t \in Species : MoversOK(p'[t], np(t)', pm'[t], nm'[t])
      BY <1>1, <1>7, <1>16, <3>1
    <3> QED BY <1>6, <2>1, <2>3, <3>2 DEF Places, Leaving
  <2> QED BY <1>5, <2>2, <2>3
<1>18. Passes' /\ Brackets' /\ Sums' /\ Files'
  BY <1>5 DEF Passes, Brackets, Sums, Files, Sorting
<1> QED BY <1>10, <1>11, <1>15, <1>17, <1>18 DEF IInv

-----------------------------------------------------------------------------
(* The injection of a particle.                                            *)

(* What is the same for those it leaves alone.                             *)
InjectKeeps(s) ==
  \A t \in Species : t # s => p'[t] = p[t] /\ pm'[t] = pm[t] /\ nm'[t] = nm[t]
(* What becomes of the species it is put in.                               *)
Injected(s, x, stops) ==
  /\ p' = [t \in Species |-> p'[t]] /\ pm' = [t \in Species |-> pm'[t]]
  /\ nm' = [t \in Species |-> nm'[t]]
  /\ p'[s] = Put(p[s], np(s), x) /\ pm'[s] = Put(pm[s], nm[s], np(s))
  /\ nm'[s] = nm[s] + IF stops THEN 1 ELSE 0

(* The last place of the list and of its movers is what an injection       *)
(* writes.                                                                 *)
LEMMA InjectIs ==
  ASSUME Domains, NEW s \in Species, NEW x, NEW stops \in BOOLEAN,
         p' = [p EXCEPT ![s] = Put(@, np(s), x)],
         pm' = [pm EXCEPT ![s] = Put(@, nm[s], np(s))],
         nm' = [nm EXCEPT ![s] = @ + IF stops THEN 1 ELSE 0]
  PROVE  Injected(s, x, stops) /\ InjectKeeps(s)
<1>1. /\ p = [t \in Species |-> p[t]] /\ pm = [t \in Species |-> pm[t]]
      /\ nm = [t \in Species |-> nm[t]]
  BY DEF Domains
<1>2. p' = [t \in Species |-> p'[t]] /\ p'[s] = Put(p[s], np(s), x)
      /\ \A t \in Species : t # s => p'[t] = p[t]
  BY <1>1
<1>3. pm' = [t \in Species |-> pm'[t]] /\ pm'[s] = Put(pm[s], nm[s], np(s))
      /\ \A t \in Species : t # s => pm'[t] = pm[t]
  BY <1>1
<1>4. /\ nm' = [t \in Species |-> nm'[t]] /\ \A t \in Species : t # s => nm'[t] = nm[t]
      /\ nm'[s] = nm[s] + IF stops THEN 1 ELSE 0
  BY <1>1
<1> QED BY <1>2, <1>3, <1>4 DEF Injected, InjectKeeps

(* A particle nobody knows yet makes the lists ones of one more.           *)
InjectedWell(s, x) ==
  LET n == np(s)
  IN /\ List(p'[s], n + 1) /\ Ids(p'[s]) = Ids(p[s]) \cup {x.id} /\ Plain(p'[s])
     /\ p'[s][n] = x /\ \A i \in 0 .. n - 1 : p'[s][i] = p[s][i]
     /\ nm'[s] \in 0 .. deck.species[s].max_nm
     /\ MoversOK(p'[s], n + 1, pm'[s], nm'[s])

(* With room for its mover, the list has one particle more, new to it.     *)
LEMMA InjectWell ==
  ASSUME IInv, MoversFit, MoversFit', deck' = deck, pc = "inject",
         NEW s \in Species, NEW x, NEW stops \in BOOLEAN,
         Injected(s, x, stops), Whole(x), x.id \notin Ids(p[s]),
         IF stops THEN x.i \in Faces ELSE x.i \in Box
  PROVE  InjectedWell(s, x)
<1> DEFINE n == np(s)
           N == deck.species[s].max_nm
           b == p'[s]
           new == pm'[s]
<1>1. deck \in Decks /\ Species' = Species
  BY SameDeck DEF IInv, Ctl
<1>2. List(p[s], n) /\ n \in Nat
  BY DEF IInv, Census, L, List
<1>3. N \in Nat /\ DOMAIN pm[s] = 0 .. N - 1 /\ DOMAIN new = 0 .. N - 1
  BY <1>1, DeckIs DEF MoversFit
<1>4. MoversOK(p[s], n, pm[s], nm[s])
  BY DEF IInv, Places, Leaving
<1>5. b = Put(p[s], n, x) /\ new = Put(pm[s], nm[s], n) /\ nm'[s] = nm[s] + IF stops THEN 1 ELSE 0
  BY DEF Injected
<1> HIDE DEF n, N, b, new
<1>6. /\ List(b, n + 1) /\ Ids(b) = Ids(p[s]) \cup {x.id} /\ b = [i \in 0 .. n |-> b[i]]
      /\ b[n] = x /\ \A i \in 0 .. n - 1 : b[i] = p[s][i]
  <2>1. List(p[s], n) /\ Whole(x) /\ x.id \notin Ids(p[s]) /\ b = Put(p[s], n, x)
    BY <1>2, <1>5
  <2>2. Longer(p[s], n, x, b)
    BY <2>1, AddIs, Zenon
  <2> QED BY <2>2, Zenon DEF Longer
<1>7. IF stops THEN b[n].i \in Faces ELSE b[n].i \in Box
  BY <1>6
<1>8. nm'[s] \in 0 .. N /\ MoversOK(b, n + 1, new, nm'[s])
  <2>1. new = Put(pm[s], nm[s], n) /\ nm'[s] = nm[s] + IF stops THEN 1 ELSE 0
    BY <1>5
  <2>2. \A i \in 0 .. n - 1 : b[i] = p[s][i]
    BY <1>6
  <2>3. MoverFits(N, b, n, new, nm'[s])
    BY <1>2, <1>3, <1>4, <1>7, <2>1, <2>2, MoverAdded, Zenon
  <2> QED BY <2>3, Zenon DEF MoverFits
<1>9. Plain(b)
  BY <1>6 DEF Plain
<1> QED BY <1>6, <1>8, <1>9 DEF InjectedWell, n, N, b, new

(* A particle injected by the deck (inject_particle, vpic/misc.cc).        *)
LEMMA InjectStep ==
  ASSUME IInv, Ctl', MoversFit, MoversFit', inject_particle
  PROVE  IInv'
<1>1. /\ pc = "inject" /\ pc' \in {"remove", "error"}
      /\ UNCHANGED <<deck, step, lost, partition, last_sorted, seg, call, todo>>
  BY DEF inject_particle, sortVars
<1>2. deck \in Decks /\ Domains /\ step \in Nat /\ deck.newId \in Nat
  <2>1. deck \in Decks /\ Domains /\ step \in 0 .. MaxStep
    BY DEF IInv, Ctl
  <2> QED BY <2>1, DeckIs, DecksAssumption
<1>3. /\ Species' = Species /\ Box' = Box /\ N_PIPELINE' = N_PIPELINE /\ n_voxel' = n_voxel
      /\ \A q, k, l, j : MoversOK(q, k, l, j)' <=> MoversOK(q, k, l, j)
  BY <1>1, SameDeck, SameKernels
<1>4. ASSUME NEW s \in Species
      PROVE  /\ L(s) = p[s] /\ L(s)' = p'[s] /\ np(s) \in Nat
             /\ List(p[s], np(s)) /\ Listed(Ids(p[s]), lost[s], deck.newId + step, deck.newId, deck.loaded[s])
             /\ MoversOK(p[s], np(s), pm[s], nm[s])
             /\ \A i \in 0 .. np(s) - 1 : p[s][i].t = 2 * step + 1
  <2>1. L(s) = p[s] /\ L(s)' = p'[s] /\ np(s) \in Nat
    BY <1>1, <1>2 DEF L, Domains
  <2>2. Ever = deck.newId + step
    BY <1>1, <1>2 DEF Ever
  <2> QED BY <1>1, <2>1, <2>2 DEF IInv, Census, Places, Momenta, Leaving
<1>5. Ever' = deck.newId + step + IF pc' = "remove" THEN 1 ELSE 0
  BY <1>1 DEF Ever
<1>6. Passes' /\ Brackets' /\ Sums' /\ Files'
  BY <1>1 DEF Passes, Brackets, Sums, Files, Sorting
<1>7. CASE UNCHANGED <<p, pm, nm>>
  <2>1. \A s \in Species : np(s)' = np(s)
    BY <1>7 DEF np
  <2>2. Domains'
    BY <1>1, <1>2, <1>3, <1>7, <2>1 DEF Domains
  <2>3. Census'
    <3>1. \A ids, gone, newId, loaded :
            Listed(ids, gone, deck.newId + step, newId, loaded)
              => Listed(ids, gone, Ever', newId, loaded)
      BY <1>2, <1>5 DEF Listed
    <3> QED BY <1>1, <1>3, <1>4, <1>7, <2>1, <3>1 DEF Census
  <2>4. Momenta'
    BY <1>1, <1>3, <1>4, <1>7, <2>1 DEF Momenta, Leaving, Settling
  <2>5. Places'
    BY <1>1, <1>3, <1>4, <1>7, <2>1 DEF Places, Leaving
  <2> QED BY <1>6, <2>2, <2>3, <2>4, <2>5 DEF IInv
<1>8. CASE ~ UNCHANGED <<p, pm, nm>>
  <2>1. PICK s \in Species, v \in deck.inject, stops \in BOOLEAN :
          /\ ~ (np(s) >= deck.species[s].max_np) /\ pc' = "remove"
          /\ p' = [p EXCEPT ![s] = Put(@, np(s), [id |-> deck.newId + step,
                     i |-> IF stops THEN 8 * v ELSE v, t |-> 2 * step + 1, c |-> 0])]
          /\ pm' = [pm EXCEPT ![s] = Put(@, nm[s], np(s))]
          /\ nm' = [nm EXCEPT ![s] = @ + IF stops THEN 1 ELSE 0]
    BY <1>8 DEF inject_particle
  <2> DEFINE x == [id |-> deck.newId + step, i |-> IF stops THEN 8 * v ELSE v,
                   t |-> 2 * step + 1, c |-> 0]
  <2>2. Injected(s, x, stops) /\ InjectKeeps(s)
    BY <1>2, <2>1, InjectIs
  <2>3. Whole(x) /\ x.id = deck.newId + step /\ x.t = 2 * step + 1
    BY DEF Whole
  <2>4. IF stops THEN x.i \in Faces ELSE x.i \in Box
    <3>1. v \in Box /\ v \in Int
      BY <1>2, DeckIs, BoxIs
    <3>2. 8 * v \in Faces
      BY <3>1 DEF Faces, Face
    <3> QED BY <3>1, <3>2
  <2> HIDE DEF x
  <2>5. x.id \notin Ids(p[s]) \cup lost[s]
    BY <1>2, <1>4, <2>3 DEF Listed
  <2>6. InjectedWell(s, x)
    BY <1>1, <2>2, <2>3, <2>4, <2>5, InjectWell
  <2>7. np(s)' = np(s) + 1 /\ \A t \in Species : t # s => np(t)' = np(t)
    <3>1. DOMAIN p'[s] = 0 .. np(s)
      BY <1>4, <2>6 DEF InjectedWell, List
    <3>2. Cardinality(DOMAIN p'[s]) = np(s) + 1
      BY <1>4, <3>1, FS_Interval
    <3> QED BY <2>2, <3>2 DEF np, InjectKeeps
  <2>8. Domains'
    <3>1. ASSUME NEW t \in Species
          PROVE  /\ DOMAIN p'[t] = 0 .. np(t)' - 1 /\ p'[t] = [i \in DOMAIN p'[t] |-> p'[t][i]]
                 /\ np(t)' \in Nat /\ np(t)' <= deck.species[t].max_np
                 /\ nm'[t] \in 0 .. deck.species[t].max_nm
      <4>1. CASE t = s
        <5>1. deck.species[s].max_np \in Nat
          BY <1>2, DeckIs
        <5>2. DOMAIN p'[s] = 0 .. (np(s) + 1) - 1 /\ Plain(p'[s]) /\ nm'[s] \in 0 .. deck.species[s].max_nm
          BY <2>6 DEF InjectedWell, List
        <5> QED BY <1>4, <2>1, <2>7, <4>1, <5>1, <5>2 DEF Plain
      <4>2. CASE t # s
        BY <1>2, <2>2, <2>7, <4>2 DEF Domains, InjectKeeps
      <4> QED BY <4>1, <4>2
    <3>2. /\ p' = [t \in Species |-> p'[t]] /\ pm' = [t \in Species |-> pm'[t]]
          /\ nm' = [t \in Species |-> nm'[t]]
      BY <2>2 DEF Injected
    <3> QED BY <1>1, <1>2, <1>3, <3>1, <3>2 DEF Domains
  <2>9. Census'
    <3>1. ASSUME NEW t \in Species
          PROVE  /\ List(p'[t], np(t)')
                 /\ Listed(Ids(p'[t]), lost[t], deck.newId + step + 1, deck.newId, deck.loaded[t])
      <4>1. CASE t = s
        <5>1. Ids(p'[s]) = Ids(p[s]) \cup {x.id}
          BY <2>6 DEF InjectedWell
        <5>2. Listed(Ids(p[s]), lost[s], deck.newId + step, deck.newId, deck.loaded[s])
          BY <1>4
        <5>3. /\ (Ids(p[s]) \cup {x.id}) \cap lost[s] = {}
          BY <2>5, <5>2 DEF Listed
        <5>4. \A id \in (Ids(p[s]) \cup {x.id}) \cup lost[s] : id \in Nat /\ id < deck.newId + step + 1
          BY <1>2, <2>3, <5>2 DEF Listed
        <5>5. {id \in (Ids(p[s]) \cup {x.id}) \cup lost[s] : id < deck.newId} = 1 .. deck.loaded[s]
          <6>1. ~ (x.id < deck.newId)
            BY <1>2, <2>3
          <6>2. {id \in Ids(p[s]) \cup lost[s] : id < deck.newId} = 1 .. deck.loaded[s]
            BY <5>2 DEF Listed
          <6> QED BY <6>1, <6>2
        <5>6. Listed(Ids(p'[s]), lost[s], deck.newId + step + 1, deck.newId, deck.loaded[s])
          BY <5>1, <5>3, <5>4, <5>5 DEF Listed
        <5>7. List(p'[s], np(s) + 1)
          BY <2>6 DEF InjectedWell
        <5> QED BY <2>7, <4>1, <5>6, <5>7
      <4>2. CASE t # s
        <5>1. p'[t] = p[t] /\ np(t)' = np(t)
          BY <2>2, <2>7, <4>2 DEF InjectKeeps
        <5>2. List(p[t], np(t)) /\ Listed(Ids(p[t]), lost[t], deck.newId + step, deck.newId, deck.loaded[t])
          BY <1>4
        <5>3. Listed(Ids(p[t]), lost[t], deck.newId + step + 1, deck.newId, deck.loaded[t])
          BY <1>2, <5>2 DEF Listed
        <5> QED BY <5>1, <5>2, <5>3
      <4> QED BY <4>1, <4>2
    <3>2. Ever' = deck.newId + step + 1
      BY <1>5, <2>1
    <3> QED BY <1>1, <1>3, <1>4, <3>1, <3>2 DEF Census
  <2>10. ASSUME NEW t \in Species
         PROVE  /\ MoversOK(p'[t], np(t)', pm'[t], nm'[t])
                /\ \A i \in 0 .. np(t)' - 1 : p'[t][i].t = 2 * step + 1
    <3>1. CASE t = s
      <4>1. MoversOK(p'[s], np(s) + 1, pm'[s], nm'[s])
        BY <2>6 DEF InjectedWell
      <4>2. ASSUME NEW i \in 0 .. (np(s) + 1) - 1 PROVE p'[s][i].t = 2 * step + 1
        <5>1. p'[s][np(s)] = x /\ \A j \in 0 .. np(s) - 1 : p'[s][j] = p[s][j]
          BY <2>6 DEF InjectedWell
        <5>2. i \in 0 .. np(s) - 1 \/ i = np(s)
          BY <1>4
        <5> QED BY <1>4, <2>3, <5>1, <5>2
      <4> QED BY <2>7, <3>1, <4>1, <4>2
    <3>2. CASE t # s
      BY <1>4, <2>2, <2>7, <3>2 DEF InjectKeeps
    <3> QED BY <3>1, <3>2
  <2>11. Momenta'
    BY <1>1, <1>3, <1>4, <2>10 DEF Momenta, Leaving, Settling
  <2>12. Places'
    BY <1>1, <1>3, <2>10 DEF Places, Leaving
  <2> QED BY <1>6, <2>8, <2>9, <2>11, <2>12 DEF IInv
<1> QED BY <1>7, <1>8

-----------------------------------------------------------------------------
(* The removal of what still has a mover.                                  *)

(* Who is removed.                                                         *)
Gone(q, list, m) == {q[list[k]].id : k \in 0 .. m - 1}

(* What is left of a list, and who is gone.                                *)
LeftOver(q, n, list, m, b) ==
  /\ n - m \in Nat /\ List(b, n - m) /\ Plain(b) /\ Boxed(b, n - m)
  /\ Ids(b) \cap Gone(q, list, m) = {} /\ Ids(b) \cup Gone(q, list, m) = Ids(q)
  /\ \A i \in 0 .. n - m - 1 : \E h \in 0 .. n - 1 : b[i] = q[h]

(* Removal leaves in the box who has no mover, and is rid of the others.   *)
LEMMA DroppedIs ==
  ASSUME NEW q, NEW n, List(q, n), Plain(q), NEW list, NEW m, MoversOK(q, n, list, m)
  PROVE  LeftOver(q, n, list, m, Removed(q, list, m))
<1> DEFINE b == Removed(q, list, m)
<1>1. InOrder(list, m, n) /\ m \in Nat /\ n \in Nat
  BY DEF MoversOK, InOrder, List
<1>2. Cleared(q, n, list, m, b)
  BY <1>1, RemovedIs DEF Plain
<1> HIDE DEF b
<1>3. m <= n /\ List(b, n - m) /\ Plain(b) /\ n - m \in Nat
  BY <1>1, <1>2 DEF Cleared
<1>4. \A i \in 0 .. n - m - 1 : \E h \in 0 .. n - 1 : (\A k \in 0 .. m - 1 : list[k] # h) /\ b[i] = q[h]
  BY <1>2 DEF Cleared
<1>5. \A h \in 0 .. n - 1 : (\A k \in 0 .. m - 1 : list[k] # h) => \E i \in 0 .. n - m - 1 : b[i] = q[h]
  BY <1>2 DEF Cleared
<1>6. /\ \A k \in 0 .. m - 1 : list[k] \in 0 .. n - 1
      /\ \A i \in 0 .. n - 1 : (\A k \in 0 .. m - 1 : list[k] # i) => q[i].i \in Box
  BY DEF MoversOK
<1>7. Boxed(b, n - m)
  BY <1>4, <1>6 DEF Boxed
<1>8. DOMAIN b = 0 .. n - m - 1 /\ DOMAIN q = 0 .. n - 1
  BY <1>3 DEF List
<1>9. \A i, j \in 0 .. n - 1 : q[i].id = q[j].id => i = j
  BY DEF List
<1>10. Ids(b) \cap Gone(q, list, m) = {}
  <2> SUFFICES ASSUME NEW i \in 0 .. n - m - 1, NEW k \in 0 .. m - 1, b[i].id = q[list[k]].id
               PROVE  FALSE
    BY <1>8 DEF Ids, Gone
  <2>1. PICK h \in 0 .. n - 1 : (\A l \in 0 .. m - 1 : list[l] # h) /\ b[i] = q[h]
    BY <1>4
  <2>2. list[k] \in 0 .. n - 1
    BY <1>6
  <2> QED BY <1>9, <2>1, <2>2
<1>11. Ids(b) \cup Gone(q, list, m) \subseteq Ids(q)
  <2>1. \A i \in 0 .. n - m - 1 : \E h \in 0 .. n - 1 : b[i].id = q[h].id
    BY <1>4
  <2> QED BY <1>6, <1>8, <2>1 DEF Ids, Gone
<1>12. Ids(q) \subseteq Ids(b) \cup Gone(q, list, m)
  <2> SUFFICES ASSUME NEW h \in 0 .. n - 1 PROVE q[h].id \in Ids(b) \cup Gone(q, list, m)
    BY <1>8 DEF Ids
  <2>1. CASE \A k \in 0 .. m - 1 : list[k] # h
    BY <1>5, <1>8, <2>1 DEF Ids
  <2>2. CASE \E k \in 0 .. m - 1 : list[k] = h
    BY <2>2 DEF Gone
  <2> QED BY <2>1, <2>2
<1>13. \A i \in 0 .. n - m - 1 : \E h \in 0 .. n - 1 : b[i] = q[h]
  BY <1>4
<1>14. Ids(b) \cup Gone(q, list, m) = Ids(q)
  BY <1>11, <1>12
<1> QED BY <1>3, <1>7, <1>10, <1>13, <1>14 DEF LeftOver, b

(* The particles with movers left are removed (vpic/advance.cc).           *)
LEMMA DropStep ==
  ASSUME IInv, Ctl', Drop
  PROVE  IInv'
<1>1. /\ pc = "remove" /\ pc' = "energy_p" /\ step' = step + 1
      /\ UNCHANGED <<deck, pm, partition, last_sorted, seg>>
      /\ p' = [s \in Species |-> Removed(p[s], pm[s], nm[s])]
      /\ lost' = [s \in Species |-> lost[s] \cup Gone(p[s], pm[s], nm[s])]
      /\ nm' = [s \in Species |-> 0]
      /\ todo' = 0 .. N_PIPELINE
  BY DEF Drop, sortVars, Gone
<1>2. deck \in Decks /\ Domains /\ step \in Nat /\ deck.newId \in Nat
  <2>1. deck \in Decks /\ Domains /\ step \in 0 .. MaxStep
    BY DEF IInv, Ctl
  <2> QED BY <2>1, DeckIs, DecksAssumption
<1>3. /\ Species' = Species /\ Box' = Box /\ N_PIPELINE' = N_PIPELINE /\ n_voxel' = n_voxel
      /\ \A q, n : Boxed(q, n)' <=> Boxed(q, n)
  BY <1>1, SameDeck, SameKernels
<1>4. ASSUME NEW s \in Species
      PROVE  /\ L(s) = p[s] /\ L(s)' = p'[s] /\ np(s) \in Nat /\ Plain(p[s])
             /\ List(p[s], np(s))
             /\ Listed(Ids(p[s]), lost[s], deck.newId + step + 1, deck.newId, deck.loaded[s])
             /\ MoversOK(p[s], np(s), pm[s], nm[s])
             /\ \A i \in 0 .. np(s) - 1 : p[s][i].t = 2 * step + 1
  <2>1. L(s) = p[s] /\ L(s)' = p'[s] /\ np(s) \in Nat /\ Plain(p[s])
    BY <1>1, <1>2 DEF L, Domains, Plain
  <2>2. Ever = deck.newId + step + 1
    BY <1>1, <1>2 DEF Ever
  <2> QED BY <1>1, <2>1, <2>2 DEF IInv, Census, Places, Momenta, Leaving
<1>5. Ever' = deck.newId + step + 1
  BY <1>1, <1>2 DEF Ever
<1>6. ASSUME NEW s \in Species
      PROVE  LeftOver(p[s], np(s), pm[s], nm[s], p'[s])
  <2>1. LeftOver(p[s], np(s), pm[s], nm[s], Removed(p[s], pm[s], nm[s]))
    BY <1>4, DroppedIs
  <2> QED BY <1>1, <2>1
<1>7. ASSUME NEW s \in Species
      PROVE  np(s)' = np(s) - nm[s] /\ np(s)' \in Nat /\ np(s)' <= np(s) /\ Plain(p'[s])
  <2>1. DOMAIN p'[s] = 0 .. np(s) - nm[s] - 1 /\ np(s) - nm[s] \in Nat
    BY <1>6 DEF LeftOver, List
  <2>2. Cardinality(DOMAIN p'[s]) = np(s) - nm[s]
    BY <2>1, FS_Interval
  <2>3. nm[s] \in Nat
    BY <1>4 DEF MoversOK
  <2>4. Plain(p'[s])
    BY <1>6 DEF LeftOver
  <2> QED BY <1>4, <2>1, <2>2, <2>3, <2>4 DEF np
<1>8. Domains'
  <2>1. ASSUME NEW s \in Species
        PROVE  /\ DOMAIN p'[s] = 0 .. np(s)' - 1 /\ p'[s] = [i \in DOMAIN p'[s] |-> p'[s][i]]
               /\ np(s)' \in Nat /\ np(s)' <= deck.species[s].max_np
               /\ nm'[s] \in 0 .. deck.species[s].max_nm
               /\ last_sorted[s] \in Int /\ last_sorted[s] < step + 1
    <3>1. DOMAIN p'[s] = 0 .. np(s)' - 1
      BY <1>6, <1>7 DEF LeftOver, List
    <3>2. np(s) <= deck.species[s].max_np /\ last_sorted[s] \in Int /\ last_sorted[s] <= step
      BY <1>2 DEF Domains
    <3>3. deck.species[s].max_np \in Nat /\ deck.species[s].max_nm \in Nat
      BY <1>2, DeckIs
    <3>4. np(s)' <= deck.species[s].max_np
      BY <1>2, <1>4, <1>7, <3>2, <3>3 DEF Domains
    <3>5. nm'[s] \in 0 .. deck.species[s].max_nm
      BY <1>1, <3>3
    <3>6. last_sorted[s] < step + 1
      BY <1>2, <3>2
    <3>7. p'[s] = [i \in DOMAIN p'[s] |-> p'[s][i]] /\ np(s)' \in Nat
      BY <1>7 DEF Plain
    <3> QED BY <3>1, <3>2, <3>4, <3>5, <3>6, <3>7
  <2>2. /\ p' = [s \in Species |-> p'[s]] /\ nm' = [s \in Species |-> nm'[s]]
        /\ lost' = [s \in Species |-> lost'[s]]
    BY <1>1
  <2>3. \A s \in Species : last_sorted[s] <= step + 1
    <3>1. \A a \in Int : a <= step => a <= step + 1
      BY <1>2
    <3> QED BY <1>2, <3>1 DEF Domains
  <2>4. /\ pm' = [s \in Species |-> pm'[s]] /\ partition' = [s \in Species |-> partition'[s]]
        /\ last_sorted' = [s \in Species |-> last_sorted'[s]] /\ seg' = [r \in 0 .. N_PIPELINE |-> seg'[r]]
        /\ \A s \in Species : /\ DOMAIN partition'[s] = 0 .. n_voxel
                              /\ \A v \in 0 .. n_voxel : partition'[s][v] \in Int
    BY <1>1, <1>2 DEF Domains
  <2> QED BY <1>1, <1>3, <2>1, <2>2, <2>3, <2>4 DEF Domains
<1>9. Census'
  <2>1. ASSUME NEW s \in Species
        PROVE  /\ List(p'[s], np(s)')
               /\ Listed(Ids(p'[s]), lost'[s], deck.newId + step + 1, deck.newId, deck.loaded[s])
    <3> DEFINE G == Gone(p[s], pm[s], nm[s])
    <3>1. List(p'[s], np(s)') /\ Ids(p'[s]) \cap G = {} /\ Ids(p'[s]) \cup G = Ids(p[s])
      BY <1>6, <1>7 DEF LeftOver
    <3>2. lost'[s] = lost[s] \cup G
      BY <1>1
    <3>3. Listed(Ids(p[s]), lost[s], deck.newId + step + 1, deck.newId, deck.loaded[s])
      BY <1>4
    <3> HIDE DEF G
    <3>4. Ids(p'[s]) \cup lost'[s] = Ids(p[s]) \cup lost[s] /\ Ids(p'[s]) \cap lost'[s] = {}
      BY <3>1, <3>2, <3>3 DEF Listed
    <3> QED BY <3>1, <3>3, <3>4 DEF Listed
  <2> QED BY <1>1, <1>3, <1>4, <1>5, <2>1 DEF Census
<1>10. Momenta'
  <2>1. ASSUME NEW s \in Species, NEW i \in 0 .. np(s)' - 1
        PROVE  p'[s][i].t = 2 * (step + 1) - 1
    <3>1. \E h \in 0 .. np(s) - 1 : p'[s][i] = p[s][h]
      BY <1>6, <1>7 DEF LeftOver
    <3> QED BY <1>2, <1>4, <3>1
  <2> QED BY <1>1, <1>3, <1>4, <2>1 DEF Momenta, Leaving, Settling
<1>11. Places'
  <2>1. \A s \in Species : Boxed(p'[s], np(s)')
    BY <1>6, <1>7 DEF LeftOver
  <2> QED BY <1>1, <1>3, <1>4, <2>1 DEF Places, Leaving
<1>12. Sums'
  BY <1>1, <1>3 DEF Sums
<1>13. Passes' /\ Brackets' /\ Files'
  BY <1>1 DEF Passes, Brackets, Files, Sorting
<1> QED BY <1>8, <1>9, <1>10, <1>11, <1>12, <1>13 DEF IInv

-----------------------------------------------------------------------------
(* Every step keeps the invariant, as long as no mover is written past the *)
(* end of its list.                                                        *)
LEMMA RankStep ==
  ASSUME IInv, Ctl', MoversFit, NEW rank \in 0 .. N_PIPELINE,
         \/ uncenter_p(rank) \/ energy_p(rank) \/ accumulate_hydro_p(rank)
         \/ coarse_count(rank) \/ coarse_sort(rank) \/ subsort(rank)
         \/ colliding(rank) \/ advance_p(rank)
  PROVE  IInv'
<1>1. CASE uncenter_p(rank)
  BY <1>1, UncenterStep
<1>2. CASE energy_p(rank) \/ accumulate_hydro_p(rank)
  BY <1>2, SumStep
<1>3. CASE coarse_count(rank)
  BY <1>3, CoarseCountStep
<1>4. CASE coarse_sort(rank)
  BY <1>4, CoarseSortStep
<1>5. CASE subsort(rank)
  BY <1>5, GhostStep, SubsortRankStep
<1>6. CASE colliding(rank)
  BY <1>6, UnaryStep, PairStep
<1>7. CASE advance_p(rank)
  BY <1>7, AdvanceStep
<1> QED BY <1>1, <1>2, <1>3, <1>4, <1>5, <1>6, <1>7

(* Nothing changes.                                                        *)
LEMMA IdleStep ==
  ASSUME IInv, UNCHANGED vars
  PROVE  IInv'
<1> SUFFICES IInv' <=> IInv
  OBVIOUS
<1>1. /\ UNCHANGED <<deck, pc, step, p, pm, nm, partition, last_sorted, aux,
                     coarse_partition, call, todo, seg, op, astray, lost, file>>
  BY DEF vars
<1>2. /\ Species' = Species /\ Pipelines' = Pipelines /\ N_PIPELINE' = N_PIPELINE
      /\ n_voxel' = n_voxel /\ vl' = vl /\ vh' = vh /\ cp_stride' = cp_stride
      /\ Box' = Box /\ Faces' = Faces
  BY <1>1, SameDeck
<1>3. /\ \A s : np(s)' = np(s) /\ L(s)' = L(s)
      /\ Ever' = Ever
  BY <1>1 DEF np, L, Ever
<1>4. /\ \A n, r : Met(n, r)' = Met(n, r)
      /\ \A n, N, r : Room(n, N, r)' = Room(n, N, r)
      /\ \A q, n, list, m : MoversOK(q, n, list, m)' <=> MoversOK(q, n, list, m)
      /\ \A q, list, S, room, g : Segment(q, list, S, room, g)' <=> Segment(q, list, S, room, g)
      /\ \A q, n : Boxed(q, n)' <=> Boxed(q, n)
  BY <1>1, SameKernels
<1>5. \A s, i : Reached(s, i)' <=> Reached(s, i)
  BY <1>1, <1>2, <1>3, <1>4 DEF Reached
<1>6. Ctl' <=> Ctl
  BY <1>1, <1>2 DEF Ctl, Sorting
<1>7. Domains' <=> Domains
  BY <1>1, <1>2, <1>3, ZenonT(40) DEF Domains
<1>8. Census' <=> Census
  BY <1>1, <1>2, <1>3 DEF Census
<1>9. Momenta' <=> Momenta
  BY <1>1, <1>2, <1>3, <1>5 DEF Momenta, Leaving, Settling
<1>10. Places' <=> Places
  BY <1>1, <1>2, <1>3, <1>4, <1>5 DEF Places, Leaving
<1>11. Passes' <=> Passes
  <2>1. /\ \A q, n, cp, ranks : CountedBy(q, n, cp, ranks)' <=> CountedBy(q, n, cp, ranks)
        /\ \A q, n, cp : StartsAre(q, n, cp)' <=> StartsAre(q, n, cp)
        /\ \A q, n, a, ranks : CopiedBy(q, n, a, ranks)' <=> CopiedBy(q, n, a, ranks)
        /\ \A a, n, cp : Grouped(a, n, cp)' <=> Grouped(a, n, cp)
        /\ \A a, n, q, part, ranks : SubsortedBy(a, n, q, part, ranks)' <=> SubsortedBy(a, n, q, part, ranks)
        /\ \A part, n : GhostsAre(part, n)' <=> GhostsAre(part, n)
    BY <1>1, SameSort
  <2> QED BY <1>1, <1>2, <1>3, <2>1 DEF Passes
<1>12. Brackets' <=> Brackets
  <2>1. \A q, part : Bracketed(q, part)' <=> Bracketed(q, part)
    BY <1>1, SameSort
  <2> QED BY <1>1, <1>2, <1>3, <2>1 DEF Brackets, Sorting
<1>13. (Sums' <=> Sums) /\ (Files' <=> Files)
  BY <1>1, <1>2, <1>3, <1>4 DEF Sums, Files, Sorting
<1> QED BY <1>6, <1>7, <1>8, <1>9, <1>10, <1>11, <1>12, <1>13 DEF IInv

(* Every step of the rank keeps the invariant.                             *)
LEMMA NextStep ==
  ASSUME IInv, MoversFit, MoversFit', [Next]_vars
  PROVE  IInv'
<1>1. CASE UNCHANGED vars
  BY <1>1, IdleStep
<1>2. CASE Next
  <2>1. Ctl'
    BY <1>2, CtlStep DEF IInv
  <2>2. CASE \E rank \in 0 .. N_PIPELINE :
               uncenter_p(rank) \/ energy_p(rank) \/ accumulate_hydro_p(rank)
                 \/ coarse_count(rank) \/ coarse_sort(rank) \/ subsort(rank)
                 \/ colliding(rank) \/ advance_p(rank)
    BY <2>1, <2>2, RankStep
  <2>3. CASE Uncentered \/ Summed \/ Dump \/ Begin \/ Counted
    BY <2>1, <2>3, UncenteredStep, SummedStep, DumpStep, BeginStep, CountedStep
  <2>4. CASE CoarseSorted \/ Subsorted \/ Collide \/ Collided
    BY <2>1, <2>4, CoarseSortedStep, SubsortedStep, CollideStep, CollidedStep
  <2>5. CASE Advanced \/ inject_particle \/ Drop
    BY <2>1, <2>5, AdvancedStep, InjectStep, DropStep
  <2>6. CASE Done
    BY <2>6, IdleStep DEF Done
  <2> QED BY <1>2, <2>2, <2>3, <2>4, <2>5, <2>6 DEF Next
<1> QED BY <1>1, <1>2

-----------------------------------------------------------------------------
(* When no mover is written past the end: in decks that inject nothing, or *)
(* have room for a mover of every particle.                                *)
Roomy(d) ==
  d.inject = {} \/ \A s \in 1 .. Len(d.species) : d.species[s].max_np <= d.species[s].max_nm

(* At first there are no movers.                                           *)
LEMMA InitFits ==
  ASSUME Init
  PROVE  MoversFit
<1>1. deck \in Decks
  BY DEF Init
<1>2. \A s \in Species : pm[s] = [k \in 0 .. deck.species[s].max_nm - 1 |-> -1]
  BY DEF Init
<1> QED BY <1>2 DEF MoversFit

(* A mover put where there is one already.                                 *)
LEMMA PutIn ==
  ASSUME NEW f, NEW k \in DOMAIN f, NEW v
  PROVE  DOMAIN Put(f, k, v) = DOMAIN f
  BY DEF Put

(* An injection finds room for the mover.                                  *)
LEMMA InjectFits ==
  ASSUME IInv, MoversFit, Roomy(deck), inject_particle
  PROVE  MoversFit'
<1>1. /\ pc = "inject" /\ deck' = deck
  BY DEF inject_particle
<1>2. Species' = Species /\ deck \in Decks /\ Domains
  BY <1>1, SameDeck DEF IInv, Ctl
<1>3. CASE UNCHANGED pm
  BY <1>1, <1>2, <1>3 DEF MoversFit
<1>4. CASE ~ UNCHANGED pm
  <2>1. PICK s \in Species, v \in deck.inject :
          /\ ~ (np(s) >= deck.species[s].max_np)
          /\ pm' = [pm EXCEPT ![s] = Put(@, nm[s], np(s))]
    BY <1>4 DEF inject_particle
  <2>2. deck.species[s].max_np <= deck.species[s].max_nm
    BY <2>1 DEF Roomy, Species
  <2>3. nm[s] <= np(s) /\ nm[s] \in Nat
    <3>1. MoversOK(p[s], np(s), pm[s], nm[s]) /\ List(p[s], np(s))
      BY <1>1 DEF IInv, Places, Census, L, Leaving
    <3>2. InOrder(pm[s], nm[s], np(s))
      BY <3>1 DEF InOrder, MoversOK, List
    <3> QED BY <3>1, <3>2, RoomAfter DEF MoversOK
  <2>4. np(s) \in Nat /\ deck.species[s].max_np \in Nat /\ deck.species[s].max_nm \in Nat
    BY <1>2, DeckIs DEF Domains
  <2>5. DOMAIN pm[s] = 0 .. deck.species[s].max_nm - 1 /\ nm[s] \in DOMAIN pm[s]
    BY <2>1, <2>2, <2>3, <2>4 DEF MoversFit
  <2>6. DOMAIN Put(pm[s], nm[s], np(s)) = 0 .. deck.species[s].max_nm - 1
    BY <2>5, PutIn
  <2>7. pm = [t \in Species |-> pm[t]]
    BY <1>2 DEF Domains
  <2>8. pm'[s] = Put(pm[s], nm[s], np(s)) /\ \A t \in Species : t # s => pm'[t] = pm[t]
    BY <2>1, <2>7
  <2> QED BY <1>1, <1>2, <2>6, <2>8 DEF MoversFit
<1> QED BY <1>3, <1>4

(* Compacting leaves the mover list its length.                            *)
LEMMA CompactedDomain ==
  ASSUME NEW list, NEW segs
  PROVE  DOMAIN Compacted(list, segs) = DOMAIN list
  BY DEF Compacted

(* So does every step.                                                     *)
LEMMA FitsStep ==
  ASSUME IInv, MoversFit, Roomy(deck), [Next]_vars
  PROVE  MoversFit'
<1>1. Domains /\ deck \in Decks /\ call.s \in Species
  BY DEF IInv, Ctl
<1>2. CASE inject_particle
  BY <1>2, InjectFits
<1>3. ASSUME deck' = deck, pm' = pm
      PROVE  MoversFit'
  BY <1>3, SameDeck DEF MoversFit
<1>4. ASSUME deck' = deck, NEW b, DOMAIN b = DOMAIN pm[call.s], pm' = [pm EXCEPT ![call.s] = b]
      PROVE  MoversFit'
  <2>1. pm = [t \in Species |-> pm[t]]
    BY <1>1 DEF Domains
  <2>2. pm'[call.s] = b /\ \A t \in Species : t # call.s => pm'[t] = pm[t]
    BY <1>1, <1>4, <2>1
  <2>3. Species' = Species
    BY <1>4, SameDeck
  <2> QED BY <1>4, <2>2, <2>3 DEF MoversFit
<1>5. CASE Advanced
  <2>1. deck' = deck /\ pm' = [pm EXCEPT ![call.s] = Compacted(pm[call.s], seg)]
    BY <1>5 DEF Advanced
  <2> QED BY <1>4, <2>1, CompactedDomain
<1>6. ASSUME NEW rank \in 0 .. N_PIPELINE, advance_p(rank)
      PROVE  MoversFit'
  <2> DEFINE b == advance_p_pipeline(call.s, rank, call.motion).pm
  <2>1. deck' = deck /\ pm' = [pm EXCEPT ![call.s] = b]
    BY <1>6 DEF advance_p
  <2>2. b = Advance(call.s, rank, Lanes(rank), call.motion).pm
    BY <1>1, <1>6, KernelsAre, Zenon
  <2>3. DOMAIN b = DOMAIN pm[call.s]
    BY <2>2 DEF Advance
  <2> HIDE DEF b
  <2> QED BY <1>4, <2>1, <2>3
<1>7. CASE Uncentered \/ Summed \/ Dump \/ Begin \/ Counted \/ CoarseSorted
           \/ Subsorted \/ Collide \/ Collided \/ Drop \/ Done \/ UNCHANGED vars
  BY <1>3, <1>7, Zenon DEF Uncentered, Summed, Dump, Begin, Counted, CoarseSorted, Subsorted, Collide,
                    Collided, Drop, Done, vars
<1>8. ASSUME NEW rank \in 0 .. N_PIPELINE,
             uncenter_p(rank) \/ energy_p(rank) \/ accumulate_hydro_p(rank)
               \/ coarse_count(rank) \/ coarse_sort(rank) \/ subsort(rank) \/ colliding(rank)
      PROVE  MoversFit'
  BY <1>3, <1>8, Zenon DEF uncenter_p, energy_p, accumulate_hydro_p, coarse_count, coarse_sort, subsort,
                    colliding
<1> QED BY <1>2, <1>5, <1>6, <1>7, <1>8 DEF Next

-----------------------------------------------------------------------------
(* The invariant holds throughout a run in which no mover is written past  *)
(* the end of its list (inject_particle, vpic/misc.cc, only warns).        *)
THEOREM ListsAreSound == Spec /\ []MoversFit => []IInv
<1>1. Init => IInv
  BY InitHolds
<1>2. IInv /\ MoversFit /\ MoversFit' /\ [Next]_vars => IInv'
  BY NextStep
<1> QED BY <1>1, <1>2, PTL DEF Spec

(* None is, in a deck that injects nothing (inject_particle, vpic/misc.cc) *)
(* or has room for a mover of every particle there can be.                 *)
THEOREM RoomForMovers ==
  ASSUME \A d \in Decks : Roomy(d)
  PROVE  Spec => [](IInv /\ MoversFit)
<1>1. Init => IInv /\ MoversFit
  BY InitHolds, InitFits
<1>2. IInv => Roomy(deck)
  BY DEF IInv, Ctl
<1>3. IInv /\ MoversFit /\ Roomy(deck) /\ [Next]_vars => MoversFit'
  BY FitsStep
<1>4. IInv /\ MoversFit /\ MoversFit' /\ [Next]_vars => IInv'
  BY NextStep
<1> QED BY <1>1, <1>2, <1>3, <1>4, PTL DEF Spec

-----------------------------------------------------------------------------
(* What the invariant says of the properties.                              *)

(* The invariant has the types of all state.                               *)
LEMMA TypesFollow ==
  ASSUME IInv, MoversFit
  PROVE  TypeOK
<1>1. /\ pc \in Phases /\ step \in 0 .. MaxStep /\ todo \subseteq 0 .. N_PIPELINE
      /\ deck \in Decks /\ call.s \in Species
  BY DEF IInv, Ctl
<1>2. \A s \in Species :
        /\ DOMAIN p[s] = 0 .. np(s) - 1 /\ np(s) <= deck.species[s].max_np /\ np(s) \in Nat
        /\ nm[s] \in 0 .. deck.species[s].max_nm
        /\ DOMAIN partition[s] = 0 .. n_voxel
  BY DEF IInv, Domains
<1>3. ASSUME NEW s \in Species, ~ (Sorting /\ call.s = s), NEW i \in 0 .. np(s) - 1
      PROVE  p[s][i].i \in Box \/ p[s][i].i \in Faces
  <2>1. CASE pc \notin Leaving \cup {"advance_p"}
    <3>1. Boxed(L(s), np(s))
      BY <2>1 DEF IInv, Places
    <3>2. L(s) = p[s]
      BY <1>3 DEF L, Sorting
    <3> QED BY <1>3, <3>1, <3>2 DEF Boxed
  <2>2. CASE pc \in Leaving
    <3>1. MoversOK(p[s], np(s), pm[s], nm[s])
      BY <2>2 DEF IInv, Places
    <3> QED BY <1>3, <3>1 DEF MoversOK
  <2>3. CASE pc = "advance_p"
    <3>1. IF s < call.s THEN MoversOK(p[s], np(s), pm[s], nm[s])
          ELSE ~ Reached(s, i) => p[s][i].i \in Box
      BY <1>3, <2>3 DEF IInv, Places
    <3>2. CASE s < call.s
      BY <1>3, <3>1, <3>2, Zenon DEF MoversOK
    <3>3. CASE ~ (s < call.s) /\ Reached(s, i)
      <4>1. s = call.s /\ \E r \in (0 .. N_PIPELINE) \ todo : i \in Met(np(s), r)
        BY <3>3 DEF Reached
      <4>2. PICK r \in (0 .. N_PIPELINE) \ todo : i \in Met(np(s), r)
        BY <4>1
      <4>3. Segment(p[s], pm[s], Met(np(s), r), Room(np(s), deck.species[s].max_nm, r), seg[r])
        BY <2>3, <4>1 DEF IInv, Places
      <4> QED BY <4>2, <4>3 DEF Segment
    <3>4. CASE ~ (s < call.s) /\ ~ Reached(s, i)
      BY <3>1, <3>4
    <3> QED BY <3>2, <3>3, <3>4
  <2> QED BY <2>1, <2>2, <2>3
<1> QED BY <1>1, <1>2, <1>3 DEF TypeOK

(* Whole lists have as many ids as particles.                              *)
LEMMA IdsCount ==
  ASSUME NEW q, NEW n, List(q, n)
  PROVE  Cardinality(Ids(q)) = n
<1> DEFINE f == [i \in 0 .. n - 1 |-> q[i].id]
<1>1. n \in Nat /\ DOMAIN q = 0 .. n - 1 /\ \A i, j \in 0 .. n - 1 : q[i].id = q[j].id => i = j
  BY DEF List
<1>2. f \in Bijection(0 .. n - 1, Ids(q))
  <2>1. f \in [0 .. n - 1 -> Ids(q)]
    BY <1>1 DEF Ids
  <2>2. \A i, j \in 0 .. n - 1 : f[i] = f[j] => i = j
    BY <1>1
  <2>3. \A x \in Ids(q) : \E i \in 0 .. n - 1 : f[i] = x
    BY <1>1 DEF Ids
  <2> QED BY <2>1, <2>2, <2>3 DEF Bijection, Injection, Surjection, IsInjective
<1>3. IsFiniteSet(0 .. n - 1) /\ Cardinality(0 .. n - 1) = n
  BY <1>1, FS_Interval
<1>4. ExistsBijection(0 .. n - 1, Ids(q))
  BY <1>2 DEF ExistsBijection
<1> QED BY <1>3, <1>4, FS_Bijection

(* Every particle is on one list, once (Census), and in the dump (Files).  *)
LEMMA AccountFollows ==
  ASSUME IInv
  PROVE  Accounted
<1> SUFFICES ASSUME ~ Sorting, NEW s \in Species
             PROVE  LET ids == {p[s][i].id : i \in DOMAIN p[s]}
                        loaded == ids \cup lost[s]
                    IN /\ Cardinality(ids) = np(s) /\ ids \cap lost[s] = {}
                       /\ {id \in loaded : id < deck.newId} = 1 .. deck.loaded[s]
  BY DEF Accounted
<1>1. L(s) = p[s]
  BY DEF L, Sorting
<1>2. List(p[s], np(s)) /\ Listed(Ids(p[s]), lost[s], Ever, deck.newId, deck.loaded[s])
  BY <1>1 DEF IInv, Census
<1>3. Cardinality(Ids(p[s])) = np(s)
  BY <1>2, IdsCount
<1> QED BY <1>2, <1>3 DEF Listed, Ids

(* The times of the momenta (Momenta) and the sums (Sums) count the        *)
(* kernels.                                                                *)
LEMMA OnceFollows ==
  ASSUME IInv
  PROVE  OncePerKernel
<1>1. deck \in Decks /\ call.s \in Species
  BY DEF IInv, Ctl
<1>2. ASSUME NEW s \in Species, pc # "subsort"
      PROVE  /\ L(s) = p[s] /\ np(s) \in Nat /\ DOMAIN p[s] = 0 .. np(s) - 1
  BY <1>2 DEF IInv, Domains, L
<1>3. ASSUME pc \in {"begin", "collide", "colliding", "energy_p", "hydro_p", "dump"},
             NEW s \in Species, NEW i \in DOMAIN p[s]
      PROVE  p[s][i].t = 2 * step - 1
  BY <1>2, <1>3 DEF IInv, Momenta, Settling
<1>4. ASSUME pc \in {"inject", "remove"}, NEW s \in Species, NEW i \in DOMAIN p[s]
      PROVE  p[s][i].t = 2 * step + 1
  BY <1>2, <1>4 DEF IInv, Momenta, Leaving
<1>5. ASSUME pc \in {"energy_p", "hydro_p"}, todo = {}
      PROVE  Sum(0 .. N_PIPELINE, seg) = np(call.s)
  <2>1. \A r \in 0 .. N_PIPELINE : seg[r] = Cardinality(Met(np(call.s), r))
    BY <1>5 DEF IInv, Sums
  <2>2. np(call.s) \in Nat
    BY <1>1, <1>2, <1>5
  <2> QED BY <1>1, <2>1, <2>2, EveryoneSummed
<1>6. ASSUME pc = "begin", NEW s \in Species
      PROVE  /\ Len(file[s]) = np(s)
             /\ {file[s][k].id : k \in DOMAIN file[s]} = {p[s][i].id : i \in DOMAIN p[s]}
             /\ \A k \in DOMAIN file[s] : file[s][k].t = 2 * step
  <2>1. FileOf(file[s], np(s), Ids(p[s]), 2 * step)
    BY <1>2, <1>6 DEF IInv, Files
  <2> QED BY <2>1 DEF FileOf, Ids
<1> QED BY <1>3, <1>4, <1>5, <1>6 DEF OncePerKernel

(* Movers are in order (Places), of one rank before those of the next      *)
(* (Passes).                                                               *)
LEMMA OrderFollows ==
  ASSUME IInv
  PROVE  MoversInOrder
<1>1. ASSUME pc \in {"inject", "remove"}, NEW s \in Species
      PROVE  /\ \A k \in 1 .. nm[s] - 1 : pm[s][k - 1] < pm[s][k]
             /\ \A k \in 0 .. nm[s] - 1 : pm[s][k] \in DOMAIN p[s]
             /\ \A i \in DOMAIN p[s] :
                  IF \E k \in 0 .. nm[s] - 1 : pm[s][k] = i THEN p[s][i].i \in Faces
                                                          ELSE p[s][i].i \in Box
  <2>1. MoversOK(p[s], np(s), pm[s], nm[s]) /\ DOMAIN p[s] = 0 .. np(s) - 1
    BY <1>1 DEF IInv, Places, Leaving, Domains
  <2>2. ASSUME NEW k \in 1 .. nm[s] - 1
        PROVE  pm[s][k - 1] < pm[s][k]
    <3>1. nm[s] \in Nat /\ k \in 0 .. nm[s] - 1 /\ k - 1 \in 0 .. nm[s] - 1 /\ k - 1 < k
      BY <2>1 DEF MoversOK
    <3> QED BY <2>1, <3>1 DEF MoversOK
  <2> QED BY <2>1, <2>2 DEF MoversOK
<1>2. ASSUME pc \in {"begin", "collide", "colliding", "energy_p", "hydro_p", "dump"}, NEW s \in Species
      PROVE  nm[s] = 0 /\ \A i \in DOMAIN p[s] : p[s][i].i \in Box
  BY <1>2 DEF IInv, Places, Leaving, Domains, L, Boxed
<1> QED BY <1>1, <1>2 DEF MoversInOrder

(* The legacy sort leaves the partition of an empty species as it was.     *)
NoneEmpty == deck.legacy => \A s \in Species : np(s) > 0

(* What a sort left (Brackets) is there until the particles move.          *)
LEMMA SortedFollows ==
  ASSUME IInv, NoneEmpty
  PROVE  Sorted
<1> SUFFICES ASSUME pc \in {"begin", "collide", "colliding"}, NEW s \in Species, last_sorted[s] = step
             PROVE  Bracketed(p[s], partition[s])
  BY DEF Sorted, Bracketed
<1>1. ~ Sorting
  BY DEF Sorting
<1>2. ~ (deck.legacy /\ np(s) = 0)
  BY DEF NoneEmpty
<1> QED BY <1>1, <1>2 DEF IInv, Brackets

-----------------------------------------------------------------------------
(* The particle lists stay lists: every particle in the box or at a face,  *)
(* every list within its memory, whichever ranks ran in which order        *)
(* (sort_p, the collision operators, advance_p, inject_particle).          *)
THEOREM ParticlesTyped ==
  ASSUME \A d \in Decks : Roomy(d)
  PROVE  Spec => []TypeOK
<1>1. IInv /\ MoversFit => TypeOK
  BY TypesFollow
<1> QED BY <1>1, RoomForMovers, PTL

(* The same in any deck, until a mover is written past the end.            *)
THEOREM ParticlesTypedMeanwhile == Spec /\ []MoversFit => []TypeOK
<1>1. IInv /\ MoversFit => TypeOK
  BY TypesFollow
<1> QED BY <1>1, ListsAreSound, PTL

(* Nothing a rank does to the lists loses a particle or makes two of one:  *)
(* sort_p, takizuka_abe, advance_p, the back filling of vpic/advance.cc.   *)
THEOREM NoParticleLost == Spec /\ []MoversFit => []Accounted
<1>1. IInv => Accounted
  BY AccountFollows
<1> QED BY <1>1, ListsAreSound, PTL

(* Every kernel meets every particle once, whatever the vector width and   *)
(* the share of a rank (advance_p, uncenter_p, energy_p, hydro_p and the   *)
(* dump's center_p).                                                       *)
THEOREM KernelsMeetEveryone == Spec /\ []MoversFit => []OncePerKernel
<1>1. IInv => OncePerKernel
  BY OnceFollows
<1> QED BY <1>1, ListsAreSound, PTL

(* The movers of all ranks, compacted by advance_p, are in the order of    *)
(* the particles, one for each that stopped at a face: what the back       *)
(* filling of vpic/advance.cc relies on.                                   *)
THEOREM MoversStayInOrder == Spec /\ []MoversFit => []MoversInOrder
<1>1. IInv => MoversInOrder
  BY OrderFollows
<1> QED BY <1>1, ListsAreSound, PTL

(* A sort, threaded or legacy, leaves a partition that brackets the        *)
(* particles of every voxel, and the collisions do not disturb it          *)
(* (sort_p; partition of species_advance_aos.h), the legacy sort unless a  *)
(* species has no particles (sort_p.cc).                                   *)
THEOREM SortsBracketVoxels == Spec /\ []MoversFit /\ []NoneEmpty => []Sorted
<1>1. IInv /\ NoneEmpty => Sorted
  BY SortedFollows
<1> QED BY <1>1, ListsAreSound, PTL
=============================================================================
