------------------------------- MODULE Loops -------------------------------
(***************************************************************************)
(* The rule of loop invariants, for the folds that stand for the code's    *)
(* loops over an array.  Op is the body of the loop: what iteration makes  *)
(* of the accumulator and the item, given what the loop leaves alone (x,   *)
(* y, z).  A module that proves something of a loop takes an instance of   *)
(* this one with the body it has.                                          *)
(***************************************************************************)
EXTENDS Integers, WellFoundedInduction, TLAPS

CONSTANT Op(_, _, _, _, _)

(* From the first item to the last, and from the last to the first: what   *)
(* FoldLeft and FoldRight of SequencesExt are with Op for the operator,    *)
(* written out so that an instance is of this module alone.                *)
Greatest(s) == CHOOSE i \in s : \A j \in s : i >= j
Least(s) == CHOOSE i \in s : \A j \in s : i =< j
Left(x, y, z, base, seq) ==
  LET it[s \in SUBSET (DOMAIN seq)] ==
        IF s = {} THEN base
        ELSE LET i == Greatest(s) IN Op(x, y, z, it[s \ {i}], seq[i])
  IN it[DOMAIN seq]
Right(x, y, z, base, seq) ==
  LET it[s \in SUBSET (DOMAIN seq)] ==
        IF s = {} THEN base
        ELSE LET i == Least(s) IN Op(x, y, z, it[s \ {i}], seq[i])
  IN it[DOMAIN seq]

-----------------------------------------------------------------------------
(* Induction, as a fact about sets of numbers.                             *)
LEMMA LeastNumber ==
  ASSUME NEW S, S \subseteq Nat, S # {}
  PROVE  \E m \in S : \A k \in S : m <= k
<1> DEFINE R == OpToRel(<, Nat)
<1>1. \A i, j \in Nat : i < j => <<i, j>> \in R
  BY DEF OpToRel
<1>2. IsWellFoundedOn(R, Nat)
  BY NatLessThanWellFounded
<1> HIDE DEF R
<1>3. PICK m \in S : \A k \in S : ~ (<<k, m>> \in R)
  BY <1>2, WFMin
<1>4. \A k \in S : ~ (k < m)
  BY <1>1, <1>3, Zenon
<1>5. \A k \in S : m <= k
  BY <1>4, SMT
<1> QED BY <1>5

(* A set that has 0 and with each number the next has them all.            *)
LEMMA Induction ==
  ASSUME NEW S, 0 \in S, \A k \in Nat : k \in S => k + 1 \in S
  PROVE  \A k \in Nat : k \in S
<1> SUFFICES ASSUME Nat \ S # {} PROVE FALSE
  OBVIOUS
<1>1. PICK m \in Nat \ S : \A k \in Nat \ S : m <= k
  <2>1. Nat \ S \subseteq Nat OBVIOUS
  <2> QED BY <2>1, LeastNumber
<1>2. m - 1 \in Nat /\ m - 1 \notin Nat \ S
  BY <1>1
<1> QED BY <1>1, <1>2

(* The largest and the smallest index of a set of indexes.                 *)
LEMMA GreatestIs ==
  ASSUME NEW n \in Nat, NEW s \in SUBSET (1 .. n), s # {}
  PROVE  /\ Greatest(s) \in s /\ \A i \in s : i <= Greatest(s)
         /\ s \ {Greatest(s)} \in SUBSET (1 .. n)
<1> DEFINE T == {j \in Nat : \A i \in s : i <= j}
<1>1. n \in T
  OBVIOUS
<1>2. PICK m \in T : \A j \in T : m <= j
  BY <1>1, LeastNumber
<1>3. m \in s
  <2> SUFFICES ASSUME m \notin s PROVE FALSE
    OBVIOUS
  <2>1. \A i \in s : i <= m - 1
    BY <1>2
  <2>2. PICK i \in s : TRUE
    OBVIOUS
  <2>3. i \in 1 .. n /\ i <= m /\ m \in Nat
    BY <1>2
  <2>4. m - 1 \in Nat
    BY <2>3
  <2> QED BY <1>2, <2>1, <2>4
<1>4. \E i \in s : \A j \in s : i >= j
  BY <1>2, <1>3
<1>5. Greatest(s) \in s /\ \A j \in s : Greatest(s) >= j
  BY <1>4, Zenon DEF Greatest
<1> QED BY <1>5

(* Likewise the smallest.                                                  *)
LEMMA LeastIs ==
  ASSUME NEW n \in Nat, NEW s \in SUBSET (1 .. n), s # {}
  PROVE  /\ Least(s) \in s /\ \A i \in s : Least(s) <= i
         /\ s \ {Least(s)} \in SUBSET (1 .. n)
<1>1. s \subseteq Nat
  OBVIOUS
<1>2. \E i \in s : \A j \in s : i <= j
  BY <1>1, LeastNumber
<1>3. Least(s) \in s /\ \A j \in s : Least(s) <= j
  BY <1>2, Zenon DEF Least
<1> QED BY <1>3
-----------------------------------------------------------------------------
(* What the folds choose: a function of the sets of indexes gone through.  *)
Forth(x, y, z, base, seq, D, it) ==
  it = [s \in SUBSET D |-> IF s = {} THEN base
                           ELSE Op(x, y, z, it[s \ {Greatest(s)}], seq[Greatest(s)])]
Back(x, y, z, base, seq, D, it) ==
  it = [s \in SUBSET D |-> IF s = {} THEN base
                           ELSE Op(x, y, z, it[s \ {Least(s)}], seq[Least(s)])]

(* There is one for the first k items ...                                  *)
LEMMA ForthExists ==
  ASSUME NEW x, NEW y, NEW z, NEW base, NEW seq, NEW n \in Nat
  PROVE  \E it : Forth(x, y, z, base, seq, 1 .. n, it)
<1> DEFINE S == {k \in Nat : \E it : Forth(x, y, z, base, seq, 1 .. k, it)}
<1>1. 0 \in S
  <2> DEFINE it == [s \in SUBSET (1 .. 0) |-> base]
  <2>1. \A s \in SUBSET (1 .. 0) : s = {}
    OBVIOUS
  <2>2. it = [s \in SUBSET (1 .. 0) |-> IF s = {} THEN base
                           ELSE Op(x, y, z, it[s \ {Greatest(s)}], seq[Greatest(s)])]
    BY <2>1
  <2> HIDE DEF it
  <2>3. Forth(x, y, z, base, seq, 1 .. 0, it)
    BY <2>2 DEF Forth
  <2> QED BY <2>3
<1>2. ASSUME NEW k \in Nat, k \in S
      PROVE  k + 1 \in S
  <2>1. PICK it : Forth(x, y, z, base, seq, 1 .. k, it)
    BY <1>2
  <2> DEFINE D == SUBSET (1 .. k + 1)
             jt == [s \in D |-> IF s \in SUBSET (1 .. k) THEN it[s]
                                ELSE Op(x, y, z, it[s \ {k + 1}], seq[k + 1])]
             G(s) == IF s = {} THEN base ELSE Op(x, y, z, jt[s \ {Greatest(s)}], seq[Greatest(s)])
  <2>2. ASSUME NEW s \in D
        PROVE  jt[s] = G(s)
    <3>1. CASE s \in SUBSET (1 .. k)
      <4>1. jt[s] = it[s]
        BY <3>1
      <4>2. it[s] = IF s = {} THEN base ELSE Op(x, y, z, it[s \ {Greatest(s)}], seq[Greatest(s)])
        BY <2>1, <3>1, Zenon DEF Forth
      <4>3. s # {} => s \ {Greatest(s)} \in SUBSET (1 .. k) /\ s \ {Greatest(s)} \in D
        BY <3>1, GreatestIs
      <4>4. s # {} => jt[s \ {Greatest(s)}] = it[s \ {Greatest(s)}]
        BY <4>3, Zenon
      <4> HIDE DEF jt
      <4> QED BY <4>1, <4>2, <4>4, Zenon
    <3>2. CASE s \notin SUBSET (1 .. k)
      <4>1. k + 1 \in s /\ s # {}
        BY <3>2
      <4>2. Greatest(s) = k + 1
        <5>1. Greatest(s) \in s /\ \A i \in s : i <= Greatest(s)
          BY <4>1, GreatestIs
        <5>2. Greatest(s) \in 1 .. k + 1 /\ k + 1 <= Greatest(s)
          BY <4>1, <5>1, Zenon
        <5> QED BY <5>2
      <4>3. s \ {k + 1} \in SUBSET (1 .. k) /\ s \ {k + 1} \in D
        OBVIOUS
      <4>4. jt[s \ {k + 1}] = it[s \ {k + 1}]
        BY <4>3, Zenon
      <4>5. jt[s] = Op(x, y, z, it[s \ {k + 1}], seq[k + 1])
        BY <3>2, Zenon
      <4> HIDE DEF jt
      <4> QED BY <4>1, <4>2, <4>4, <4>5, Zenon
    <3> QED BY <3>1, <3>2
  <2>3. jt = [s \in D |-> jt[s]]
    OBVIOUS
  <2> HIDE DEF jt, D
  <2>4. jt = [s \in D |-> G(s)]
    BY <2>2, <2>3
  <2>5. Forth(x, y, z, base, seq, 1 .. k + 1, jt)
    BY <2>4, Zenon DEF Forth, D
  <2> QED BY <2>5
<1> HIDE DEF S
<1>3. n \in S
  BY <1>1, <1>2, Induction
<1> QED BY <1>3 DEF S

(* ... and for the last k.                                                 *)
LEMMA BackExists ==
  ASSUME NEW x, NEW y, NEW z, NEW base, NEW seq, NEW n \in Nat
  PROVE  \E it : Back(x, y, z, base, seq, 1 .. n, it)
<1> DEFINE S == {k \in Nat : k <= n => \E it : Back(x, y, z, base, seq, n + 1 - k .. n, it)}
<1>1. 0 \in S
  <2> DEFINE N == n + 1 - 0 .. n
             it == [s \in SUBSET N |-> base]
  <2>1. \A s \in SUBSET N : s = {}
    OBVIOUS
  <2> HIDE DEF N
  <2>2. it = [s \in SUBSET N |-> IF s = {} THEN base
                           ELSE Op(x, y, z, it[s \ {Least(s)}], seq[Least(s)])]
    BY <2>1
  <2> HIDE DEF it
  <2>3. Back(x, y, z, base, seq, N, it)
    BY <2>2 DEF Back
  <2> QED BY <2>3 DEF N
<1>2. ASSUME NEW k \in Nat, k \in S
      PROVE  k + 1 \in S
  <2> SUFFICES ASSUME k + 1 <= n
               PROVE  \E it : Back(x, y, z, base, seq, n + 1 - (k + 1) .. n, it)
    OBVIOUS
  <2> DEFINE m == n - k
             E == m + 1 .. n
             D == SUBSET (m .. n)
  <2>1. PICK it : Back(x, y, z, base, seq, E, it)
    <3>1. n + 1 - k = m + 1
      OBVIOUS
    <3> QED BY <1>2, <3>1
  <2>2. m \in 1 .. n /\ n + 1 - (k + 1) = m
    OBVIOUS
  <2> HIDE DEF m
  <2> DEFINE jt == [s \in D |-> IF s \in SUBSET E THEN it[s]
                                ELSE Op(x, y, z, it[s \ {m}], seq[m])]
             G(s) == IF s = {} THEN base ELSE Op(x, y, z, jt[s \ {Least(s)}], seq[Least(s)])
  <2>3. ASSUME NEW s \in D
        PROVE  jt[s] = G(s)
    <3>1. s \in SUBSET (1 .. n)
      BY <2>2
    <3>2. CASE s \in SUBSET E
      <4>1. jt[s] = it[s]
        BY <3>2
      <4>2. it[s] = IF s = {} THEN base ELSE Op(x, y, z, it[s \ {Least(s)}], seq[Least(s)])
        BY <2>1, <3>2, Zenon DEF Back
      <4>3. s # {} => s \ {Least(s)} \in SUBSET E /\ s \ {Least(s)} \in D
        BY <3>2
      <4>4. s # {} => jt[s \ {Least(s)}] = it[s \ {Least(s)}]
        BY <4>3, Zenon
      <4> HIDE DEF jt
      <4> QED BY <4>1, <4>2, <4>4, Zenon
    <3>3. CASE s \notin SUBSET E
      <4>1. m \in s /\ s # {}
        BY <2>2, <3>3
      <4>2. Least(s) = m
        <5>1. Least(s) \in s /\ \A i \in s : Least(s) <= i
          BY <3>1, <4>1, LeastIs
        <5>2. Least(s) \in m .. n /\ Least(s) <= m
          BY <4>1, <5>1, Zenon
        <5> QED BY <2>2, <5>2
      <4>3. s \ {m} \in SUBSET E /\ s \ {m} \in D
        BY <2>2
      <4>4. jt[s \ {m}] = it[s \ {m}]
        BY <4>3, Zenon
      <4>5. jt[s] = Op(x, y, z, it[s \ {m}], seq[m])
        BY <3>3, Zenon
      <4> HIDE DEF jt
      <4> QED BY <4>1, <4>2, <4>4, <4>5, Zenon
    <3> QED BY <3>2, <3>3
  <2>4. jt = [s \in D |-> jt[s]]
    OBVIOUS
  <2> HIDE DEF jt, D
  <2>5. jt = [s \in D |-> G(s)]
    BY <2>3, <2>4
  <2>6. Back(x, y, z, base, seq, m .. n, jt)
    BY <2>5, Zenon DEF Back, D
  <2> QED BY <2>2, <2>6
<1> HIDE DEF S
<1>3. n \in S
  BY <1>1, <1>2, Induction
<1>4. n + 1 - n = 1
  OBVIOUS
<1> QED BY <1>3, <1>4 DEF S
-----------------------------------------------------------------------------
(* The rule: what holds before the first item, and after an item if it     *)
(* held before, holds at the end.  I[k] are the accumulators for which the *)
(* invariant holds when k items have been gone through.                    *)
THEOREM LeftRule ==
  ASSUME NEW x, NEW y, NEW z, NEW base, NEW seq, NEW n \in Nat, DOMAIN seq = 1 .. n,
         NEW I, base \in I[0],
         \A k \in 1 .. n : \A a \in I[k - 1] : Op(x, y, z, a, seq[k]) \in I[k]
  PROVE  Left(x, y, z, base, seq) \in I[n]
<1> DEFINE it == CHOOSE i : Forth(x, y, z, base, seq, 1 .. n, i)
           S == {k \in Nat : k <= n => it[1 .. k] \in I[k]}
<1>1. Left(x, y, z, base, seq) = it[1 .. n]
  BY Zenon DEF Left, Forth
<1>2. Forth(x, y, z, base, seq, 1 .. n, it)
  BY ForthExists, Zenon
<1> HIDE DEF it
<1>3. 0 \in S
  <2>1. 1 .. 0 = {} /\ {} \in SUBSET (1 .. n)
    OBVIOUS
  <2>2. it[{}] = base
    BY <1>2, <2>1, Zenon DEF Forth
  <2> QED BY <2>1, <2>2
<1>4. ASSUME NEW k \in Nat, k \in S
      PROVE  k + 1 \in S
  <2> SUFFICES ASSUME k + 1 <= n
               PROVE  it[1 .. k + 1] \in I[k + 1]
    OBVIOUS
  <2> DEFINE s == 1 .. k + 1
  <2>1. s \in SUBSET (1 .. n) /\ s # {} /\ k + 1 \in s /\ s \ {k + 1} = 1 .. k /\ k + 1 \in 1 .. n
    <3>1. k + 1 \in s /\ k + 1 \in 1 .. n
      OBVIOUS
    <3>2. s \in SUBSET (1 .. n)
      OBVIOUS
    <3>3. s \ {k + 1} = 1 .. k
      OBVIOUS
    <3> QED BY <3>1, <3>2, <3>3
  <2>2. Greatest(s) = k + 1
    <3> HIDE DEF s
    <3>1. Greatest(s) \in s /\ \A i \in s : i <= Greatest(s)
      BY <2>1, GreatestIs
    <3> USE DEF s
    <3>2. Greatest(s) \in 1 .. k + 1 /\ k + 1 <= Greatest(s)
      BY <2>1, <3>1, Zenon
    <3> QED BY <3>2
  <2> HIDE DEF s
  <2>3. it[s] = Op(x, y, z, it[1 .. k], seq[k + 1])
    <3>1. it[s] = Op(x, y, z, it[s \ {Greatest(s)}], seq[Greatest(s)])
      BY <1>2, <2>1, Zenon DEF Forth
    <3> QED BY <2>1, <2>2, <3>1, Zenon
  <2>4. it[1 .. k] \in I[k]
    BY <1>4
  <2>5. (k + 1) - 1 = k
    OBVIOUS
  <2>6. Op(x, y, z, it[1 .. k], seq[k + 1]) \in I[k + 1]
    BY <2>1, <2>4, <2>5
  <2> QED BY <2>3, <2>6, Zenon DEF s
<1> HIDE DEF S
<1>5. n \in S
  BY <1>3, <1>4, Induction
<1> QED BY <1>1, <1>5 DEF S

(* Likewise from the last item to the first; I[k] are the accumulators for *)
(* which the invariant holds when k items are left.                        *)
THEOREM RightRule ==
  ASSUME NEW x, NEW y, NEW z, NEW base, NEW seq, NEW n \in Nat, DOMAIN seq = 1 .. n,
         NEW I, base \in I[n],
         \A k \in 1 .. n : \A a \in I[k] : Op(x, y, z, a, seq[k]) \in I[k - 1]
  PROVE  Right(x, y, z, base, seq) \in I[0]
<1> DEFINE it == CHOOSE i : Back(x, y, z, base, seq, 1 .. n, i)
           S == {k \in Nat : k <= n => it[n + 1 - k .. n] \in I[n - k]}
<1>1. Right(x, y, z, base, seq) = it[1 .. n]
  BY Zenon DEF Right, Back
<1>2. Back(x, y, z, base, seq, 1 .. n, it)
  BY BackExists, Zenon
<1> HIDE DEF it
<1>3. 0 \in S
  <2>1. n + 1 - 0 .. n = {} /\ {} \in SUBSET (1 .. n) /\ n - 0 = n
    OBVIOUS
  <2>2. it[{}] = base
    BY <1>2, <2>1, Zenon DEF Back
  <2> QED BY <2>1, <2>2
<1>4. ASSUME NEW k \in Nat, k \in S
      PROVE  k + 1 \in S
  <2> SUFFICES ASSUME k + 1 <= n
               PROVE  it[n + 1 - (k + 1) .. n] \in I[n - (k + 1)]
    OBVIOUS
  <2> DEFINE m == n - k
             s == m .. n
  <2>1. /\ m \in 1 .. n /\ n + 1 - (k + 1) = m /\ n + 1 - k = m + 1 /\ n - (k + 1) = m - 1
        /\ n - k = m
    OBVIOUS
  <2> HIDE DEF m
  <2>2. s \in SUBSET (1 .. n) /\ s # {} /\ m \in s /\ s \ {m} = m + 1 .. n
    <3>1. m \in s
      BY <2>1
    <3>2. s \in SUBSET (1 .. n)
      BY <2>1
    <3>3. s \ {m} = m + 1 .. n
      BY <2>1
    <3> QED BY <3>1, <3>2, <3>3
  <2>3. Least(s) = m
    <3>1. Least(s) \in s /\ \A i \in s : Least(s) <= i
      BY <2>2, LeastIs, Zenon
    <3>2. Least(s) \in m .. n /\ Least(s) <= m
      BY <2>2, <3>1, Zenon
    <3> QED BY <2>1, <3>2
  <2> HIDE DEF s
  <2>4. it[s] = Op(x, y, z, it[m + 1 .. n], seq[m])
    <3>1. it[s] = Op(x, y, z, it[s \ {Least(s)}], seq[Least(s)])
      BY <1>2, <2>2, Zenon DEF Back
    <3> QED BY <2>2, <2>3, <3>1, Zenon
  <2>5. it[m + 1 .. n] \in I[m]
    BY <1>4, <2>1
  <2>6. Op(x, y, z, it[m + 1 .. n], seq[m]) \in I[m - 1]
    BY <2>1, <2>5, Zenon
  <2> QED BY <2>1, <2>4, <2>6, Zenon DEF s
<1> HIDE DEF S
<1>5. n \in S
  BY <1>3, <1>4, Induction
<1>6. n + 1 - n = 1 /\ n - n = 0
  OBVIOUS
<1> QED BY <1>1, <1>5, <1>6 DEF S

(* What every iteration keeps holds at the end.                            *)
THEOREM LeftKeeps ==
  ASSUME NEW x, NEW y, NEW z, NEW base, NEW seq, NEW n \in Nat, DOMAIN seq = 1 .. n,
         NEW S, base \in S,
         \A k \in 1 .. n : \A a \in S : Op(x, y, z, a, seq[k]) \in S
  PROVE  Left(x, y, z, base, seq) \in S
<1> DEFINE I == [k \in 0 .. n |-> S]
<1>1. I[0] = S /\ I[n] = S /\ \A k \in 1 .. n : I[k] = S /\ I[k - 1] = S
  OBVIOUS
<1> HIDE DEF I
<1>2. base \in I[0]
  BY <1>1
<1>3. \A k \in 1 .. n : \A a \in I[k - 1] : Op(x, y, z, a, seq[k]) \in I[k]
  BY <1>1, Zenon
<1>4. Left(x, y, z, base, seq) \in I[n]
  BY <1>2, <1>3, LeftRule, Zenon
<1> QED BY <1>1, <1>4, Zenon

(* A loop over no item.                                                    *)
LEMMA LeftNone ==
  ASSUME NEW x, NEW y, NEW z, NEW base, NEW seq, DOMAIN seq = 1 .. 0
  PROVE  Left(x, y, z, base, seq) = base
<1>1. 0 \in Nat /\ base \in [k \in {0} |-> {base}][0] /\ 1 .. 0 = {}
  OBVIOUS
<1>2. Left(x, y, z, base, seq) \in [k \in {0} |-> {base}][0]
  BY <1>1, LeftRule, Zenon
<1> QED BY <1>2

(* A loop over one item more.                                              *)
LEMMA LeftStep ==
  ASSUME NEW x, NEW y, NEW z, NEW base, NEW seq, NEW n \in Nat \ {0}, DOMAIN seq = 1 .. n,
         NEW most, DOMAIN most = 1 .. n - 1, \A k \in 1 .. n - 1 : most[k] = seq[k]
  PROVE  Left(x, y, z, base, seq) = Op(x, y, z, Left(x, y, z, base, most), seq[n])
<1> PICK it : Forth(x, y, z, base, seq, 1 .. n, it)
  BY ForthExists
<1> DEFINE I == [k \in 0 .. n |-> {it[1 .. k]}]
<1>1. \A k \in 0 .. n : I[k] = {it[1 .. k]}
  OBVIOUS
<1> HIDE DEF I
<1>2. it[1 .. 0] = base
  <2>1. 1 .. 0 = {} /\ {} \in SUBSET (1 .. n)
    OBVIOUS
  <2>2. it[{}] = base
    BY <2>1, Zenon DEF Forth
  <2> QED BY <2>1, <2>2
<1>3. ASSUME NEW k \in 1 .. n
      PROVE  it[1 .. k] = Op(x, y, z, it[1 .. k - 1], seq[k])
  <2> DEFINE s == 1 .. k
  <2>1. s \in SUBSET (1 .. n) /\ s # {} /\ k \in s /\ s \ {k} = 1 .. k - 1
    <3>1. s \ {k} = 1 .. k - 1
      OBVIOUS
    <3>2. s \in SUBSET (1 .. n)
      OBVIOUS
    <3>3. k \in s
      OBVIOUS
    <3> HIDE DEF s
    <3> QED BY <3>1, <3>2, <3>3
  <2>2. Greatest(s) = k
    <3> HIDE DEF s
    <3>1. Greatest(s) \in s /\ \A i \in s : i <= Greatest(s)
      BY <2>1, GreatestIs
    <3> USE DEF s
    <3>2. Greatest(s) \in 1 .. k /\ k <= Greatest(s)
      BY <2>1, <3>1, Zenon
    <3> QED BY <3>2
  <2> HIDE DEF s
  <2>3. it[s] = Op(x, y, z, it[s \ {Greatest(s)}], seq[Greatest(s)])
    BY <2>1, Zenon DEF Forth
  <2> QED BY <2>1, <2>2, <2>3, Zenon DEF s
<1>4. base \in I[0]
  BY <1>1, <1>2
<1>5. \A k \in 1 .. n : k - 1 \in 0 .. n /\ k \in 0 .. n
  OBVIOUS
<1>6. \A k \in 1 .. n : \A a \in I[k - 1] : Op(x, y, z, a, seq[k]) \in I[k]
  BY <1>1, <1>3, <1>5
<1>7. Left(x, y, z, base, seq) = it[1 .. n]
  <2>1. Left(x, y, z, base, seq) \in I[n]
    BY <1>4, <1>6, LeftRule, Zenon
  <2> QED BY <1>1, <2>1
<1>8. n - 1 \in Nat /\ n \in 1 .. n /\ n - 1 \in 0 .. n /\ \A k \in 1 .. n - 1 : k \in 1 .. n
  OBVIOUS
<1>9. \A k \in 1 .. n - 1 : \A a \in I[k - 1] : Op(x, y, z, a, most[k]) \in I[k]
  BY <1>6, <1>8, Zenon
<1>10. Left(x, y, z, base, most) \in I[n - 1]
  BY <1>4, <1>8, <1>9, LeftRule, Zenon
<1>11. Left(x, y, z, base, most) = it[1 .. n - 1]
  BY <1>1, <1>8, <1>10
<1> QED BY <1>3, <1>7, <1>8, <1>11, Zenon

(* Likewise from the last item to the first.                               *)
THEOREM RightKeeps ==
  ASSUME NEW x, NEW y, NEW z, NEW base, NEW seq, NEW n \in Nat, DOMAIN seq = 1 .. n,
         NEW S, base \in S,
         \A k \in 1 .. n : \A a \in S : Op(x, y, z, a, seq[k]) \in S
  PROVE  Right(x, y, z, base, seq) \in S
<1> DEFINE I == [k \in 0 .. n |-> S]
<1>1. I[0] = S /\ I[n] = S /\ \A k \in 1 .. n : I[k] = S /\ I[k - 1] = S
  OBVIOUS
<1> HIDE DEF I
<1>2. base \in I[n]
  BY <1>1
<1>3. \A k \in 1 .. n : \A a \in I[k] : Op(x, y, z, a, seq[k]) \in I[k - 1]
  BY <1>1, Zenon
<1>4. Right(x, y, z, base, seq) \in I[0]
  BY <1>2, <1>3, RightRule, Zenon
<1> QED BY <1>1, <1>4, Zenon
-----------------------------------------------------------------------------
(* A loop over 1 .. n written as a recursive function, and its rule.       *)
Counted(x, y, z, base, n) ==
  LET f[k \in 0 .. n] == IF k = 0 THEN base ELSE Op(x, y, z, f[k - 1], k) IN f[n]
Goes(x, y, z, base, n, f) ==
  f = [k \in 0 .. n |-> IF k = 0 THEN base ELSE Op(x, y, z, f[k - 1], k)]

(* There is such a function, whatever the bound.                           *)
LEMMA CountedExists ==
  ASSUME NEW x, NEW y, NEW z, NEW base, NEW n \in Nat
  PROVE  \E f : Goes(x, y, z, base, n, f)
<1> DEFINE S == {k \in Nat : \E f : Goes(x, y, z, base, k, f)}
<1>1. 0 \in S
  <2>1. Goes(x, y, z, base, 0, [k \in 0 .. 0 |-> base])
    BY DEF Goes
  <2> QED BY <2>1
<1>2. ASSUME NEW k \in Nat, k \in S
      PROVE  k + 1 \in S
  <2>1. PICK f : Goes(x, y, z, base, k, f)
    BY <1>2
  <2> DEFINE g == [j \in 0 .. k + 1 |-> IF j <= k THEN f[j] ELSE Op(x, y, z, f[k], k + 1)]
             h == [j \in 0 .. k + 1 |-> IF j = 0 THEN base ELSE Op(x, y, z, g[j - 1], j)]
  <2>2. \A j \in 0 .. k : f[j] = IF j = 0 THEN base ELSE Op(x, y, z, f[j - 1], j)
    BY <2>1, Zenon DEF Goes
  <2>3. \A j \in 0 .. k + 1 : g[j] = h[j]
    <3> TAKE j \in 0 .. k + 1
    <3>1. CASE j = 0
      BY <3>1, <2>2
    <3>2. CASE j \in 1 .. k
      <4>1. j \in 0 .. k /\ j - 1 \in 0 .. k + 1 /\ j - 1 <= k /\ j # 0 /\ j <= k
        BY <3>2
      <4> QED BY <4>1, <2>2
    <3>3. CASE j = k + 1
      <4>1. j - 1 = k /\ k \in 0 .. k + 1 /\ k <= k /\ j # 0 /\ ~ (j <= k)
        BY <3>3
      <4> QED BY <4>1, <3>3
    <3> QED BY <3>1, <3>2, <3>3
  <2>4. g = h
    <3> HIDE DEF S
    <3> QED BY <2>3, Zenon
  <2> HIDE DEF g
  <2>5. Goes(x, y, z, base, k + 1, g)
    BY <2>4, Zenon DEF Goes
  <2> QED BY <2>5
<1> HIDE DEF S
<1>3. n \in S
  BY <1>1, <1>2, Induction
<1> QED BY <1>3 DEF S

(* What holds before, and after each turn if it held before it, holds at   *)
(* the end; I[k] are the values for which it holds after k turns.          *)
THEOREM CountedRule ==
  ASSUME NEW x, NEW y, NEW z, NEW base, NEW n \in Nat, NEW I, base \in I[0],
         \A k \in 1 .. n : \A a \in I[k - 1] : Op(x, y, z, a, k) \in I[k]
  PROVE  Counted(x, y, z, base, n) \in I[n]
<1> DEFINE f == CHOOSE g : Goes(x, y, z, base, n, g)
           S == {k \in Nat : k <= n => f[k] \in I[k]}
<1>1. Counted(x, y, z, base, n) = f[n]
  BY Zenon DEF Counted, Goes
<1>2. Goes(x, y, z, base, n, f)
  BY CountedExists, Zenon
<1> HIDE DEF f
<1>3. \A k \in 0 .. n : f[k] = IF k = 0 THEN base ELSE Op(x, y, z, f[k - 1], k)
  BY <1>2, Zenon DEF Goes
<1>4. 0 \in S
  BY <1>3
<1>5. ASSUME NEW k \in Nat, k \in S
      PROVE  k + 1 \in S
  <2> SUFFICES ASSUME k + 1 <= n PROVE f[k + 1] \in I[k + 1]
    OBVIOUS
  <2>1. k + 1 \in 1 .. n /\ k + 1 \in 0 .. n /\ (k + 1) - 1 = k /\ k + 1 # 0 /\ f[k] \in I[k]
    BY <1>5
  <2>2. f[k + 1] = Op(x, y, z, f[k], k + 1)
    BY <1>3, <2>1
  <2>3. Op(x, y, z, f[k], k + 1) \in I[k + 1]
    BY <2>1
  <2> QED BY <2>2, <2>3
<1> HIDE DEF S
<1>6. n \in S
  BY <1>4, <1>5, Induction
<1> QED BY <1>1, <1>6 DEF S
=============================================================================
