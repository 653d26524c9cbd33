----------------------------- MODULE GridProofs -----------------------------
(***************************************************************************)
(* The tables of Grid, for a box of any size: what each rank works out     *)
(* from its own number is the undivided box.  First what the encodings of  *)
(* ranks and voxels as numbers need of arithmetic, then what the calls of  *)
(* a partition function leave in a rank's tables, then the comparison.     *)
(* The arithmetic is that of the shares of Workload, which come first: for *)
(* every number of items, block size and number of pipelines.              *)
(***************************************************************************)
EXTENDS Grid, Workload, TLAPS

-----------------------------------------------------------------------------
(* Workload: the shares of a range.                                        *)

(* A quotient and its remainder.                                           *)
LEMMA Division ==
  ASSUME NEW a \in Int, NEW d \in Nat \ {0}
  PROVE  /\ a \div d \in Int /\ a % d \in Nat /\ a % d < d
         /\ a = d * (a \div d) + (a % d)
         /\ a \in Nat => a \div d \in Nat
  OBVIOUS

(* The order of products.                                                  *)
LEMMA Product ==
  ASSUME NEW d \in Nat \ {0}, NEW q \in Int, NEW r \in Int
  PROVE  /\ d * q \in Int /\ d * r \in Int
         /\ q <= r => d * q <= d * r
         /\ q < r => d * q + d <= d * r
         /\ d * q < d * r + d => q <= r
  OBVIOUS

(* A quotient is the one multiple that fits.                               *)
LEMMA Quotient ==
  ASSUME NEW a \in Int, NEW d \in Nat \ {0}, NEW q \in Int,
         d * q <= a, a < d * q + d
  PROVE  a \div d = q /\ a % d = a - d * q
  OBVIOUS

-----------------------------------------------------------------------------
(* What rounding makes of a cut: the two sides between which it lies.      *)
LEMMA CutBounds ==
  ASSUME NEW k \in Nat, NEW P \in Nat \ {0}, NEW p \in Nat
  PROVE  /\ Cut(k, p, P) \in Nat
         /\ (2 * P) * Cut(k, p, P) <= 2 * k * p + P
         /\ 2 * k * p + P < (2 * P) * Cut(k, p, P) + 2 * P
<1>1. 2 * k * p + P \in Nat
  OBVIOUS
<1>2. 2 * P \in Nat \ {0}
  OBVIOUS
<1>3. DEFINE a == 2 * k * p + P
             d == 2 * P
<1>4. a \in Nat /\ d \in Nat \ {0}
  BY <1>1, <1>2
<1>5. /\ a \div d \in Nat /\ d * (a \div d) <= a /\ a < d * (a \div d) + d
  <2> HIDE DEF a, d
  <2> QED BY <1>4, Division
<1> QED
  BY <1>5 DEF Cut

(* The first cut is at 0 and the last one at the end.                      *)
LEMMA CutEnds ==
  ASSUME NEW k \in Nat, NEW P \in Nat \ {0}
  PROVE  Cut(k, 0, P) = 0 /\ Cut(k, P, P) = k
<1>1. Cut(k, 0, P) = 0
  <2>1. (2 * P) * 0 <= P /\ P < (2 * P) * 0 + 2 * P /\ 2 * P \in Nat \ {0}
    OBVIOUS
  <2>2. P \div (2 * P) = 0
    BY <2>1, Quotient
  <2> QED BY <2>2 DEF Cut
<1>2. Cut(k, P, P) = k
  <2>1. 2 * k * P + P \in Nat /\ 2 * P \in Nat \ {0}
    OBVIOUS
  <2>2. (2 * P) * k <= 2 * k * P + P /\ 2 * k * P + P < (2 * P) * k + 2 * P
    OBVIOUS
  <2>3. (2 * k * P + P) \div (2 * P) = k
    BY <2>1, <2>2, Quotient
  <2> QED BY <2>3 DEF Cut
<1> QED BY <1>1, <1>2

(* Cuts are in order.                                                      *)
LEMMA CutOrder ==
  ASSUME NEW k \in Nat, NEW P \in Nat \ {0}, NEW p \in Nat, NEW q \in Nat, p <= q
  PROVE  Cut(k, p, P) <= Cut(k, q, P)
<1> DEFINE c == Cut(k, p, P)
           e == Cut(k, q, P)
<1>1. /\ c \in Nat /\ (2 * P) * c <= 2 * k * p + P
      /\ e \in Nat /\ 2 * k * q + P < (2 * P) * e + 2 * P
  BY CutBounds
<1> HIDE DEF c, e
<1>2. 2 * k * p <= 2 * k * q
  <2>1. CASE k = 0
    BY <2>1
  <2>2. CASE k # 0
    <3>1. 2 * k \in Nat \ {0}
      BY <2>2
    <3> QED BY <3>1, Product
  <2> QED BY <2>1, <2>2
<1>3. (2 * P) * c < (2 * P) * e + 2 * P
  BY <1>1, <1>2
<1>4. 2 * P \in Nat \ {0}
  OBVIOUS
<1>5. c <= e
  BY <1>1, <1>3, <1>4, Product
<1> QED BY <1>5 DEF c, e

(* Every block lies between two cuts.                                      *)
LEMMA CutCover ==
  ASSUME NEW k \in Nat, NEW P \in Nat \ {0}, NEW j \in 0 .. k - 1
  PROVE  \E p \in 0 .. P - 1 : Cut(k, p, P) <= j /\ j < Cut(k, p + 1, P)
<1> DEFINE a == 2 * P * j + P - 1
           p == a \div (2 * k)
<1>1. a \in Nat /\ 2 * k \in Nat \ {0} /\ 2 * P \in Nat \ {0}
  OBVIOUS
<1>2. p \in Nat /\ (2 * k) * p <= a /\ a < (2 * k) * p + 2 * k
  <2> DEFINE d == 2 * k
  <2>1. d \in Nat \ {0}
    BY <1>1
  <2> HIDE DEF a, d
  <2>2. a \div d \in Nat /\ d * (a \div d) <= a /\ a < d * (a \div d) + d
    BY <1>1, <2>1, Division
  <2> QED BY <2>2 DEF d
<1> HIDE DEF p
<1>3. Cut(k, p, P) <= j
  <2>1. /\ Cut(k, p, P) \in Nat
        /\ (2 * P) * Cut(k, p, P) <= 2 * k * p + P
    BY <1>2, CutBounds
  <2>2. (2 * P) * Cut(k, p, P) < (2 * P) * j + 2 * P
    BY <2>1, <1>2
  <2> QED BY <2>1, <2>2, <1>1, Product
<1>4. j < Cut(k, p + 1, P)
  <2> DEFINE c == Cut(k, p + 1, P)
  <2>1. /\ c \in Nat /\ 2 * k * (p + 1) + P < (2 * P) * c + 2 * P
    BY <1>2, CutBounds
  <2> HIDE DEF c
  <2> DEFINE x == 2 * k * (p + 1)
             y == (2 * P) * c
             z == (2 * P) * (j + 1)
  <2>2. x \in Int /\ y \in Int /\ z \in Int /\ x = (2 * k) * p + 2 * k
    BY <1>2, <2>1
  <2>3. a < x /\ a = z - P - 1
    BY <1>2, <2>2
  <2>4. x + P < y + 2 * P
    BY <2>1
  <2> HIDE DEF x, y, z, a
  <2>5. z < y + 2 * P
    BY <1>1, <2>2, <2>3, <2>4
  <2> USE DEF y, z
  <2>6. j + 1 <= c
    BY <2>1, <2>5, <1>1, Product
  <2> QED BY <2>1, <2>6 DEF c
<1>5. p < P
  <2>1. SUFFICES ASSUME P <= p PROVE FALSE
    BY <1>2
  <2>2. Cut(k, P, P) <= Cut(k, p, P)
    BY <1>2, <2>1, CutOrder
  <2>3. k <= j
    BY <2>2, <1>3, <1>2, CutEnds, CutBounds
  <2> QED BY <2>3
<1> QED BY <1>2, <1>3, <1>4, <1>5

-----------------------------------------------------------------------------
(* The items of a share.                                                   *)
Share(N, b, p, P) ==
  LET w == DISTRIBUTE(N, b, p, P) IN w.i .. w.i + w.n - 1

(* A share ends where the next one begins, the host's with the last item.  *)
ShareAt(N, b, p, P) ==
  /\ Cut(N \div b, p, P) \in Nat
  /\ DISTRIBUTE(N, b, p, P).i = b * Cut(N \div b, p, P)
  /\ p < P => DISTRIBUTE(N, b, p, P).n = b * Cut(N \div b, p + 1, P) - b * Cut(N \div b, p, P)
  /\ p = P => /\ DISTRIBUTE(N, b, p, P).n = N % b
              /\ N = b * Cut(N \div b, p, P) + (N % b)
LEMMA ShareIsAt ==
  ASSUME NEW N \in Nat, NEW b \in Nat \ {0}, NEW P \in Nat \ {0}, NEW p \in 0 .. P
  PROVE  ShareAt(N, b, p, P)
<1>1. N \div b \in Nat /\ N = b * (N \div b) + (N % b)
  BY Division
<1>2. p \in Nat
  OBVIOUS
<1>3. Cut(N \div b, p, P) \in Nat
  BY <1>1, <1>2, CutBounds
<1>4. p = P => N = b * Cut(N \div b, p, P) + (N % b)
  BY <1>1, CutEnds
<1> QED BY <1>3, <1>4 DEF DISTRIBUTE, ShareAt

(* The same, spelled out.                                                  *)
LEMMA ShareEnds ==
  ASSUME NEW N \in Nat, NEW b \in Nat \ {0}, NEW P \in Nat \ {0}, NEW p \in 0 .. P
  PROVE  /\ Cut(N \div b, p, P) \in Nat
         /\ DISTRIBUTE(N, b, p, P).i = b * Cut(N \div b, p, P)
         /\ p < P => DISTRIBUTE(N, b, p, P).n
                       = b * Cut(N \div b, p + 1, P) - b * Cut(N \div b, p, P)
         /\ p = P => /\ DISTRIBUTE(N, b, p, P).n = N % b
                     /\ N = b * Cut(N \div b, p, P) + (N % b)
<1>1. ShareAt(N, b, p, P)
  BY ShareIsAt, Zenon
<1> QED BY <1>1, Zenon DEF ShareAt

(* The ends of a share are numbers.                                        *)
LEMMA ShareTypes ==
  ASSUME NEW N \in Nat, NEW b \in Nat \ {0}, NEW P \in Nat \ {0}, NEW p \in 0 .. P
  PROVE  DISTRIBUTE(N, b, p, P).i \in Int /\ DISTRIBUTE(N, b, p, P).n \in Int
<1> DEFINE c == Cut(N \div b, p, P)
           e == Cut(N \div b, p + 1, P)
<1>1. N \div b \in Nat /\ N % b \in Int /\ p \in Nat /\ p + 1 \in Nat
  BY Division
<1>2. c \in Nat /\ e \in Nat
  BY <1>1, CutBounds, Zenon
<1>3. DISTRIBUTE(N, b, p, P) = [i |-> b * c, n |-> IF p = P THEN N % b ELSE b * e - b * c]
  BY DEF DISTRIBUTE
<1>4. b * c \in Int /\ b * e \in Int
  <2> HIDE DEF c, e
  <2> QED BY <1>2
<1> HIDE DEF c, e
<1> QED BY <1>1, <1>3, <1>4

(* A share ends before every later one begins.                             *)
LEMMA SharesInOrder ==
  ASSUME NEW N \in Nat, NEW b \in Nat \ {0}, NEW P \in Nat \ {0},
         NEW p \in 0 .. P, NEW q \in 0 .. P, p < q
  PROVE  DISTRIBUTE(N, b, p, P).i + DISTRIBUTE(N, b, p, P).n <= DISTRIBUTE(N, b, q, P).i
<1> DEFINE c == Cut(N \div b, p + 1, P)
           e == Cut(N \div b, q, P)
<1>1. p + 1 \in Nat /\ q \in Nat /\ p + 1 <= q /\ p + 1 \in 0 .. P /\ p < P /\ N \div b \in Nat
  BY Division
<1>2. c \in Nat /\ e \in Nat /\ c <= e
  BY <1>1, CutOrder, CutBounds
<1>3. b * c <= b * e
  <2> HIDE DEF c, e
  <2> QED BY <1>2, Product
<1>4. /\ DISTRIBUTE(N, b, p, P).i + DISTRIBUTE(N, b, p, P).n = b * c
      /\ DISTRIBUTE(N, b, q, P).i = b * e
  <2> DEFINE a == Cut(N \div b, p, P)
  <2>1. a \in Nat /\ DISTRIBUTE(N, b, p, P).i = b * a
    <3>1. ShareAt(N, b, p, P)
      BY ShareIsAt, Zenon
    <3> QED BY <3>1, Zenon DEF ShareAt
  <2>2. DISTRIBUTE(N, b, p, P).n = b * c - b * a
    <3>1. ShareAt(N, b, p, P)
      BY ShareIsAt, Zenon
    <3> QED BY <1>1, <3>1, Zenon DEF ShareAt
  <2>3. DISTRIBUTE(N, b, q, P).i = b * e
    <3>1. ShareAt(N, b, q, P)
      BY ShareIsAt, Zenon
    <3> QED BY <3>1, Zenon DEF ShareAt
  <2>4. b * a \in Int /\ b * c \in Int
    <3> HIDE DEF a, c
    <3> QED BY <2>1, <1>2
  <2> HIDE DEF a, c, e
  <2> QED BY <2>1, <2>2, <2>3, <2>4
<1> QED BY <1>3, <1>4

(* Every item is in some share.                                            *)
LEMMA SharesCover ==
  ASSUME NEW N \in Nat, NEW b \in Nat \ {0}, NEW P \in Nat \ {0}, NEW item \in 0 .. N - 1
  PROVE  \E p \in 0 .. P : item \in Share(N, b, p, P)
<1> DEFINE k == N \div b
           j == item \div b
<1>1. k \in Nat /\ N = b * k + (N % b) /\ N % b \in Nat
  BY Division
<1>2. j \in Nat /\ b * j <= item /\ item < b * j + b
  <2>1. j \in Nat /\ item % b \in Nat /\ item % b < b /\ item = b * j + (item % b)
    BY Division
  <2> HIDE DEF j
  <2> QED BY <2>1
<1> HIDE DEF j
<1>3. CASE j < k
  <2>1. PICK p \in 0 .. P - 1 : Cut(k, p, P) <= j /\ j < Cut(k, p + 1, P)
    <3> HIDE DEF k
    <3>1. j \in 0 .. k - 1
      BY <1>1, <1>2, <1>3
    <3> QED BY <1>1, <3>1, CutCover, Zenon
  <2> DEFINE c == Cut(k, p, P)
             e == Cut(k, p + 1, P)
  <2>2. p \in Nat /\ p + 1 \in Nat /\ p \in 0 .. P /\ p < P
    OBVIOUS
  <2>3. c \in Nat /\ e \in Nat
    <3> HIDE DEF k
    <3> QED BY <1>1, <2>2, CutBounds, Zenon
  <2>4. b * c <= b * j /\ b * j + b <= b * e /\ b * c \in Int /\ b * e \in Int
    <3> HIDE DEF c, e
    <3>1. c <= j /\ j < e
      BY <2>1 DEF c, e
    <3> QED BY <2>3, <3>1, <1>2, Product
  <2>5. DISTRIBUTE(N, b, p, P).i = b * c /\ DISTRIBUTE(N, b, p, P).n = b * e - b * c
    <3>1. ShareAt(N, b, p, P)
      BY <2>2, ShareIsAt, Zenon
    <3>2. DISTRIBUTE(N, b, p, P).i = b * c
      BY <3>1, Zenon DEF ShareAt
    <3>3. DISTRIBUTE(N, b, p, P).n = b * e - b * c
      BY <2>2, <3>1, Zenon DEF ShareAt
    <3> QED BY <3>2, <3>3
  <2>6. item \in Share(N, b, p, P)
    <3> HIDE DEF c, e
    <3> QED BY <1>2, <2>4, <2>5 DEF Share
  <2> QED BY <2>2, <2>6
<1>4. CASE ~(j < k)
  <2>1. k <= j
    BY <1>1, <1>2, <1>4
  <2>2. b * k <= b * j /\ b * k \in Int
    <3> HIDE DEF k
    <3> QED BY <1>1, <1>2, <2>1, Product
  <2>3. P \in 0 .. P /\ Cut(k, P, P) = k
    BY <1>1, CutEnds
  <2>4. DISTRIBUTE(N, b, P, P).i = b * k /\ DISTRIBUTE(N, b, P, P).n = N % b
    <3>1. DISTRIBUTE(N, b, P, P).i = b * Cut(k, P, P) /\ DISTRIBUTE(N, b, P, P).n = N % b
      <4>1. ShareAt(N, b, P, P)
        BY <2>3, ShareIsAt, Zenon
      <4> QED BY <4>1, Zenon DEF ShareAt
    <3> QED BY <2>3, <3>1, Zenon
  <2>5. item \in Share(N, b, P, P)
    <3> HIDE DEF k
    <3> QED BY <1>1, <1>2, <2>2, <2>4 DEF Share
  <2> QED BY <2>3, <2>5
<1> QED BY <1>3, <1>4

(* util_base.h:191-201: however many items, pipelines and items in a block *)
(* there are, every item is worked on by one pipeline, or the host, alone. *)
THEOREM OneOwner ==
  ASSUME NEW N \in Nat, NEW b \in Nat \ {0}, NEW P \in Nat \ {0}, NEW item \in 0 .. N - 1
  PROVE  \E p \in 0 .. P : \A q \in 0 .. P : item \in Share(N, b, q, P) <=> q = p
<1>1. PICK p \in 0 .. P : item \in Share(N, b, p, P)
  BY SharesCover
<1>2. ASSUME NEW q \in 0 .. P, item \in Share(N, b, q, P), q # p
      PROVE  FALSE
  <2> DEFINE v == DISTRIBUTE(N, b, p, P)
             w == DISTRIBUTE(N, b, q, P)
  <2>1. item \in v.i .. v.i + v.n - 1 /\ item \in w.i .. w.i + w.n - 1
    BY <1>1, <1>2 DEF Share
  <2>2. p < q => v.i + v.n <= w.i
    BY SharesInOrder
  <2>3. q < p => w.i + w.n <= v.i
    BY SharesInOrder
  <2>4. v.i \in Int /\ v.n \in Int /\ w.i \in Int /\ w.n \in Int
    BY ShareTypes
  <2> HIDE DEF v, w
  <2> QED BY <1>2, <2>1, <2>2, <2>3, <2>4
<1> QED BY <1>1, <1>2

(* util_base.h:181-184: "the number of items each pipeline process gets is *)
(* a multiple of the block size", all remaining items go to the host, and  *)
(* each begins with an aligned item: what the vector kernels and the       *)
(* blocks of a reduction count on.                                         *)
THEOREM Aligned ==
  ASSUME NEW N \in Nat, NEW b \in Nat \ {0}, NEW P \in Nat \ {0}, NEW p \in 0 .. P
  PROVE  LET w == DISTRIBUTE(N, b, p, P)
         IN /\ w.i % b = 0
            /\ p < P => w.n % b = 0
            /\ p = P => w.n < b /\ w.i + w.n = N
<1> DEFINE c == Cut(N \div b, p, P)
           e == Cut(N \div b, p + 1, P)
           w == DISTRIBUTE(N, b, p, P)
<1>1. N \div b \in Nat /\ N % b \in Int /\ N % b < b /\ p \in Nat /\ p + 1 \in Nat
  BY Division
<1>2. c \in Nat /\ e \in Nat
  BY <1>1, CutBounds, Zenon
<1>3. w.i = b * c /\ (p < P => w.n = b * e - b * c) /\ (p = P => w.n = N % b /\ N = b * c + (N % b))
  <2>1. ShareAt(N, b, p, P)
    BY ShareIsAt, Zenon
  <2> QED BY <2>1, Zenon DEF ShareAt
<1>4. ASSUME NEW m \in Int PROVE (b * m) % b = 0
  <2>1. b * m \in Int /\ b * m <= b * m /\ b * m < b * m + b /\ b * m - b * m = 0
    OBVIOUS
  <2> QED BY <2>1, Quotient
<1>5. b * e - b * c = b * (e - c) /\ e - c \in Int
  <2> HIDE DEF c, e
  <2> QED BY <1>2
<1> HIDE DEF c, e, w
<1>6. w.i % b = 0
  BY <1>2, <1>3, <1>4
<1>7. p < P => w.n % b = 0
  BY <1>3, <1>4, <1>5
<1>8. p = P => w.n < b /\ w.i + w.n = N
  BY <1>1, <1>3
<1> QED BY <1>6, <1>7, <1>8 DEF w

(* No pipeline has more than one block more than another.                  *)
THEOREM Balanced ==
  ASSUME NEW N \in Nat, NEW b \in Nat \ {0}, NEW P \in Nat \ {0},
         NEW p \in 0 .. P - 1, NEW q \in 0 .. P - 1
  PROVE  DISTRIBUTE(N, b, p, P).n <= DISTRIBUTE(N, b, q, P).n + b
<1> DEFINE k == N \div b
           Blocks(r) == Cut(k, r + 1, P) - Cut(k, r, P)
<1>1. k \in Nat /\ 2 * P \in Nat \ {0}
  BY Division
<1>2. ASSUME NEW r \in 0 .. P - 1
      PROVE  /\ Blocks(r) \in Int /\ DISTRIBUTE(N, b, r, P).n = b * Blocks(r)
             /\ (2 * P) * Blocks(r) < 2 * k + 2 * P
             /\ 2 * k - 2 * P < (2 * P) * Blocks(r)
  <2> DEFINE c == Cut(k, r, P)
             e == Cut(k, r + 1, P)
             x == 2 * k * r
             y == 2 * k * (r + 1)
             f == (2 * P) * c
             g == (2 * P) * e
  <2>1. r \in Nat /\ r + 1 \in Nat /\ r \in 0 .. P /\ r < P
    OBVIOUS
  <2>2. c \in Nat /\ f <= x + P /\ x + P < f + 2 * P
    <3> HIDE DEF k
    <3> QED BY <1>1, <2>1, CutBounds, ZenonT(30)
  <2>3. e \in Nat /\ g <= y + P /\ y + P < g + 2 * P
    <3> HIDE DEF k
    <3> QED BY <1>1, <2>1, CutBounds, ZenonT(30)
  <2>4. DISTRIBUTE(N, b, r, P).n = b * e - b * c
    <3>1. ShareAt(N, b, r, P)
      BY <2>1, ShareIsAt, Zenon
    <3> QED BY <2>1, <3>1, Zenon DEF ShareAt
  <2> HIDE DEF c, e, k
  <2>5. y = x + 2 * k /\ x \in Int /\ f \in Int /\ g \in Int
    BY <1>1, <2>1, <2>2, <2>3
  <2>6. b * e - b * c = b * (e - c) /\ (2 * P) * (e - c) = g - f /\ e - c \in Int
    BY <2>2, <2>3
  <2> HIDE DEF x, y, f, g
  <2>7. g - f < 2 * k + 2 * P /\ 2 * k - 2 * P < g - f
    BY <1>1, <2>2, <2>3, <2>5
  <2> QED BY <2>4, <2>6, <2>7 DEF c, e
<1> DEFINE s == Blocks(p)
           t == Blocks(q)
<1>3. /\ s \in Int /\ DISTRIBUTE(N, b, p, P).n = b * s /\ (2 * P) * s < 2 * k + 2 * P
      /\ t \in Int /\ DISTRIBUTE(N, b, q, P).n = b * t /\ 2 * k - 2 * P < (2 * P) * t
  <2> HIDE DEF Blocks, k
  <2> QED BY <1>2
<1> HIDE DEF s, t, k
<1>4. (2 * P) * (t + 1) = (2 * P) * t + 2 * P
  BY <1>3
<1>5. (2 * P) * s < (2 * P) * (t + 1) + 2 * P
  BY <1>1, <1>3, <1>4
<1>6. s <= t + 1
  BY <1>1, <1>3, <1>5, Product
<1>7. b * s <= b * (t + 1) /\ b * (t + 1) = b * t + b
  BY <1>3, <1>6, Product
<1> QED BY <1>3, <1>7

-----------------------------------------------------------------------------
(* The coordinates of voxel n of a box, x fastest.                         *)
Voxel(lo, len, n) ==
  <<lo + (n % len[1]), lo + ((n \div len[1]) % len[2]), lo + ((n \div len[1]) \div len[2])>>

(* Whole rows added to a coordinate are carried.                           *)
LEMMA Carry ==
  ASSUME NEW a \in Int, NEW d \in Nat \ {0}, NEW q \in Int
  PROVE  (a + d * q) \div d = (a \div d) + q /\ (a + d * q) % d = a % d
<1> DEFINE c == a \div d
           m == a % d
<1>1. c \in Int /\ m \in Nat /\ m < d /\ a = d * c + m
  BY Division
<1> HIDE DEF c, m
<1>2. d * (c + q) = d * c + d * q /\ c + q \in Int /\ a + d * q \in Int
      /\ d * c \in Int /\ d * q \in Int /\ d * (c + q) \in Int
  BY <1>1
<1>3. d * (c + q) <= a + d * q /\ a + d * q < d * (c + q) + d /\ a + d * q - d * (c + q) = m
  BY <1>1, <1>2
<1>4. (a + d * q) \div d = c + q /\ (a + d * q) % d = a + d * q - d * (c + q)
  BY <1>2, <1>3, Quotient
<1> QED BY <1>3, <1>4 DEF c, m

(* grid.h:386-445: the walk of a pipeline over its share, x and at its end *)
(* y and at its end z, meets the voxels in the order of their numbers from *)
(* the first of the share on, wherever in a row the share begins.          *)
THEOREM VoxelWalk ==
  ASSUME NEW lo \in Int, NEW len \in [1 .. 3 -> Nat \ {0}], NEW b \in Nat \ {0},
         NEW P \in Nat \ {0}, NEW p \in 0 .. P, NEW k \in Nat
  PROVE  Walk(lo, len, DISTRIBUTE_VOXELS(lo, len, b, p, P).first, k)
           = Voxel(lo, len, b * Cut((len[1] * len[2] * len[3]) \div b, p, P) + k)
<1> DEFINE a == len[1]
           c == len[2]
           N == a * c * len[3]
           i == b * Cut(N \div b, p, P)
           y == i \div a
           z == y \div c
           nx == i - y * a + k
           ny == y - z * c + (nx \div a)
<1>1. a \in Nat \ {0} /\ c \in Nat \ {0} /\ len[3] \in Nat \ {0}
  OBVIOUS
<1>2. i \in Nat
  <2>1. N \in Nat
    BY <1>1
  <2> HIDE DEF N
  <2>2. N \div b \in Nat /\ p \in Nat
    BY <2>1, Division
  <2>3. Cut(N \div b, p, P) \in Nat
    BY <2>2, CutBounds, Zenon
  <2> QED BY <2>3
<1>3. /\ DISTRIBUTE_VOXELS(lo, len, b, p, P).first = <<lo + i - y * a, lo + y - z * c, lo + z>>
      /\ Voxel(lo, len, i + k)
           = <<lo + ((i + k) % a), lo + (((i + k) \div a) % c), lo + (((i + k) \div a) \div c)>>
  BY <1>1 DEF DISTRIBUTE_VOXELS, Voxel
<1> SUFFICES Walk(lo, len, <<lo + i - y * a, lo + y - z * c, lo + z>>, k)
               = <<lo + ((i + k) % a), lo + (((i + k) \div a) % c), lo + (((i + k) \div a) \div c)>>
  BY <1>3
<1> HIDE DEF i
<1>4. y \in Int /\ z \in Int
  <2>1. y \in Int
    BY <1>1, <1>2, Division
  <2> HIDE DEF y
  <2> QED BY <1>1, <2>1, Division
<1>5. Walk(lo, len, <<lo + i - y * a, lo + y - z * c, lo + z>>, k)
        = <<lo + (nx % a), lo + (ny % c), lo + z + (ny \div c)>>
  <2> DEFINE first == <<lo + i - y * a, lo + y - z * c, lo + z>>
  <2>1. nx \div a \in Int
    <3>1. nx \in Int
      <4> HIDE DEF y
      <4> QED BY <1>1, <1>2, <1>4
    <3> HIDE DEF nx
    <3> QED BY <1>1, <3>1, Division
  <2>2. first[1] - lo + k = nx
    <3> HIDE DEF y, z
    <3> QED BY <1>1, <1>2, <1>4
  <2>3. first[2] - lo + (nx \div a) = ny
    <3> HIDE DEF y, z, nx
    <3> QED BY <1>1, <1>4, <2>1
  <2>4. first[3] = lo + z
    OBVIOUS
  <2> HIDE DEF first, nx, ny
  <2>5. Walk(lo, len, first, k)
          = LET x == first[1] - lo + k
                w == first[2] - lo + (x \div a)
            IN <<lo + (x % a), lo + (w % c), first[3] + (w \div c)>>
    BY DEF Walk
  <2>6. Walk(lo, len, first, k) = <<lo + (nx % a), lo + (ny % c), lo + z + (ny \div c)>>
    <3> HIDE DEF a, c, z
    <3> QED BY <2>2, <2>3, <2>4, <2>5
  <2> QED BY <2>6 DEF first
<1> HIDE DEF y, z
<1>6. nx \in Int /\ i + k = nx + a * y
  BY <1>1, <1>2, <1>4
<1> HIDE DEF nx, a, c
<1>7. (i + k) \div a = (nx \div a) + y /\ (i + k) % a = nx % a
  <2>1. (nx + a * y) \div a = (nx \div a) + y /\ (nx + a * y) % a = nx % a
    BY <1>1, <1>4, <1>6, Carry
  <2> QED BY <1>6, <2>1
<1>8. nx \div a \in Int
  BY <1>1, <1>6, Division
<1>9. ny \in Int /\ (i + k) \div a = ny + c * z
  BY <1>1, <1>4, <1>7, <1>8
<1> HIDE DEF ny
<1>10. ((i + k) \div a) \div c = (ny \div c) + z /\ ((i + k) \div a) % c = ny % c
  <2>1. (ny + c * z) \div c = (ny \div c) + z /\ (ny + c * z) % c = ny % c
    BY <1>1, <1>4, <1>9, Carry
  <2> QED BY <1>9, <2>1
<1>11. lo + z + (ny \div c) = lo + ((ny \div c) + z)
  <2>1. ny \div c \in Int
    BY <1>1, <1>9, Division
  <2> QED BY <2>1, <1>4
<1> QED BY <1>5, <1>7, <1>10, <1>11

(* What is added to both sides can be taken away.                          *)
LEMMA Cancel ==
  ASSUME NEW l \in Int, NEW x \in Int, NEW y \in Int, l + x = l + y
  PROVE  x = y
  OBVIOUS

(* A number split into the coordinates of a row of a and a plane of c.     *)
LEMMA Coordinates ==
  ASSUME NEW a \in Nat \ {0}, NEW c \in Nat \ {0}, NEW k \in Nat
  PROVE  /\ k % a \in Nat /\ k % a < a /\ k \div a \in Nat
         /\ k = a * (k \div a) + (k % a)
         /\ (k \div a) % c \in Nat /\ (k \div a) % c < c /\ (k \div a) \div c \in Nat
         /\ k \div a = c * ((k \div a) \div c) + ((k \div a) % c)
<1> DEFINE q == k \div a
<1>1. q \in Nat /\ k % a \in Nat /\ k % a < a /\ k = a * q + (k % a)
  BY Division
<1> HIDE DEF q
<1>2. q % c \in Nat /\ q % c < c /\ q \div c \in Nat /\ q = c * (q \div c) + (q % c)
  BY <1>1, Division
<1> QED BY <1>1, <1>2 DEF q

(* A number below the size of the box is in one of its planes.             *)
LEMMA InBox ==
  ASSUME NEW a \in Nat \ {0}, NEW c \in Nat \ {0}, NEW e \in Nat \ {0}, NEW n \in Nat,
         n < a * c * e
  PROVE  (n \div a) \div c < e
<1> DEFINE q == n \div a
           z == q \div c
           x == n % a
           y == q % c
<1>1. q \in Nat /\ z \in Nat /\ x \in Nat /\ y \in Nat /\ n = a * q + x /\ q = c * z + y
  BY Coordinates
<1> HIDE DEF q, z, x, y
<1>2. SUFFICES ASSUME e <= z PROVE FALSE
  BY <1>1 DEF q, z
<1>3. c * e <= c * z /\ c * e \in Nat /\ c * z \in Nat
  BY <1>1, <1>2, Product
<1>4. c * e <= q
  BY <1>1, <1>3
<1>5. a * (c * e) <= a * q /\ a * q \in Int
  BY <1>1, <1>3, <1>4, Product
<1>6. a * (c * e) = a * c * e
  OBVIOUS
<1> QED BY <1>1, <1>5, <1>6

(* Two numbers below the size of the box are two voxels, and both are in   *)
(* the box.                                                                *)
THEOREM VoxelsAreDistinct ==
  ASSUME NEW lo \in Int, NEW len \in [1 .. 3 -> Nat \ {0}],
         NEW m \in 0 .. len[1] * len[2] * len[3] - 1,
         NEW n \in 0 .. len[1] * len[2] * len[3] - 1
  PROVE  /\ \A d \in 1 .. 3 : Voxel(lo, len, n)[d] \in lo .. lo + len[d] - 1
         /\ Voxel(lo, len, m) = Voxel(lo, len, n) => m = n
<1> DEFINE a == len[1]
           c == len[2]
           e == len[3]
           X(k) == k % a
           Y(k) == (k \div a) % c
           Z(k) == (k \div a) \div c
           Q(k) == k \div a
<1>1. a \in Nat \ {0} /\ c \in Nat \ {0} /\ e \in Nat \ {0}
  OBVIOUS
<1>2. m \in Nat /\ n \in Nat /\ n < a * c * e
  <2>1. a * c * e \in Nat
    BY <1>1
  <2> DEFINE size == a * c * e
  <2> HIDE DEF size
  <2>2. m \in 0 .. size - 1 /\ n \in 0 .. size - 1
    BY DEF size
  <2> QED BY <2>1, <2>2 DEF size
<1>3. \A k \in Nat : Voxel(lo, len, k) = <<lo + X(k), lo + Y(k), lo + Z(k)>>
  BY DEF Voxel
<1> HIDE DEF a, c, e
<1>4. ASSUME NEW k \in Nat
      PROVE  /\ X(k) \in Nat /\ X(k) < a /\ Y(k) \in Nat /\ Y(k) < c /\ Z(k) \in Nat
             /\ Q(k) \in Nat /\ k = a * Q(k) + X(k) /\ Q(k) = c * Z(k) + Y(k)
  BY <1>1, Coordinates
<1>5. Z(n) < e
  BY <1>1, <1>2, InBox
<1> HIDE DEF X, Y, Z, Q
<1>6. \A d \in 1 .. 3 : Voxel(lo, len, n)[d] \in lo .. lo + len[d] - 1
  <2>1. /\ X(n) \in Nat /\ X(n) < a /\ Y(n) \in Nat /\ Y(n) < c /\ Z(n) \in Nat
    BY <1>2, <1>4
  <2>2. /\ lo + X(n) \in lo .. lo + a - 1 /\ lo + Y(n) \in lo .. lo + c - 1
        /\ lo + Z(n) \in lo .. lo + e - 1
    BY <1>1, <1>5, <2>1
  <2>3. Voxel(lo, len, n) = <<lo + X(n), lo + Y(n), lo + Z(n)>>
    BY <1>2, <1>3
  <2> QED BY <2>2, <2>3 DEF a, c, e
<1>7. Voxel(lo, len, m) = Voxel(lo, len, n) => m = n
  <2>1. HAVE Voxel(lo, len, m) = Voxel(lo, len, n)
  <2>2. <<lo + X(m), lo + Y(m), lo + Z(m)>> = <<lo + X(n), lo + Y(n), lo + Z(n)>>
    BY <1>2, <1>3, <2>1
  <2>3. lo + X(m) = lo + X(n) /\ lo + Y(m) = lo + Y(n) /\ lo + Z(m) = lo + Z(n)
    BY <2>2
  <2>4. /\ X(m) \in Nat /\ Y(m) \in Nat /\ Z(m) \in Nat
        /\ X(n) \in Nat /\ Y(n) \in Nat /\ Z(n) \in Nat
    BY <1>2, <1>4
  <2>5. X(m) = X(n) /\ Y(m) = Y(n) /\ Z(m) = Z(n)
    <3>1. \A x, y \in Nat : lo + x = lo + y => x = y
      BY Cancel, SMT
    <3>2. X(m) = X(n)
      BY <2>3, <2>4, <3>1, Zenon
    <3>3. Y(m) = Y(n)
      BY <2>3, <2>4, <3>1, Zenon
    <3>4. Z(m) = Z(n)
      BY <2>3, <2>4, <3>1, Zenon
    <3> QED BY <3>2, <3>3, <3>4
  <2>6. /\ m = a * Q(m) + X(m) /\ Q(m) = c * Z(m) + Y(m)
        /\ n = a * Q(n) + X(n) /\ Q(n) = c * Z(n) + Y(n)
    BY <1>2, <1>4
  <2> QED BY <2>5, <2>6
<1> QED BY <1>6, <1>7

-----------------------------------------------------------------------------
(* Grid: ranks and voxels as numbers.                                      *)

(* A remainder and a multiple.                                             *)
LEMMA Parts ==
  ASSUME NEW d \in Nat \ {0}, NEW q \in Int, NEW r \in 0 .. d - 1
  PROVE  (r + d * q) \div d = q /\ (r + d * q) % d = r
<1>1. /\ d * q \in Int /\ r + d * q \in Int /\ r \in Int /\ r < d
      /\ d * q <= r + d * q /\ r + d * q < d * q + d
  BY Product
<1> DEFINE v == r + d * q
<1> HIDE DEF v
<1> QED BY <1>1, Quotient DEF v

(* Number v has coordinates i, j and k in rows of a and planes of a * b.   *)
Decodes(v, a, b, i, j, k) ==
  v % a = i /\ (v \div a) % b = j /\ v \div (a * b) = k

(* A number made of three coordinates, x fastest, has them.                *)
LEMMA Encode ==
  ASSUME NEW a \in Nat \ {0}, NEW b \in Nat \ {0},
         NEW i \in 0 .. a - 1, NEW j \in 0 .. b - 1, NEW k \in Int
  PROVE  Decodes(i + a * (j + b * k), a, b, i, j, k)
<1> DEFINE q == j + b * k
           v == i + a * q
           m == i + a * j
<1>1. q \in Int /\ v \in Int /\ m \in Nat
  OBVIOUS
<1>2. v % a = i /\ v \div a = q
  BY <1>1, Parts
<1>3. q % b = j
  BY Parts
<1>4. a * b \in Nat \ {0} /\ m \in 0 .. a * b - 1
  <2>1. j \in Int /\ j + 1 \in Int /\ j + 1 <= b /\ b \in Int
    OBVIOUS
  <2>2. a * (j + 1) <= a * b
    BY <2>1, Product
  <2>3. a * (j + 1) = a * j + a
    OBVIOUS
  <2>4. a * b \in Nat /\ a * j \in Nat
    OBVIOUS
  <2> QED BY <1>1, <2>2, <2>3, <2>4
<1>5. v = m + (a * b) * k
  OBVIOUS
<1>6. v \div (a * b) = k
  <2> HIDE DEF v, m
  <2>1. (m + (a * b) * k) \div (a * b) = k
    BY <1>4, Parts
  <2> QED BY <1>5, <2>1
<1> QED BY <1>2, <1>3, <1>6 DEF Decodes

(* It is below the volume.                                                 *)
LEMMA EncodeBound ==
  ASSUME NEW a \in Nat \ {0}, NEW b \in Nat \ {0}, NEW c \in Nat \ {0},
         NEW i \in 0 .. a - 1, NEW j \in 0 .. b - 1, NEW k \in 0 .. c - 1
  PROVE  i + a * (j + b * k) \in 0 .. a * b * c - 1
<1> DEFINE q == j + b * k
           Q == b * c
<1>1. b * (k + 1) <= Q /\ b * (k + 1) = b * k + b
  <2>1. k + 1 \in Int /\ k + 1 <= c /\ c \in Int
    OBVIOUS
  <2> QED BY <2>1, Product
<1>2. q \in Nat /\ Q \in Nat /\ q + 1 <= Q
  <2>1. b * k \in Nat /\ Q \in Nat
    OBVIOUS
  <2> HIDE DEF Q
  <2> QED BY <1>1, <2>1
<1>3. a * b * c = a * Q
  OBVIOUS
<1> HIDE DEF q, Q
<1>4. a * (q + 1) <= a * Q /\ a * (q + 1) = a * q + a /\ a * q \in Nat /\ a * Q \in Nat
  <2>1. q + 1 \in Int /\ Q \in Int
    BY <1>2
  <2> QED BY <1>2, <2>1, Product
<1>5. i + a * q \in 0 .. a * Q - 1
  BY <1>2, <1>4
<1> QED BY <1>3, <1>5 DEF q

(* And every number below the volume has its coordinates.                  *)
LEMMA Decode ==
  ASSUME NEW a \in Nat \ {0}, NEW b \in Nat \ {0}, NEW c \in Nat \ {0},
         NEW v \in 0 .. a * b * c - 1
  PROVE  /\ v % a \in 0 .. a - 1 /\ (v \div a) % b \in 0 .. b - 1
         /\ v \div (a * b) \in 0 .. c - 1
         /\ v = (v % a) + a * (((v \div a) % b) + b * (v \div (a * b)))
<1> DEFINE i == v % a
           q == v \div a
           j == q % b
           k == q \div b
           m == i + a * j
<1>1. a * b * c \in Nat /\ v \in Nat
  OBVIOUS
<1>2. v < a * b * c
  <2> DEFINE s == a * b * c
  <2>1. s \in Nat /\ v \in 0 .. s - 1
    BY <1>1
  <2> HIDE DEF s
  <2>2. v < s
    BY <2>1
  <2> QED BY <2>2 DEF s
<1>3. /\ i \in Nat /\ i < a /\ q \in Nat /\ v = a * q + i
      /\ j \in Nat /\ j < b /\ k \in Nat /\ q = b * k + j
  BY <1>1, Coordinates
<1>4. k < c
  BY <1>1, <1>2, InBox
<1> HIDE DEF i, q, j, k
<1>5. a * b \in Nat \ {0} /\ m \in 0 .. a * b - 1
  <2>1. a * (j + 1) <= a * b
    <3>1. j + 1 \in Int /\ j + 1 <= b /\ b \in Int
      BY <1>3
    <3> QED BY <3>1, Product
  <2>2. a * (j + 1) = a * j + a /\ a * b \in Nat /\ a * j \in Nat /\ a * b # 0
    BY <1>3
  <2> QED BY <1>3, <2>1, <2>2
<1>6. v = m + (a * b) * k
  <2>1. a * q = a * (b * k) + a * j
    BY <1>3
  <2>2. a * (b * k) = (a * b) * k
    BY <1>3
  <2> QED BY <1>3, <2>1, <2>2
<1>7. v \div (a * b) = k
  <2> DEFINE s == a * b
  <2>1. s \in Nat \ {0} /\ m \in 0 .. s - 1 /\ k \in Int /\ v = m + s * k
    BY <1>3, <1>5, <1>6
  <2> HIDE DEF s, m
  <2>2. v \div s = k
    BY <2>1, Parts
  <2> QED BY <2>2 DEF s
<1>8. v = i + a * (j + b * k)
  BY <1>3
<1>9. i \in 0 .. a - 1 /\ j \in 0 .. b - 1 /\ v \div (a * b) \in 0 .. c - 1
  BY <1>3, <1>4, <1>7
<1>10. v = i + a * (j + b * (v \div (a * b)))
  BY <1>7, <1>8
<1> QED BY <1>9, <1>10, Zenon DEF i, j, q
-----------------------------------------------------------------------------
(* A triple is a function of the three axes.                               *)
LEMMA Tuple ==
  ASSUME NEW S, NEW x \in S, NEW y \in S, NEW z \in S
  PROVE  <<x, y, z>> \in [1..3 -> S]
  OBVIOUS

(* The opposite face is across the same axis, and back.                    *)
LEMMA FaceParts ==
  ASSUME NEW f \in Face
  PROVE  /\ Opposite(f) \in Face /\ Opposite(Opposite(f)) = f /\ Opposite(f) # f
         /\ Axis(f) \in 1..3 /\ Axis(Opposite(f)) = Axis(f)
         /\ Dir(f) \in {-1, 1} /\ Dir(Opposite(f)) = -Dir(f)
  BY DEF Face, Opposite, Axis, Dir

-----------------------------------------------------------------------------
(* Voxels: cells and ghosts are numbered one to one.                       *)
LEMMA Voxels ==
  ASSUME NEW n \in Triple, NEW c \in [1..3 -> Int],
         \A a \in 1..3 : c[a] \in 0 .. n[a] + 1
  PROVE  /\ VOXEL(c, n) \in 0 .. nv(n) - 1
         /\ \A a \in 1..3 : Coord(VOXEL(c, n), n)[a] = c[a]
         /\ Coord(VOXEL(c, n), n) \in [1..3 -> Int]
<1> DEFINE x == n[1] + 2
           y == n[2] + 2
           z == n[3] + 2
           v == c[1] + x * (c[2] + y * c[3])
<1>1. x \in Nat \ {0} /\ y \in Nat \ {0} /\ z \in Nat \ {0}
  BY DEF Triple
<1>2. c[1] \in 0 .. x - 1 /\ c[2] \in 0 .. y - 1 /\ c[3] \in 0 .. z - 1
  BY DEF Triple
<1>3. VOXEL(c, n) = v /\ nv(n) = x * y * z /\ Coord(v, n) = <<v % x, (v \div x) % y, v \div (x * y)>>
  BY DEF VOXEL, nv, Coord
<1> HIDE DEF x, y, z
<1>4. /\ v \in 0 .. x * y * z - 1
      /\ v % x = c[1] /\ (v \div x) % y = c[2] /\ v \div (x * y) = c[3]
  <2>1. c[3] \in Int
    OBVIOUS
  <2>2. v \in 0 .. x * y * z - 1
    BY <1>1, <1>2, EncodeBound, Zenon
  <2>3. v % x = c[1] /\ (v \div x) % y = c[2] /\ v \div (x * y) = c[3]
    <3>1. Decodes(v, x, y, c[1], c[2], c[3])
      BY <1>1, <1>2, <2>1, Encode, Zenon
    <3> QED BY <3>1, Zenon DEF Decodes
  <2> QED BY <2>2, <2>3, Zenon
<1> HIDE DEF v
<1>5. Coord(v, n) = <<c[1], c[2], c[3]>>
  BY <1>3, <1>4, Zenon
<1>6. \A a \in 1..3 : <<c[1], c[2], c[3]>>[a] = c[a]
  OBVIOUS
<1>7. <<c[1], c[2], c[3]>> \in [1..3 -> Int]
  BY Tuple
<1> QED BY <1>3, <1>4, <1>5, <1>6, <1>7, Zenon

(* What is within the ring needs no wrapping.                              *)
LEMMA Small ==
  ASSUME NEW g \in Nat \ {0}, NEW x \in 0 .. g - 1
  PROVE  x % g = x /\ x \div g = 0
<1>1. 0 \in Int /\ x + g * 0 = x
  OBVIOUS
<1> QED BY <1>1, Parts

(* Ranks: an index, wrapped, is a rank, and a rank has one index.          *)
LEMMA Wrapped ==
  ASSUME NEW gp \in Triple, NEW q \in [1..3 -> Int]
  PROVE  /\ IndexRank(q, gp) \in 0 .. Volume(gp) - 1
         /\ \A a \in 1..3 : RankIndex(IndexRank(q, gp), gp)[a] = q[a] % gp[a]
<1> DEFINE x == gp[1]
           y == gp[2]
           z == gp[3]
           i == q[1] % x
           j == q[2] % y
           k == q[3] % z
           v == i + x * (j + y * k)
<1>1. x \in Nat \ {0} /\ y \in Nat \ {0} /\ z \in Nat \ {0}
  BY DEF Triple
<1>2. q[1] \in Int /\ q[2] \in Int /\ q[3] \in Int
  OBVIOUS
<1>3. /\ IndexRank(q, gp) = v /\ Volume(gp) = x * y * z
      /\ RankIndex(v, gp) = <<v % x, (v \div x) % y, v \div (x * y)>>
  BY DEF IndexRank, Volume, RankIndex
<1> HIDE DEF x, y, z
<1>4. i \in 0 .. x - 1 /\ j \in 0 .. y - 1 /\ k \in 0 .. z - 1
  <2>1. i \in Nat /\ i < x /\ j \in Nat /\ j < y /\ k \in Nat /\ k < z
    BY <1>1, <1>2, Division
  <2> HIDE DEF i, j, k
  <2> QED BY <1>1, <2>1
<1>5. <<i, j, k>>[1] = i /\ <<i, j, k>>[2] = j /\ <<i, j, k>>[3] = k
  OBVIOUS
<1>6. \A a \in 1..3 : <<i, j, k>>[a] = q[a] % gp[a]
  BY DEF x, y, z
<1> HIDE DEF i, j, k
<1>7. /\ v \in 0 .. x * y * z - 1
      /\ v % x = i /\ (v \div x) % y = j /\ v \div (x * y) = k
  <2>1. k \in Int
    BY <1>4
  <2>2. v \in 0 .. x * y * z - 1
    BY <1>1, <1>4, EncodeBound, Zenon
  <2>3. v % x = i /\ (v \div x) % y = j /\ v \div (x * y) = k
    <3>1. Decodes(v, x, y, i, j, k)
      BY <1>1, <1>4, <2>1, Encode, Zenon
    <3> QED BY <3>1, Zenon DEF Decodes
  <2> QED BY <2>2, <2>3, Zenon
<1> HIDE DEF v
<1> QED BY <1>3, <1>6, <1>7, Zenon

(* Every rank has its index within the ring.                               *)
LEMMA Indexed ==
  ASSUME NEW gp \in Triple, NEW rank \in 0 .. Volume(gp) - 1
  PROVE  /\ RankIndex(rank, gp) \in [1..3 -> Int]
         /\ \A a \in 1..3 : RankIndex(rank, gp)[a] \in 0 .. gp[a] - 1
         /\ IndexRank(RankIndex(rank, gp), gp) = rank
<1> DEFINE x == gp[1]
           y == gp[2]
           z == gp[3]
           i == rank % x
           j == (rank \div x) % y
           k == rank \div (x * y)
<1>1. x \in Nat \ {0} /\ y \in Nat \ {0} /\ z \in Nat \ {0}
  BY DEF Triple
<1>2. rank \in 0 .. x * y * z - 1
  BY DEF Volume
<1>3. RankIndex(rank, gp) = <<i, j, k>>
  BY DEF RankIndex
<1> HIDE DEF x, y, z
<1>4. /\ i \in 0 .. x - 1 /\ j \in 0 .. y - 1 /\ k \in 0 .. z - 1
      /\ rank = i + x * (j + y * k)
  BY <1>1, <1>2, Decode, ZenonT(40)
<1> HIDE DEF i, j, k
<1>5. i \in Int /\ j \in Int /\ k \in Int
  BY <1>4
<1>6. <<i, j, k>> \in [1..3 -> Int]
  BY <1>5, Tuple
<1>7. \A a \in 1..3 : <<i, j, k>>[a] \in 0 .. gp[a] - 1
  BY <1>4 DEF x, y, z
<1>8. i % x = i /\ j % y = j /\ k % z = k
  BY <1>1, <1>4, Small
<1>9. IndexRank(<<i, j, k>>, gp) = (i % x) + x * ((j % y) + y * (k % z))
  BY DEF IndexRank, x, y, z
<1> QED BY <1>3, <1>4, <1>6, <1>7, <1>8, <1>9, Zenon

(* A step to either side and back, round the ring of ranks.                *)
LEMMA Ring ==
  ASSUME NEW g \in Nat \ {0}, NEW i \in 0 .. g - 1, NEW d \in {-1, 1}
  PROVE  LET j == (i + d) % g
         IN /\ j \in 0 .. g - 1 /\ (j - d) % g = i
            /\ d = 1 => (j = 0 <=> i = g - 1)
            /\ d = -1 => (j = g - 1 <=> i = 0)
<1>1. g % g = 0
  <2>1. 0 \in 0 .. g - 1 /\ 1 \in Int /\ 0 + g * 1 = g
    OBVIOUS
  <2> QED BY <2>1, Parts
<1>2. (-1) % g = g - 1
  <2>1. g - 1 \in 0 .. g - 1 /\ -1 \in Int /\ (g - 1) + g * (-1) = -1
    OBVIOUS
  <2> QED BY <2>1, Parts
<1>3. i % g = i
  BY Small
<1>4. CASE d = 1 /\ i = g - 1
  <2>1. i + d = g /\ 0 - d = -1
    BY <1>4
  <2> QED BY <1>1, <1>2, <1>4, <2>1
<1>5. CASE d = 1 /\ i # g - 1
  <2>1. i + 1 \in 0 .. g - 1 /\ (i + 1) - 1 = i
    BY <1>5
  <2>2. (i + 1) % g = i + 1
    BY <2>1, Small
  <2> QED BY <1>3, <1>5, <2>1, <2>2
<1>6. CASE d = -1 /\ i = 0
  <2>1. i + d = -1 /\ (g - 1) - d = g
    BY <1>6
  <2> QED BY <1>1, <1>2, <1>6, <2>1
<1>7. CASE d = -1 /\ i # 0
  <2>1. i - 1 \in 0 .. g - 1 /\ i + d = i - 1 /\ (i - 1) - d = i
    BY <1>7
  <2>2. (i - 1) % g = i - 1
    BY <2>1, Small
  <2> QED BY <1>3, <1>7, <2>1, <2>2
<1> QED BY <1>4, <1>5, <1>6, <1>7

(* The rank beside another, and the way back through the opposite face.    *)
LEMMA BesideIs ==
  ASSUME NEW gp \in Triple, NEW rank \in 0 .. Volume(gp) - 1, NEW f \in Face
  PROVE  /\ Beside(rank, f, gp) \in 0 .. Volume(gp) - 1
         /\ \A a \in 1..3 : RankIndex(Beside(rank, f, gp), gp)[a] =
              IF a = Axis(f) THEN (RankIndex(rank, gp)[a] + Dir(f)) % gp[a]
              ELSE RankIndex(rank, gp)[a]
         /\ Beside(Beside(rank, f, gp), Opposite(f), gp) = rank
<1> DEFINE p == RankIndex(rank, gp)
           q == [p EXCEPT ![Axis(f)] = @ + Dir(f)]
           b == Beside(rank, f, gp)
           u == RankIndex(b, gp)
           w == [u EXCEPT ![Axis(f)] = @ - Dir(f)]
<1>1. p \in [1..3 -> Int] /\ (\A a \in 1..3 : p[a] \in 0 .. gp[a] - 1) /\ IndexRank(p, gp) = rank
  BY Indexed
<1>2. Axis(f) \in 1..3 /\ Dir(f) \in {-1, 1} /\ Axis(Opposite(f)) = Axis(f) /\ Dir(Opposite(f)) = -Dir(f)
  BY FaceParts
<1>3. b = IndexRank(q, gp)
  BY DEF Beside
<1> HIDE DEF p, b
<1>4. q \in [1..3 -> Int] /\ \A a \in 1..3 : q[a] = IF a = Axis(f) THEN p[a] + Dir(f) ELSE p[a]
  BY <1>1, <1>2
<1>5. b \in 0 .. Volume(gp) - 1 /\ \A a \in 1..3 : u[a] = q[a] % gp[a]
  BY <1>3, <1>4, Wrapped
<1>6. \A a \in 1..3 : gp[a] \in Nat \ {0}
  BY DEF Triple
<1>7. \A a \in 1..3 : p[a] % gp[a] = p[a]
  BY <1>1, <1>6, Small
<1> HIDE DEF q
<1>8. \A a \in 1..3 : u[a] = IF a = Axis(f) THEN (p[a] + Dir(f)) % gp[a] ELSE p[a]
  BY <1>4, <1>5, <1>7
<1>9. u \in [1..3 -> Int] /\ \A a \in 1..3 : u[a] \in 0 .. gp[a] - 1
  BY <1>5, Indexed
<1> HIDE DEF u
<1>10. w \in [1..3 -> Int] /\ \A a \in 1..3 : w[a] = IF a = Axis(f) THEN u[a] - Dir(f) ELSE u[a]
  BY <1>2, <1>9
<1>11. w = [u EXCEPT ![Axis(Opposite(f))] = @ + Dir(Opposite(f))]
  <2>1. u[Axis(f)] - Dir(f) = u[Axis(f)] + (-Dir(f))
    BY <1>2, <1>9
  <2> QED BY <1>2, <2>1
<1>12. Beside(b, Opposite(f), gp) = IndexRank(w, gp)
  BY <1>11 DEF Beside, u
<1> HIDE DEF w
<1>13. \A a \in 1..3 : w[a] % gp[a] = p[a]
  <2> TAKE a \in 1..3
  <2>1. CASE a = Axis(f)
    <3>1. \A g \in Nat \ {0} : \A i \in 0 .. g - 1, d \in {-1, 1} : (((i + d) % g) - d) % g = i
      BY Ring
    <3>2. (((p[a] + Dir(f)) % gp[a]) - Dir(f)) % gp[a] = p[a]
      BY <1>1, <1>2, <1>6, <3>1, Zenon
    <3> QED BY <1>8, <1>10, <2>1, <3>2
  <2>2. CASE a # Axis(f)
    BY <1>7, <1>8, <1>10, <2>2
  <2> QED BY <2>1, <2>2
<1>14. IndexRank(w, gp) = IndexRank(p, gp)
  <2>1. 1 \in 1..3 /\ 2 \in 1..3 /\ 3 \in 1..3
    OBVIOUS
  <2> QED BY <1>7, <1>13, <2>1, Zenon DEF IndexRank
<1> QED BY <1>1, <1>5, <1>8, <1>12, <1>14 DEF p, b, u
-----------------------------------------------------------------------------
(* The tables of a rank while its deck calls size_grid, join_grid and      *)
(* set_pbc: their shape, and what each call changes.                       *)
Shaped(g, d) ==
  g \in [bc : [Face -> Int], neighbor : [0 .. nv(LocalSize(d)) - 1 -> [Face -> Int]]]

(* Ranks own ranges of the same length, one after the other.               *)
LEMMA Sizes ==
  ASSUME NEW d, WellFormed(d)
  PROVE  /\ LocalSize(d) \in Triple /\ nv(LocalSize(d)) \in Nat \ {0}
         /\ \A r \in Int : range(d, r) \in Int /\ range(d, r + 1) = range(d, r) + nv(LocalSize(d))
<1> DEFINE n == LocalSize(d)
<1>1. n \in Triple
  BY DEF WellFormed
<1> HIDE DEF n
<1>2. n[1] + 2 \in Nat \ {0} /\ n[2] + 2 \in Nat \ {0} /\ n[3] + 2 \in Nat \ {0}
  BY <1>1 DEF Triple
<1>3. nv(n) \in Nat \ {0}
  <2> DEFINE x == n[1] + 2
             y == n[2] + 2
             z == n[3] + 2
  <2> HIDE DEF x, y, z
  <2>1. x \in Nat \ {0} /\ y \in Nat \ {0} /\ z \in Nat \ {0}
    BY <1>2 DEF x, y, z
  <2>2. x * y * z \in Nat \ {0}
    BY <2>1
  <2> QED BY <2>2 DEF nv, x, y, z
<1> DEFINE m == nv(n)
<1> HIDE DEF m
<1>4. m \in Nat \ {0}
  BY <1>3 DEF m
<1>5. \A r \in Int : r * m \in Int /\ (r + 1) * m = r * m + m
  BY <1>4
<1> QED BY <1>1, <1>3, <1>5 DEF range, n, m

(* Coordinates are integers.                                               *)
LEMMA Coords ==
  ASSUME NEW d, WellFormed(d), NEW v \in 0 .. nv(LocalSize(d)) - 1
  PROVE  Coord(v, LocalSize(d)) \in [1..3 -> Int]
<1> DEFINE n == LocalSize(d)
           x == n[1] + 2
           y == n[2] + 2
<1>1. x \in Nat \ {0} /\ y \in Nat \ {0} /\ v \in Int
  BY Sizes DEF Triple
<1>2. x * y \in Nat \ {0}
  BY <1>1
<1>3. Coord(v, n) = <<v % x, (v \div x) % y, v \div (x * y)>>
  BY DEF Coord
<1> HIDE DEF x, y
<1>4. v % x \in Int /\ v \div x \in Int /\ v \div (x * y) \in Int
  BY <1>1, <1>2, Division
<1>5. (v \div x) % y \in Int
  BY <1>1, <1>4, Division
<1>6. <<v % x, (v \div x) % y, v \div (x * y)>> \in [1..3 -> Int]
  BY <1>4, <1>5, Tuple
<1> QED BY <1>3, <1>6, Zenon

(* So are the numbers of voxels.                                           *)
LEMMA VoxelInt ==
  ASSUME NEW n \in Triple, NEW c \in [1..3 -> Int]
  PROVE  VOXEL(c, n) \in Int
  BY DEF VOXEL, Triple

(* Table h is g but for what lies across face f.                           *)
FaceChanged(h, g, d, f, value) ==
  \A v \in 0 .. nv(LocalSize(d)) - 1, e \in Face : h.neighbor[v][e] =
    IF e = f /\ OnFace(Coord(v, LocalSize(d)), f, LocalSize(d)) THEN value[v]
    ELSE g.neighbor[v][e]

BcChanged(h, g, f, r) == h.bc = [g.bc EXCEPT ![f] = r]

(* set_pbc changes the entries of one face, and no other.                  *)
LEMMA SetFaceIs ==
  ASSUME NEW d, WellFormed(d), NEW g, Shaped(g, d), NEW f \in Face,
         NEW value \in [0 .. nv(LocalSize(d)) - 1 -> Int]
  PROVE  LET h == SetFace(g, d, f, value) IN
         Shaped(h, d) /\ h.bc = g.bc /\ FaceChanged(h, g, d, f, value)
<1> DEFINE n == LocalSize(d)
           V == 0 .. nv(n) - 1
           On(v) == OnFace(Coord(v, n), f, n)
           table == [v \in V |-> IF On(v) THEN [g.neighbor[v] EXCEPT ![f] = value[v]]
                                 ELSE g.neighbor[v]]
<1> HIDE DEF On
<1>1. g \in [bc : [Face -> Int], neighbor : [V -> [Face -> Int]]]
  BY DEF Shaped
<1>2. SetFace(g, d, f, value) = [g EXCEPT !.neighbor = table]
  <2>1. DOMAIN g.neighbor = V
    BY <1>1
  <2> QED BY <2>1 DEF SetFace, On
<1>3. \A v \in V : g.neighbor[v] \in [Face -> Int] /\ value[v] \in Int
  BY <1>1
<1> HIDE DEF V
<1>4. table \in [V -> [Face -> Int]]
  BY <1>3
<1>5. \A v \in V, e \in Face : table[v][e] = IF e = f /\ On(v) THEN value[v] ELSE g.neighbor[v][e]
  BY <1>3
<1> HIDE DEF table
<1>6. /\ [g EXCEPT !.neighbor = table] \in [bc : [Face -> Int], neighbor : [V -> [Face -> Int]]]
      /\ [g EXCEPT !.neighbor = table].bc = g.bc
      /\ [g EXCEPT !.neighbor = table].neighbor = table
  BY <1>1, <1>4 DEF V
<1> DEFINE h == SetFace(g, d, f, value)
<1>7. Shaped(h, d) /\ h.bc = g.bc
  BY <1>2, <1>6, Zenon DEF Shaped, V
<1>8. FaceChanged(h, g, d, f, value)
  <2>1. \A v \in V, e \in Face : h.neighbor[v][e] = IF e = f /\ On(v) THEN value[v] ELSE g.neighbor[v][e]
    <3>1. h.neighbor = table
      BY <1>2, <1>6, Zenon
    <3> QED BY <1>5, <3>1, Zenon
  <2> QED BY <2>1, Zenon DEF FaceChanged, V, On
<1> QED BY <1>7, <1>8, Zenon

(* The cell across a joined face: rank r's, on its opposite face.          *)
JoinedCell(d, r, f, v) ==
  LET n == LocalSize(d)
  IN range(d, r) + VOXEL([Coord(v, n) EXCEPT ![Axis(f)] = RemoteEdge(f, n, n[Axis(f)])], n)

JoinedCells(d, r, f) == [v \in 0 .. nv(LocalSize(d)) - 1 |-> JoinedCell(d, r, f, v)]

(* The extent that join_grid works out from the numbers of voxels.         *)
LEMMA Extent ==
  ASSUME NEW n \in Triple, NEW a \in 1..3
  PROVE  (nv(n) \div (nv(n) \div (n[a] + 2))) - 2 = n[a]
<1> DEFINE x == n[1] + 2
           y == n[2] + 2
           z == n[3] + 2
<1>1. x \in Nat \ {0} /\ y \in Nat \ {0} /\ z \in Nat \ {0} /\ n[a] \in Nat
  BY DEF Triple
<1>2. \E m \in Nat \ {0} : nv(n) = 0 + (n[a] + 2) * m
  <2>1. /\ x * y * z = x * (y * z) /\ y * z \in Nat \ {0} /\ x * y * z = y * (x * z)
        /\ x * z \in Nat \ {0} /\ x * y * z = z * (x * y) /\ x * y \in Nat \ {0}
        /\ nv(n) = x * y * z
    <3> HIDE DEF x, y, z
    <3>1. /\ x * y * z = x * (y * z) /\ y * z \in Nat \ {0} /\ x * y * z = y * (x * z)
          /\ x * z \in Nat \ {0} /\ x * y * z = z * (x * y) /\ x * y \in Nat \ {0}
      BY <1>1
    <3> QED BY <3>1 DEF nv, x, y, z
  <2>2. CASE a = 1
    <3> HIDE DEF y, z
    <3>1. nv(n) = 0 + (n[a] + 2) * (y * z)
      BY <1>1, <2>1, <2>2
    <3> QED BY <2>1, <3>1
  <2>3. CASE a = 2
    <3> HIDE DEF x, z
    <3>1. nv(n) = 0 + (n[a] + 2) * (x * z)
      BY <1>1, <2>1, <2>3
    <3> QED BY <2>1, <3>1
  <2>4. CASE a = 3
    <3> HIDE DEF x, y
    <3>1. nv(n) = 0 + (n[a] + 2) * (x * y)
      BY <1>1, <2>1, <2>4
    <3> QED BY <2>1, <3>1
  <2> QED BY <2>2, <2>3, <2>4
<1>3. PICK m \in Nat \ {0} : nv(n) = 0 + (n[a] + 2) * m
  BY <1>2
<1> DEFINE w == n[a] + 2
<1>4. w \in Nat \ {0} /\ w \in Int /\ m \in Int /\ w - 2 = n[a] /\ 0 \in 0 .. w - 1 /\ 0 \in 0 .. m - 1
  BY <1>1
<1> HIDE DEF w
<1>5. (0 + w * m) \div w = m /\ (0 + m * w) \div m = w
  BY <1>4, Parts
<1>6. 0 + w * m = 0 + m * w
  BY <1>4
<1> QED BY <1>3, <1>4, <1>5, <1>6 DEF w

(* It is a number.                                                         *)
LEMMA CellInt ==
  ASSUME NEW d, WellFormed(d), NEW r \in Int, NEW f \in Face,
         NEW v \in 0 .. nv(LocalSize(d)) - 1
  PROVE  JoinedCell(d, r, f, v) \in Int
<1> DEFINE n == LocalSize(d)
           c == Coord(v, n)
           e == RemoteEdge(f, n, n[Axis(f)])
<1>1. n \in Triple /\ range(d, r) \in Int /\ c \in [1..3 -> Int]
  BY Sizes, Coords
<1>2. e \in Int
  BY <1>1, FaceParts DEF RemoteEdge, Triple
<1> HIDE DEF c, e, n
<1>3. [c EXCEPT ![Axis(f)] = e] \in [1..3 -> Int]
  BY <1>1, <1>2
<1>4. VOXEL([c EXCEPT ![Axis(f)] = e], n) \in Int
  BY <1>1, <1>3, VoxelInt
<1>5. range(d, r) + VOXEL([c EXCEPT ![Axis(f)] = e], n) \in Int
  BY <1>1, <1>4
<1> QED BY <1>5 DEF JoinedCell, c, e, n

(* join_grid sets one bc and the entries of one face, and no other.        *)
LEMMA JoinGridIs ==
  ASSUME NEW d, WellFormed(d), NEW g, Shaped(g, d), NEW f \in Face, NEW r \in Int
  PROVE  LET h == JoinGrid(g, d, f, r) IN
         /\ Shaped(h, d) /\ BcChanged(h, g, f, r)
         /\ FaceChanged(h, g, d, f, JoinedCells(d, r, f))
<1> DEFINE n == LocalSize(d)
           V == 0 .. nv(n) - 1
           a == Axis(f)
           rnc == range(d, r + 1) - range(d, r)
           rn == (rnc \div (nv(n) \div (n[a] + 2))) - 2
           value == JoinedCells(d, r, f)
           s == SetFace(g, d, f, value)
<1>1. n \in Triple /\ a \in 1..3
  BY Sizes, FaceParts
<1>2. rnc = nv(n)
  <2>1. range(d, r) \in Int /\ range(d, r + 1) = range(d, r) + nv(n) /\ nv(n) \in Int
    BY Sizes
  <2> QED BY <2>1
<1>3. rn = n[a]
  BY <1>1, <1>2, Extent
<1>4. [n EXCEPT ![a] = n[a]] = n
  BY <1>1 DEF Triple
<1>5. DOMAIN g.neighbor = V
  BY DEF Shaped
<1>6. JoinGrid(g, d, f, r) = [s EXCEPT !.bc[f] = r]
  <2>1. JoinGrid(g, d, f, r) =
          [SetFace(g, d, f, [v \in V |->
             range(d, r) + VOXEL([Coord(v, n) EXCEPT ![a] = RemoteEdge(f, n, rn)],
                                 [n EXCEPT ![a] = rn])]) EXCEPT !.bc[f] = r]
    BY <1>5, Zenon DEF JoinGrid
  <2> QED BY <1>3, <1>4, <2>1, Zenon DEF JoinedCell, JoinedCells
<1>7. value \in [V -> Int]
  <2>1. \A v \in V : JoinedCell(d, r, f, v) \in Int
    BY CellInt
  <2> QED BY <2>1 DEF JoinedCells
<1> HIDE DEF value
<1>8. Shaped(s, d)
  BY <1>7, SetFaceIs, Zenon
<1>9. s.bc = g.bc
  BY <1>7, SetFaceIs, Zenon
<1>10. FaceChanged(s, g, d, f, value)
  BY <1>7, SetFaceIs, Zenon
<1> HIDE DEF s
<1> DEFINE h == [s EXCEPT !.bc[f] = r]
<1>11. h.neighbor = s.neighbor /\ h.bc = [s.bc EXCEPT ![f] = r] /\ Shaped(h, d)
  BY <1>8 DEF Shaped
<1> HIDE DEF h
<1>12. FaceChanged(h, g, d, f, value)
  BY <1>10, <1>11 DEF FaceChanged
<1>13. BcChanged(h, g, f, r)
  BY <1>9, <1>11 DEF BcChanged
<1> QED BY <1>6, <1>11, <1>12, <1>13, Zenon DEF value, h

(* The tables when the faces of S are joined: to the ranks beside.         *)
Joined(g, d, rank, S) ==
  /\ Shaped(g, d)
  /\ \A f \in Face : g.bc[f] = IF f \in S THEN Beside(rank, f, d.gp) ELSE anti_symmetric_fields
  /\ \A v \in 0 .. nv(LocalSize(d)) - 1, f \in Face : g.neighbor[v][f] =
       IF f \in S /\ OnFace(Coord(v, LocalSize(d)), f, LocalSize(d))
       THEN JoinedCells(d, Beside(rank, f, d.gp), f)[v]
       ELSE SizeGrid(d, rank).neighbor[v][f]

(* size_grid leaves every face unjoined.                                   *)
LEMMA Sized ==
  ASSUME NEW d, WellFormed(d), NEW rank \in Ranks(d)
  PROVE  Joined(SizeGrid(d, rank), d, rank, {})
<1> DEFINE n == LocalSize(d)
           V == 0 .. nv(n) - 1
           e(v, f) == IF ~Interior(Coord(v, n), n) \/ OnFace(Coord(v, n), f, n) THEN reflect_particles
                      ELSE range(d, rank) + VOXEL([Coord(v, n) EXCEPT ![Axis(f)] = @ + Dir(f)], n)
           g == SizeGrid(d, rank)
<1>1. g = [bc |-> [f \in Face |-> anti_symmetric_fields],
           neighbor |-> [v \in V |-> [f \in Face |-> e(v, f)]]]
  BY DEF SizeGrid
<1>2. \A v \in V, f \in Face : e(v, f) \in Int
  <2> TAKE v \in V, f \in Face
  <2> DEFINE c == [Coord(v, n) EXCEPT ![Axis(f)] = @ + Dir(f)]
  <2>1. n \in Triple /\ range(d, rank) \in Int
    BY Sizes DEF Ranks
  <2>2. c \in [1..3 -> Int]
    <3>1. Coord(v, n) \in [1..3 -> Int] /\ Axis(f) \in 1..3 /\ Dir(f) \in Int
      BY Coords, FaceParts
    <3> QED BY <3>1
  <2> HIDE DEF c, n
  <2>3. VOXEL(c, n) \in Int
    BY <2>1, <2>2, VoxelInt
  <2>4. range(d, rank) + VOXEL(c, n) \in Int /\ reflect_particles \in Int
    BY <2>1, <2>3 DEF reflect_particles
  <2> QED BY <2>4 DEF c
<1> HIDE DEF e, V
<1>3. /\ g \in [bc : [Face -> Int], neighbor : [V -> [Face -> Int]]]
      /\ g.bc = [f \in Face |-> anti_symmetric_fields]
  BY <1>1, <1>2 DEF anti_symmetric_fields
<1> HIDE DEF g
<1> QED BY <1>3 DEF Joined, Shaped, V, g

(* Each join_grid adds its face.                                           *)
LEMMA JoinStep ==
  ASSUME NEW d, WellFormed(d), NEW rank \in Ranks(d), NEW S, NEW g, Joined(g, d, rank, S),
         NEW f \in Face
  PROVE  Joined(JoinGrid(g, d, f, Beside(rank, f, d.gp)), d, rank, S \cup {f})
<1> DEFINE r == Beside(rank, f, d.gp)
           h == JoinGrid(g, d, f, r)
           cells == JoinedCells(d, r, f)
<1>1. r \in Int
  BY BesideIs DEF WellFormed, Ranks
<1>2. Shaped(g, d)
  BY DEF Joined
<1>3. Shaped(h, d) /\ h.bc = [g.bc EXCEPT ![f] = r]
  <2>1. Shaped(h, d)
    BY <1>1, <1>2, JoinGridIs, Zenon
  <2>2. BcChanged(h, g, f, r)
    BY <1>1, <1>2, JoinGridIs, Zenon
  <2> QED BY <2>1, <2>2 DEF BcChanged
<1>4. FaceChanged(h, g, d, f, cells)
  BY <1>1, <1>2, JoinGridIs, Zenon
<1> HIDE DEF h, cells
<1>5. \A e \in Face : h.bc[e] = IF e \in S \cup {f} THEN Beside(rank, e, d.gp) ELSE anti_symmetric_fields
  BY <1>2, <1>3 DEF Joined, Shaped
<1>6. ASSUME NEW v \in 0 .. nv(LocalSize(d)) - 1, NEW e \in Face
      PROVE  h.neighbor[v][e] =
               IF e \in S \cup {f} /\ OnFace(Coord(v, LocalSize(d)), e, LocalSize(d))
               THEN JoinedCells(d, Beside(rank, e, d.gp), e)[v]
               ELSE SizeGrid(d, rank).neighbor[v][e]
  <2>1. h.neighbor[v][e] = IF e = f /\ OnFace(Coord(v, LocalSize(d)), f, LocalSize(d)) THEN cells[v]
                           ELSE g.neighbor[v][e]
    BY <1>4 DEF FaceChanged
  <2>2. g.neighbor[v][e] =
          IF e \in S /\ OnFace(Coord(v, LocalSize(d)), e, LocalSize(d))
          THEN JoinedCells(d, Beside(rank, e, d.gp), e)[v]
          ELSE SizeGrid(d, rank).neighbor[v][e]
    BY DEF Joined
  <2> QED BY <2>1, <2>2 DEF cells
<1> QED BY <1>3, <1>5, <1>6 DEF Joined, h

(* So a periodic box is joined on every face.                              *)
LEMMA Periodic ==
  ASSUME NEW d, WellFormed(d), NEW rank \in Ranks(d)
  PROVE  Joined(PartitionPeriodicBox(d, rank), d, rank, Face)
<1> DEFINE join(g, f) == JoinGrid(g, d, f, Beside(rank, f, d.gp))
           g0 == join(SizeGrid(d, rank), 0)
           g1 == join(g0, 1)
           g2 == join(g1, 2)
           g3 == join(g2, 3)
           g4 == join(g3, 4)
           g5 == join(g4, 5)
<1>1. PartitionPeriodicBox(d, rank) = g5
  BY Zenon DEF PartitionPeriodicBox
<1>2. 0 \in Face /\ 1 \in Face /\ 2 \in Face /\ 3 \in Face /\ 4 \in Face /\ 5 \in Face
  BY DEF Face
<1>3. \A g, S : \A f \in Face : Joined(g, d, rank, S) => Joined(join(g, f), d, rank, S \cup {f})
  BY JoinStep
<1> HIDE DEF join
<1>4. Joined(g0, d, rank, {} \cup {0})
  BY <1>2, <1>3, Sized, Zenon
<1> HIDE DEF g0
<1>5. Joined(g1, d, rank, ({} \cup {0}) \cup {1})
  BY <1>2, <1>3, <1>4, Zenon
<1> HIDE DEF g1
<1>6. Joined(g2, d, rank, (({} \cup {0}) \cup {1}) \cup {2})
  BY <1>2, <1>3, <1>5, Zenon
<1> HIDE DEF g2
<1>7. Joined(g3, d, rank, ((({} \cup {0}) \cup {1}) \cup {2}) \cup {3})
  BY <1>2, <1>3, <1>6, Zenon
<1> HIDE DEF g3
<1>8. Joined(g4, d, rank, (((({} \cup {0}) \cup {1}) \cup {2}) \cup {3}) \cup {4})
  BY <1>2, <1>3, <1>7, Zenon
<1> HIDE DEF g4
<1>9. Joined(g5, d, rank, ((((({} \cup {0}) \cup {1}) \cup {2}) \cup {3}) \cup {4}) \cup {5})
  BY <1>2, <1>3, <1>8, Zenon
<1>10. ((((({} \cup {0}) \cup {1}) \cup {2}) \cup {3}) \cup {4}) \cup {5} = Face
  BY DEF Face
<1> QED BY <1>1, <1>9, <1>10, Zenon
-----------------------------------------------------------------------------
(* The tables when the faces of S that are walls have their conditions.    *)
Walled(g, d, rank, fbc, pbc, S) ==
  /\ Shaped(g, d)
  /\ \A f \in Face : g.bc[f] = IF f \in S /\ Outer(d, rank, f) THEN fbc ELSE Beside(rank, f, d.gp)
  /\ \A v \in 0 .. nv(LocalSize(d)) - 1, f \in Face : g.neighbor[v][f] =
       IF f \in S /\ Outer(d, rank, f) /\ OnFace(Coord(v, LocalSize(d)), f, LocalSize(d))
       THEN pbc[f] ELSE PartitionPeriodicBox(d, rank).neighbor[v][f]

WallStep(g, d, rank, fbc, pbc, f) ==
  IF Outer(d, rank, f) THEN SetBoundary(g, d, f, fbc, pbc[f]) ELSE g

(* Each face tested adds its condition if the rank is on the outside.      *)
LEMMA WallStepIs ==
  ASSUME NEW d, WellFormed(d), NEW rank \in Ranks(d), NEW fbc \in Int, NEW pbc,
         \A e \in Face : pbc[e] \in Int, NEW S, NEW g, Walled(g, d, rank, fbc, pbc, S), NEW f \in Face
  PROVE  Walled(WallStep(g, d, rank, fbc, pbc, f), d, rank, fbc, pbc, S \cup {f})
<1> DEFINE n == LocalSize(d)
           V == 0 .. nv(n) - 1
           value == [v \in V |-> pbc[f]]
           s == SetFace(g, d, f, value)
           h == [s EXCEPT !.bc[f] = fbc]
<1>1. Shaped(g, d) /\ value \in [V -> Int] /\ DOMAIN g.neighbor = V
  BY DEF Walled, Shaped
<1>2. SetBoundary(g, d, f, fbc, pbc[f]) = h
  BY <1>1, Zenon DEF SetBoundary
<1>3. \A v \in V : value[v] = pbc[f]
  OBVIOUS
<1> HIDE DEF value
<1>4. Shaped(s, d)
  BY <1>1, SetFaceIs, Zenon
<1>5. s.bc = g.bc
  BY <1>1, SetFaceIs, Zenon
<1>6. FaceChanged(s, g, d, f, value)
  BY <1>1, SetFaceIs, Zenon
<1> HIDE DEF s
<1>7. h.neighbor = s.neighbor /\ h.bc = [g.bc EXCEPT ![f] = fbc] /\ Shaped(h, d)
  BY <1>4, <1>5 DEF Shaped
<1> HIDE DEF h
<1>8. CASE Outer(d, rank, f)
  <2>1. \A e \in Face : h.bc[e] =
          IF e \in S \cup {f} /\ Outer(d, rank, e) THEN fbc ELSE Beside(rank, e, d.gp)
    BY <1>1, <1>7, <1>8 DEF Walled, Shaped
  <2>2. ASSUME NEW v \in V, NEW e \in Face
        PROVE  h.neighbor[v][e] =
                 IF e \in S \cup {f} /\ Outer(d, rank, e) /\ OnFace(Coord(v, n), e, n)
                 THEN pbc[e] ELSE PartitionPeriodicBox(d, rank).neighbor[v][e]
    <3>1. h.neighbor[v][e] = IF e = f /\ OnFace(Coord(v, n), f, n) THEN pbc[f] ELSE g.neighbor[v][e]
      BY <1>3, <1>6, <1>7 DEF FaceChanged
    <3>2. g.neighbor[v][e] = IF e \in S /\ Outer(d, rank, e) /\ OnFace(Coord(v, n), e, n)
                             THEN pbc[e] ELSE PartitionPeriodicBox(d, rank).neighbor[v][e]
      BY DEF Walled
    <3> QED BY <1>8, <3>1, <3>2
  <2> QED BY <1>2, <1>7, <1>8, <2>1, <2>2 DEF Walled, WallStep
<1>9. CASE ~Outer(d, rank, f)
  BY <1>9 DEF Walled, WallStep
<1> QED BY <1>8, <1>9

(* So every wall of the box has its conditions.                            *)
LEMMA WalledBox ==
  ASSUME NEW d, WellFormed(d), NEW rank \in Ranks(d), NEW fbc \in Int, NEW pbc,
         \A e \in Face : pbc[e] \in Int
  PROVE  Walled(PartitionWalledBox(d, rank, fbc, pbc), d, rank, fbc, pbc, Face)
<1> DEFINE P == PartitionPeriodicBox(d, rank)
           wall(g, f) == WallStep(g, d, rank, fbc, pbc, f)
           W(g, S) == Walled(g, d, rank, fbc, pbc, S)
           g0 == wall(P, 0)
           g1 == wall(g0, 3)
           g2 == wall(g1, 1)
           g3 == wall(g2, 4)
           g4 == wall(g3, 2)
           g5 == wall(g4, 5)
<1>1. PartitionWalledBox(d, rank, fbc, pbc) = g5
  BY Zenon DEF PartitionWalledBox, WallStep
<1>2. 0 \in Face /\ 1 \in Face /\ 2 \in Face /\ 3 \in Face /\ 4 \in Face /\ 5 \in Face
  BY DEF Face
<1>3. \A g, S : \A f \in Face : W(g, S) => W(wall(g, f), S \cup {f})
  BY WallStepIs
<1>4. W(P, {})
  BY Periodic DEF Walled, Joined
<1> HIDE DEF W, wall
<1>5. W(g0, {} \cup {0})
  BY <1>2, <1>3, <1>4, Zenon
<1> HIDE DEF g0
<1>6. W(g1, ({} \cup {0}) \cup {3})
  BY <1>2, <1>3, <1>5, Zenon
<1> HIDE DEF g1
<1>7. W(g2, (({} \cup {0}) \cup {3}) \cup {1})
  BY <1>2, <1>3, <1>6, Zenon
<1> HIDE DEF g2
<1>8. W(g3, ((({} \cup {0}) \cup {3}) \cup {1}) \cup {4})
  BY <1>2, <1>3, <1>7, Zenon
<1> HIDE DEF g3
<1>9. W(g4, (((({} \cup {0}) \cup {3}) \cup {1}) \cup {4}) \cup {2})
  BY <1>2, <1>3, <1>8, Zenon
<1> HIDE DEF g4
<1>10. W(g5, ((((({} \cup {0}) \cup {3}) \cup {1}) \cup {4}) \cup {2}) \cup {5})
  BY <1>2, <1>3, <1>9, Zenon
<1>11. ((((({} \cup {0}) \cup {3}) \cup {1}) \cup {4}) \cup {2}) \cup {5} = Face
  BY DEF Face
<1>12. W(g5, Face)
  BY <1>10, <1>11, Zenon
<1> QED BY <1>1, <1>12, Zenon DEF W

(* What a rank's tables say when its box has been partitioned.             *)
AtOuterWall(d, rank, f) == d.box # "periodic" /\ Outer(d, rank, f)

(* They say what is across each face: next cell, wall, or the rank beside. *)
LEMMA TablesAre ==
  ASSUME NEW d, WellFormed(d), NEW rank \in Ranks(d), NEW f \in Face
  PROVE  LET t == Partition(d, rank) IN
         /\ IF AtOuterWall(d, rank, f) THEN t.bc[f] \in Int /\ t.bc[f] < 0
            ELSE t.bc[f] = Beside(rank, f, d.gp)
         /\ \A v \in 0 .. nv(LocalSize(d)) - 1 : Interior(Coord(v, LocalSize(d)), LocalSize(d)) =>
              t.neighbor[v][f] =
                IF ~OnFace(Coord(v, LocalSize(d)), f, LocalSize(d))
                THEN range(d, rank) + VOXEL([Coord(v, LocalSize(d)) EXCEPT ![Axis(f)] = @ + Dir(f)],
                                            LocalSize(d))
                ELSE IF AtOuterWall(d, rank, f) THEN Wall(d, f)
                ELSE JoinedCell(d, Beside(rank, f, d.gp), f, v)
<1> DEFINE n == LocalSize(d)
           V == 0 .. nv(n) - 1
           t == Partition(d, rank)
           P == PartitionPeriodicBox(d, rank)
           On(v) == OnFace(Coord(v, n), f, n)
           next(v) == range(d, rank) + VOXEL([Coord(v, n) EXCEPT ![Axis(f)] = @ + Dir(f)], n)
           cell(v) == JoinedCell(d, Beside(rank, f, d.gp), f, v)
<1>1. /\ P.bc[f] = Beside(rank, f, d.gp)
      /\ \A v \in V : Interior(Coord(v, n), n) => P.neighbor[v][f] = IF On(v) THEN cell(v) ELSE next(v)
  <2>1. Joined(P, d, rank, Face)
    BY Periodic
  <2>2. ASSUME NEW v \in V, Interior(Coord(v, n), n)
        PROVE  P.neighbor[v][f] = IF On(v) THEN cell(v) ELSE next(v)
    <3>1. P.neighbor[v][f] = IF On(v) THEN JoinedCells(d, Beside(rank, f, d.gp), f)[v]
                             ELSE SizeGrid(d, rank).neighbor[v][f]
      BY <2>1 DEF Joined
    <3>2. JoinedCells(d, Beside(rank, f, d.gp), f)[v] = cell(v)
      BY DEF JoinedCells
    <3>3. ~On(v) => SizeGrid(d, rank).neighbor[v][f] = next(v)
      BY <2>2 DEF SizeGrid
    <3> QED BY <3>1, <3>2, <3>3, Zenon
  <2> QED BY <2>1, <2>2 DEF Joined
<1>2. CASE d.box = "periodic"
  <2>1. t = P /\ ~AtOuterWall(d, rank, f)
    BY <1>2 DEF Partition, AtOuterWall
  <2> HIDE DEF t, P, V, On, cell, next
  <2> QED BY <1>1, <2>1 DEF t, P, V, On, cell, next
<1>3. CASE d.box = "absorbing"
  <2>1. t = PartitionWalledBox(d, rank, absorb_fields, d.pbc)
    BY <1>3 DEF Partition
  <2>2. Walled(t, d, rank, absorb_fields, d.pbc, Face)
    <3>1. absorb_fields \in Int /\ \A e \in Face : d.pbc[e] \in Int
      BY DEF WellFormed, absorb_fields
    <3> QED BY <2>1, <3>1, WalledBox, Zenon
  <2>3. /\ Wall(d, f) = d.pbc[f] /\ (AtOuterWall(d, rank, f) <=> Outer(d, rank, f))
        /\ absorb_fields \in Int /\ absorb_fields < 0
    BY <1>3 DEF Wall, AtOuterWall, absorb_fields
  <2>4. /\ t.bc[f] = IF Outer(d, rank, f) THEN absorb_fields ELSE Beside(rank, f, d.gp)
        /\ \A v \in V : t.neighbor[v][f] = IF Outer(d, rank, f) /\ On(v) THEN d.pbc[f] ELSE P.neighbor[v][f]
    BY <2>2 DEF Walled
  <2> HIDE DEF t, P, V, On, cell, next
  <2> QED BY <1>1, <2>3, <2>4 DEF t, P, V, On, cell, next
<1>4. CASE d.box = "metal"
  <2> DEFINE pbc == [e \in Face |-> reflect_particles]
  <2>1. t = PartitionWalledBox(d, rank, anti_symmetric_fields, pbc)
    BY <1>4 DEF Partition
  <2>2. Walled(t, d, rank, anti_symmetric_fields, pbc, Face)
    <3>1. anti_symmetric_fields \in Int /\ \A e \in Face : pbc[e] \in Int
      BY DEF anti_symmetric_fields, reflect_particles
    <3> QED BY <2>1, <3>1, WalledBox, Zenon
  <2>3. /\ Wall(d, f) = pbc[f] /\ (AtOuterWall(d, rank, f) <=> Outer(d, rank, f))
        /\ anti_symmetric_fields \in Int /\ anti_symmetric_fields < 0
    BY <1>4 DEF Wall, AtOuterWall, anti_symmetric_fields
  <2>4. /\ t.bc[f] = IF Outer(d, rank, f) THEN anti_symmetric_fields ELSE Beside(rank, f, d.gp)
        /\ \A v \in V : t.neighbor[v][f] = IF Outer(d, rank, f) /\ On(v) THEN pbc[f] ELSE P.neighbor[v][f]
    BY <2>2 DEF Walled
  <2> HIDE DEF t, P, V, On, cell, next, pbc
  <2> QED BY <1>1, <2>3, <2>4 DEF t, P, V, On, cell, next
<1> QED BY <1>2, <1>3, <1>4 DEF WellFormed
-----------------------------------------------------------------------------
(* Along an axis: g ranks of n cells; the c-th cell of the i-th, from 1.   *)
LEMMA AxisHere ==
  ASSUME NEW n \in Nat \ {0}, NEW i \in Int, NEW c \in 1 .. n
  PROVE  (i * n + c - 1) \div n = i /\ (i * n + c - 1) % n = c - 1
<1>1. c - 1 \in 0 .. n - 1 /\ i * n + c - 1 = (c - 1) + n * i
  OBVIOUS
<1>2. ((c - 1) + n * i) \div n = i /\ ((c - 1) + n * i) % n = c - 1
  <2> DEFINE r == c - 1
  <2>1. r \in 0 .. n - 1
    BY <1>1
  <2> HIDE DEF r
  <2>2. (r + n * i) \div n = i /\ (r + n * i) % n = r
    BY <2>1, Parts
  <2> QED BY <2>2 DEF r
<1> QED BY <1>1, <1>2

AtEdge(c, n, s) == c = IF s < 0 THEN 1 ELSE n

(* The cell beside it, around the whole axis: in the same rank or, from    *)
(* its edge, on the other edge of the rank beside.                         *)
AxisStepIs(n, g, i, c, s) ==
  LET e == (i * n + c - 1 + s) % (n * g) IN
  IF AtEdge(c, n, s)
  THEN e \div n = (i + s) % g /\ (e % n) + 1 = IF s < 0 THEN n ELSE 1
  ELSE e \div n = i /\ (e % n) + 1 = c + s

(* A step along the axis does that.                                        *)
LEMMA AxisStep ==
  ASSUME NEW n \in Nat \ {0}, NEW g \in Nat \ {0}, NEW i \in 0 .. g - 1, NEW c \in 1 .. n,
         NEW s \in {-1, 1}
  PROVE  AxisStepIs(n, g, i, c, s)
<1> DEFINE w == n * g
           x == i * n + c - 1 + s
           e == x % w
<1>1. w \in Nat \ {0} /\ x \in Int
  OBVIOUS
<1>2. ASSUME NEW k \in 0 .. g - 1, NEW r \in 0 .. n - 1, NEW z \in Int, x = (r + n * k) + w * z
      PROVE  e \div n = k /\ e % n = r
  <2> DEFINE y == r + n * k
  <2>1. y \in 0 .. w - 1
    <3>1. k \in Int /\ k + 1 \in Int /\ g \in Int /\ k + 1 <= g
      OBVIOUS
    <3>2. n * (k + 1) <= n * g
      BY <3>1, Product
    <3>3. n * (k + 1) = n * k + n /\ n * k \in Nat
      OBVIOUS
    <3> HIDE DEF w
    <3> QED BY <1>1, <3>2, <3>3 DEF w
  <2> HIDE DEF y, w
  <2>2. (y + w * z) % w = y
    BY <1>1, <2>1, Parts
  <2>3. x = y + w * z
    BY <1>2 DEF y
  <2> HIDE DEF x
  <2>4. e = y
    BY <2>2, <2>3
  <2>5. y \div n = k /\ y % n = r
    <3>1. k \in Int
      OBVIOUS
    <3> QED BY <3>1, Parts DEF y
  <2> QED BY <2>4, <2>5
<1> HIDE DEF e
<1>3. CASE ~AtEdge(c, n, s)
  <2>1. c - 1 + s \in 0 .. n - 1
    BY <1>3 DEF AtEdge
  <2>2. x = ((c - 1 + s) + n * i) + w * 0
    OBVIOUS
  <2>3. e \div n = i /\ e % n = c - 1 + s
    <3>1. 0 \in Int
      OBVIOUS
    <3> HIDE DEF x, w
    <3> QED BY <1>2, <2>1, <2>2, <3>1
  <2>4. (c - 1 + s) + 1 = c + s
    OBVIOUS
  <2> QED BY <1>3, <2>3, <2>4 DEF AxisStepIs, e
<1>4. CASE AtEdge(c, n, s) /\ s = 1
  <2>1. c = n /\ 0 \in 0 .. n - 1
    BY <1>4 DEF AtEdge
  <2>2. PICK z \in {0, 1} : i + 1 = ((i + 1) % g) + g * z
    <3>1. CASE i = g - 1
      <4>1. (i + 1) % g = 0
        <5>1. i + 1 = 0 + g * 1 /\ 0 \in 0 .. g - 1 /\ 1 \in Int
          BY <3>1
        <5> QED BY <5>1, Parts
      <4>2. i + 1 = 0 + g * 1
        BY <3>1
      <4> QED BY <4>1, <4>2
    <3>2. CASE i # g - 1
      <4>1. i + 1 \in 0 .. g - 1
        BY <3>2
      <4>2. (i + 1) % g = i + 1
        BY <4>1, Small
      <4>3. i + 1 = (i + 1) + g * 0
        OBVIOUS
      <4> QED BY <4>2, <4>3
    <3> QED BY <3>1, <3>2
  <2> DEFINE k == (i + 1) % g
  <2>3. k \in 0 .. g - 1
    <3>1. 1 \in {-1, 1}
      OBVIOUS
    <3> QED BY <3>1, Ring
  <2> HIDE DEF k
  <2>4. x = n * (i + 1) /\ n * (i + 1) = n * (k + g * z) /\ n * (k + g * z) = (0 + n * k) + w * z
    BY <1>4, <2>1, <2>2, <2>3 DEF k
  <2>5. e \div n = k /\ e % n = 0
    <3>1. z \in Int /\ x = (0 + n * k) + w * z
      BY <2>4
    <3> HIDE DEF x, w
    <3> QED BY <1>2, <2>1, <2>3, <3>1
  <2> QED BY <1>4, <2>5 DEF AxisStepIs, e, k
<1>5. CASE AtEdge(c, n, s) /\ s = -1
  <2>1. c = 1 /\ n - 1 \in 0 .. n - 1
    BY <1>5 DEF AtEdge
  <2>2. PICK z \in {-1, 0} : i - 1 = ((i + (-1)) % g) + g * z
    <3>1. CASE i = 0
      <4>1. (i + (-1)) % g = g - 1
        <5>1. i + (-1) = (g - 1) + g * (-1) /\ g - 1 \in 0 .. g - 1 /\ -1 \in Int
          BY <3>1
        <5> QED BY <5>1, Parts
      <4>2. i - 1 = (g - 1) + g * (-1)
        BY <3>1
      <4> QED BY <4>1, <4>2
    <3>2. CASE i # 0
      <4>1. i + (-1) \in 0 .. g - 1
        BY <3>2
      <4>2. (i + (-1)) % g = i + (-1)
        BY <4>1, Small
      <4>3. i - 1 = (i + (-1)) + g * 0
        OBVIOUS
      <4> QED BY <4>2, <4>3
    <3> QED BY <3>1, <3>2
  <2> DEFINE k == (i + (-1)) % g
  <2>3. k \in 0 .. g - 1
    <3>1. -1 \in {-1, 1}
      OBVIOUS
    <3> QED BY <3>1, Ring
  <2> HIDE DEF k
  <2>4. /\ x = (n - 1) + n * (i - 1) /\ n * (i - 1) = n * (k + g * z)
        /\ n * (k + g * z) = n * k + w * z
    BY <1>5, <2>1, <2>2, <2>3 DEF k
  <2>5. e \div n = k /\ e % n = n - 1
    <3>1. n * k \in Int /\ w * z \in Int /\ n * (i - 1) \in Int
      BY <2>3
    <3>2. z \in Int /\ x = ((n - 1) + n * k) + w * z
      BY <2>4, <3>1
    <3> HIDE DEF x, w
    <3> QED BY <1>2, <2>1, <2>3, <3>2
  <2>6. (n - 1) + 1 = n
    OBVIOUS
  <2> QED BY <1>5, <2>5, <2>6 DEF AxisStepIs, e, k
<1> QED BY <1>3, <1>4, <1>5

(* The ends of the whole axis are ends of the first and the last rank.     *)
LEMMA AxisEnds ==
  ASSUME NEW n \in Nat \ {0}, NEW g \in Nat \ {0}, NEW i \in 0 .. g - 1, NEW c \in 1 .. n
  PROVE  /\ i * n + c = 1 <=> i = 0 /\ c = 1
         /\ (i * n + c = n * g <=> i = g - 1 /\ c = n)
<1>1. i * n \in Nat /\ (i # 0 => n <= i * n) /\ (i = 0 => i * n = 0)
  <2>1. i # 0 => n * 1 <= n * i
    BY Product
  <2>2. n * 1 = n /\ n * i = i * n /\ i * n \in Nat /\ 0 * n = 0
    OBVIOUS
  <2> QED BY <2>1, <2>2
<1>2. n * g = n * (g - 1) + n /\ (i = g - 1 => i * n = n * (g - 1)) /\ n * (g - 1) \in Nat
  OBVIOUS
<1>3. i # g - 1 => i * n + n <= n * (g - 1)
  <2>1. i # g - 1 => i < g - 1 /\ i \in Int /\ g - 1 \in Int
    OBVIOUS
  <2>2. i # g - 1 => n * i + n <= n * (g - 1)
    BY <2>1, Product
  <2>3. n * i = i * n
    OBVIOUS
  <2> QED BY <2>2, <2>3
<1> DEFINE m == i * n
           q == n * (g - 1)
           t == n * g
<1> HIDE DEF m, q, t
<1>4. /\ m \in Nat /\ (i # 0 => n <= m) /\ (i = 0 => m = 0)
      /\ t = q + n /\ (i = g - 1 => m = q) /\ q \in Nat
      /\ i # g - 1 => m + n <= q
  BY <1>1, <1>2, <1>3 DEF m, q, t
<1>5. m + c = 1 <=> i = 0 /\ c = 1
  BY <1>4
<1>6. m + c = t <=> i = g - 1 /\ c = n
  BY <1>4
<1> QED BY <1>5, <1>6 DEF m, t
-----------------------------------------------------------------------------
(* A cell of a rank in the undivided box.                                  *)
LEMMA Global ==
  ASSUME NEW d, WellFormed(d), NEW rank \in Ranks(d), NEW c \in [1..3 -> Int],
         Interior(c, LocalSize(d))
  PROVE  \A a \in 1..3 :
           /\ LocalSize(d)[a] \in Nat \ {0} /\ d.gp[a] \in Nat \ {0} /\ c[a] \in 1 .. LocalSize(d)[a]
           /\ RankIndex(rank, d.gp)[a] \in 0 .. d.gp[a] - 1
           /\ d.gn[a] = LocalSize(d)[a] * d.gp[a]
           /\ GlobalCoord(d, rank, c)[a] = RankIndex(rank, d.gp)[a] * LocalSize(d)[a] + c[a]
           /\ GlobalCoord(d, rank, c)[a] \in Int
<1>1. \A a \in 1..3 :
        /\ LocalSize(d)[a] \in Nat \ {0} /\ d.gp[a] \in Nat \ {0} /\ c[a] \in 1 .. LocalSize(d)[a]
        /\ d.gn[a] = LocalSize(d)[a] * d.gp[a]
  BY DEF WellFormed, Triple, Interior
<1>2. \A a \in 1..3 : RankIndex(rank, d.gp)[a] \in 0 .. d.gp[a] - 1
  BY Indexed DEF WellFormed, Ranks
<1>3. \A a \in 1..3 : GlobalCoord(d, rank, c)[a] = RankIndex(rank, d.gp)[a] * LocalSize(d)[a] + c[a]
  BY DEF GlobalCoord
<1>4. \A i, n, k \in Int : i * n + k \in Int
  OBVIOUS
<1> QED BY <1>1, <1>2, <1>3, <1>4

(* Walls of the undivided box are those of the ranks on its outside.       *)
LEMMA Walls ==
  ASSUME NEW d, WellFormed(d), NEW rank \in Ranks(d), NEW c \in [1..3 -> Int],
         Interior(c, LocalSize(d)), NEW f \in Face
  PROVE  AtWall(d, GlobalCoord(d, rank, c), f) <=>
           AtOuterWall(d, rank, f) /\ OnFace(c, f, LocalSize(d))
<1> DEFINE a == Axis(f)
           n == LocalSize(d)[a]
           g == d.gp[a]
           i == RankIndex(rank, d.gp)[a]
           k == c[a]
<1>1. a \in 1..3 /\ Dir(f) \in {-1, 1}
  BY FaceParts
<1>2. /\ n \in Nat \ {0} /\ g \in Nat \ {0} /\ i \in 0 .. g - 1 /\ k \in 1 .. n /\ d.gn[a] = n * g
      /\ GlobalCoord(d, rank, c)[a] = i * n + k
  BY <1>1, Global
<1>3. (i * n + k = 1 <=> i = 0 /\ k = 1) /\ (i * n + k = n * g <=> i = g - 1 /\ k = n)
  BY <1>2, AxisEnds
<1> HIDE DEF n, g, i, k
<1>4. CASE Dir(f) < 0
  <2>1. Edge(f, d.gn) = 1 /\ Edge(f, LocalSize(d)) = 1
    BY <1>4 DEF Edge
  <2>2. Outer(d, rank, f) <=> i = 0 /\ d.gn[a] > 1
    BY <1>4 DEF Outer, i
  <2>3. OnFace(c, f, LocalSize(d)) <=> k = 1
    BY <2>1 DEF OnFace, k
  <2>4. AtWall(d, GlobalCoord(d, rank, c), f) <=> d.box # "periodic" /\ d.gn[a] > 1 /\ i * n + k = 1
    BY <1>2, <2>1 DEF AtWall
  <2> QED BY <1>3, <2>2, <2>3, <2>4, Zenon DEF AtOuterWall
<1>5. CASE ~(Dir(f) < 0)
  <2>1. Edge(f, d.gn) = n * g /\ Edge(f, LocalSize(d)) = n
    BY <1>2, <1>5 DEF Edge, n
  <2>2. Outer(d, rank, f) <=> i = g - 1 /\ d.gn[a] > 1
    BY <1>5 DEF Outer, i, g
  <2>3. OnFace(c, f, LocalSize(d)) <=> k = n
    BY <2>1 DEF OnFace, k
  <2>4. AtWall(d, GlobalCoord(d, rank, c), f) <=> d.box # "periodic" /\ d.gn[a] > 1 /\ i * n + k = n * g
    BY <1>2, <2>1 DEF AtWall
  <2> QED BY <1>3, <2>2, <2>3, <2>4, Zenon DEF AtOuterWall
<1> QED BY <1>4, <1>5

(* Indexes that agree when wrapped are the same rank.                      *)
LEMMA SameRank ==
  ASSUME NEW gp, NEW p, NEW q, \A a \in 1..3 : p[a] % gp[a] = q[a] % gp[a]
  PROVE  IndexRank(p, gp) = IndexRank(q, gp)
<1>1. 1 \in 1..3 /\ 2 \in 1..3 /\ 3 \in 1..3
  OBVIOUS
<1> QED BY <1>1, Zenon DEF IndexRank

(* Equal coordinates have one number.                                      *)
LEMMA SameVoxel ==
  ASSUME NEW n, NEW p, NEW q, \A a \in 1..3 : p[a] = q[a]
  PROVE  VOXEL(p, n) = VOXEL(q, n)
<1>1. 1 \in 1..3 /\ 2 \in 1..3 /\ 3 \in 1..3
  OBVIOUS
<1> QED BY <1>1, Zenon DEF VOXEL

(* What lies across a face in the undivided, periodic box.                 *)
LEMMA WallLands ==
  ASSUME NEW d, WellFormed(d), NEW rank \in Ranks(d), NEW c \in [1..3 -> Int],
         Interior(c, LocalSize(d)), NEW f \in Face
  PROVE  LET n == LocalSize(d)
             r == Beside(rank, f, d.gp)
         IN GlobalVoxel(d, Across(d, GlobalCoord(d, rank, c), f)) =
              IF OnFace(c, f, n)
              THEN range(d, r) + VOXEL([c EXCEPT ![Axis(f)] = RemoteEdge(f, n, n[Axis(f)])], n)
              ELSE range(d, rank) + VOXEL([c EXCEPT ![Axis(f)] = @ + Dir(f)], n)
<1> DEFINE n == LocalSize(d)
           gp == d.gp
           r == Beside(rank, f, gp)
           b == Axis(f)
           s == Dir(f)
           i == RankIndex(rank, gp)
           x == GlobalCoord(d, rank, c)
           y == Across(d, x, f)
           own == [a \in 1..3 |-> (y[a] - 1) \div n[a]]
           off == [a \in 1..3 |-> ((y[a] - 1) % n[a]) + 1]
           next == [i EXCEPT ![b] = @ + s]
           far == [c EXCEPT ![b] = RemoteEdge(f, n, n[b])]
           near == [c EXCEPT ![b] = @ + s]
           On == OnFace(c, f, n)
<1>1. b \in 1..3 /\ s \in {-1, 1}
  BY FaceParts
<1>2. \A a \in 1..3 :
        /\ n[a] \in Nat \ {0} /\ gp[a] \in Nat \ {0} /\ c[a] \in 1 .. n[a]
        /\ i[a] \in 0 .. gp[a] - 1 /\ d.gn[a] = n[a] * gp[a]
        /\ x[a] = i[a] * n[a] + c[a] /\ x[a] \in Int
  BY Global
<1>3. i \in [1..3 -> Int] /\ IndexRank(i, gp) = rank
  BY Indexed DEF WellFormed, Ranks
<1>4. x = [a \in 1..3 |-> x[a]]
  BY DEF GlobalCoord
<1>5. r = IndexRank(next, gp)
  BY DEF Beside
<1>6. On <=> AtEdge(c[b], n[b], s)
  BY DEF OnFace, Edge, AtEdge
<1>7. RemoteEdge(f, n, n[b]) = IF s < 0 THEN n[b] ELSE 1
  BY DEF RemoteEdge
<1>8. y = [x EXCEPT ![b] = ((x[b] - 1 + s) % d.gn[b]) + 1]
  BY DEF Across
<1>9. GlobalVoxel(d, y) = range(d, IndexRank(own, gp)) + VOXEL(off, n)
  BY Zenon DEF GlobalVoxel, Owner
<1> HIDE DEF n, gp, r, i, x, y, On, b, s
<1>10. \A a \in 1..3 : y[a] = IF a = b THEN ((x[b] - 1 + s) % d.gn[b]) + 1 ELSE x[a]
  BY <1>1, <1>4, <1>8
<1>11. \A a \in 1..3 : i[a] % gp[a] = i[a]
  BY <1>2, Small
<1>12. ASSUME NEW a \in 1..3, a # b
       PROVE  own[a] = i[a] /\ off[a] = c[a]
  <2>1. y[a] - 1 = i[a] * n[a] + c[a] - 1
    BY <1>2, <1>10, <1>12
  <2>2. i[a] \in Int
    BY <1>2
  <2>3. (y[a] - 1) \div n[a] = i[a] /\ (y[a] - 1) % n[a] = c[a] - 1
    <3>1. n[a] \in Nat \ {0} /\ c[a] \in 1 .. n[a]
      BY <1>2
    <3>2. (i[a] * n[a] + c[a] - 1) \div n[a] = i[a] /\ (i[a] * n[a] + c[a] - 1) % n[a] = c[a] - 1
      BY <2>2, <3>1, AxisHere, Zenon
    <3> QED BY <2>1, <3>2, Zenon
  <2>4. (c[a] - 1) + 1 = c[a]
    BY <1>2
  <2> QED BY <2>3, <2>4
<1>13. /\ On => own[b] = (i[b] + s) % gp[b] /\ off[b] = RemoteEdge(f, n, n[b])
       /\ ~On => own[b] = i[b] /\ off[b] = c[b] + s
  <2> DEFINE e == (i[b] * n[b] + c[b] - 1 + s) % (n[b] * gp[b])
  <2>1. e \in Int
    <3>1. i[b] \in Int /\ n[b] \in Nat \ {0} /\ c[b] \in Int /\ gp[b] \in Nat \ {0} /\ s \in Int
      BY <1>1, <1>2
    <3>2. i[b] * n[b] + c[b] - 1 + s \in Int /\ n[b] * gp[b] \in Nat \ {0}
      BY <3>1
    <3> QED BY <3>2, Division
  <2>2. AxisStepIs(n[b], gp[b], i[b], c[b], s)
    BY <1>1, <1>2, AxisStep
  <2>3. x[b] - 1 + s = i[b] * n[b] + c[b] - 1 + s /\ d.gn[b] = n[b] * gp[b]
    BY <1>1, <1>2
  <2>4. y[b] = e + 1
    BY <1>1, <1>10, <2>3
  <2> HIDE DEF e
  <2>5. y[b] - 1 = e
    BY <2>1, <2>4
  <2>6. own[b] = e \div n[b] /\ off[b] = (e % n[b]) + 1
    BY <1>1, <2>5
  <2> HIDE DEF own, off
  <2> QED BY <1>6, <1>7, <2>2, <2>6, Zenon DEF AxisStepIs, e
<1>14. c = [a \in 1..3 |-> c[a]] /\ i = [a \in 1..3 |-> i[a]]
  BY <1>3
<1> HIDE DEF own, off
<1>15. CASE On
  <2>1. \A a \in 1..3 : own[a] % gp[a] = next[a] % gp[a]
    <3> TAKE a \in 1..3
    <3>1. CASE a = b
      <4>1. next[a] = i[b] + s
        BY <1>1, <1>14, <3>1
      <4>2. (i[b] + s) % gp[b] \in 0 .. gp[b] - 1
        BY <1>1, <1>2, Ring
      <4>3. ((i[b] + s) % gp[b]) % gp[b] = (i[b] + s) % gp[b]
        BY <1>1, <1>2, <4>2, Small
      <4> QED BY <1>13, <1>15, <3>1, <4>1, <4>3, Zenon
    <3>2. CASE a # b
      BY <1>12, <1>14, <3>2
    <3> QED BY <3>1, <3>2
  <2>2. IndexRank(own, gp) = r
    BY <1>5, <2>1, SameRank, Zenon
  <2>3. \A a \in 1..3 : off[a] = far[a]
    BY <1>1, <1>12, <1>13, <1>14, <1>15
  <2>4. VOXEL(off, n) = VOXEL(far, n)
    BY <2>3, SameVoxel, Zenon
  <2> QED BY <1>9, <1>15, <2>2, <2>4, Zenon DEF On, n, r, b, gp, x, y
<1>16. CASE ~On
  <2>1. \A a \in 1..3 : own[a] % gp[a] = i[a] % gp[a]
    BY <1>12, <1>13, <1>16
  <2>2. IndexRank(own, gp) = rank
    BY <1>3, <2>1, SameRank, Zenon
  <2>3. \A a \in 1..3 : off[a] = near[a]
    BY <1>1, <1>12, <1>13, <1>14, <1>16
  <2>4. VOXEL(off, n) = VOXEL(near, n)
    BY <2>3, SameVoxel, Zenon
  <2> QED BY <1>9, <1>16, <2>2, <2>4, Zenon DEF On, n, b, s, x, y
<1> QED BY <1>15, <1>16

(* Its coordinates there: those of the next cell of the same rank or, from *)
(* the face of the rank, of the cell on the other edge of the rank beside. *)
LEMMA AcrossLands ==
  ASSUME NEW d, WellFormed(d), NEW rank \in Ranks(d), NEW c \in [1..3 -> Int],
         Interior(c, LocalSize(d)), NEW f \in Face
  PROVE  LET n == LocalSize(d)
         IN Across(d, GlobalCoord(d, rank, c), f) =
              IF OnFace(c, f, n)
              THEN GlobalCoord(d, Beside(rank, f, d.gp),
                               [c EXCEPT ![Axis(f)] = RemoteEdge(f, n, n[Axis(f)])])
              ELSE GlobalCoord(d, rank, [c EXCEPT ![Axis(f)] = @ + Dir(f)])
<1> DEFINE n == LocalSize(d)
           gp == d.gp
           r == Beside(rank, f, gp)
           b == Axis(f)
           s == Dir(f)
           i == RankIndex(rank, gp)
           j == RankIndex(r, gp)
           x == GlobalCoord(d, rank, c)
           y == Across(d, x, f)
           far == [c EXCEPT ![b] = RemoteEdge(f, n, n[b])]
           near == [c EXCEPT ![b] = @ + s]
           On == OnFace(c, f, n)
<1>1. b \in 1..3 /\ s \in {-1, 1}
  BY FaceParts
<1>2. \A a \in 1..3 :
        /\ n[a] \in Nat \ {0} /\ gp[a] \in Nat \ {0} /\ c[a] \in 1 .. n[a]
        /\ i[a] \in 0 .. gp[a] - 1 /\ d.gn[a] = n[a] * gp[a]
        /\ x[a] = i[a] * n[a] + c[a] /\ x[a] \in Int
  BY Global
<1>3. \A a \in 1..3 : j[a] = IF a = b THEN (i[a] + s) % gp[a] ELSE i[a]
  BY BesideIs DEF WellFormed, Ranks
<1>4. x = [a \in 1..3 |-> x[a]]
  BY DEF GlobalCoord
<1>5. On <=> AtEdge(c[b], n[b], s)
  BY DEF OnFace, Edge, AtEdge
<1>6. RemoteEdge(f, n, n[b]) = IF s < 0 THEN n[b] ELSE 1
  BY DEF RemoteEdge
<1>7. y = [x EXCEPT ![b] = ((x[b] - 1 + s) % d.gn[b]) + 1]
  BY DEF Across
<1>8. /\ GlobalCoord(d, r, far) = [a \in 1..3 |-> j[a] * n[a] + far[a]]
      /\ GlobalCoord(d, rank, near) = [a \in 1..3 |-> i[a] * n[a] + near[a]]
  BY Zenon DEF GlobalCoord
<1> HIDE DEF n, gp, r, i, j, x, y, On, b, s
<1>9. /\ far = [a \in 1..3 |-> IF a = b THEN RemoteEdge(f, n, n[b]) ELSE c[a]]
      /\ near = [a \in 1..3 |-> IF a = b THEN c[b] + s ELSE c[a]]
  BY <1>1
<1>10. y = [a \in 1..3 |-> IF a = b THEN ((x[b] - 1 + s) % d.gn[b]) + 1 ELSE x[a]]
  BY <1>1, <1>4, <1>7
<1> HIDE DEF far, near
<1>11. /\ On => ((x[b] - 1 + s) % d.gn[b]) + 1 = j[b] * n[b] + RemoteEdge(f, n, n[b])
       /\ ~On => ((x[b] - 1 + s) % d.gn[b]) + 1 = i[b] * n[b] + (c[b] + s)
  <2> DEFINE z == i[b] * n[b] + c[b] - 1 + s
             e == z % (n[b] * gp[b])
  <2>1. n[b] \in Nat \ {0} /\ gp[b] \in Nat \ {0} /\ i[b] \in Int /\ c[b] \in Int /\ s \in Int
    BY <1>1, <1>2
  <2>2. z \in Int /\ n[b] * gp[b] \in Nat \ {0}
    BY <2>1
  <2> HIDE DEF z
  <2>3. e \in Int
    BY <2>2, Division
  <2>4. x[b] - 1 + s = z /\ d.gn[b] = n[b] * gp[b]
    BY <1>1, <1>2, <2>1 DEF z
  <2>5. AxisStepIs(n[b], gp[b], i[b], c[b], s)
    BY <1>1, <1>2, AxisStep
  <2>6. /\ On => e \div n[b] = j[b] /\ (e % n[b]) + 1 = RemoteEdge(f, n, n[b])
        /\ ~On => e \div n[b] = i[b] /\ (e % n[b]) + 1 = c[b] + s
    BY <1>1, <1>3, <1>5, <1>6, <2>5, Zenon DEF AxisStepIs, z
  <2> HIDE DEF e
  <2>7. e = n[b] * (e \div n[b]) + (e % n[b]) /\ e \div n[b] \in Int /\ e % n[b] \in Nat
    <3>1. n[b] \in Nat \ {0} /\ e \in Int
      BY <2>1, <2>3
    <3>2. e % n[b] \in Nat
      BY <3>1, Division, Zenon
    <3> QED BY <3>1, <3>2, Division, Zenon
  <2>8. \A q \in Int : n[b] * q = q * n[b] /\ q * n[b] \in Int
    BY <2>1
  <2>9. e + 1 = (e \div n[b]) * n[b] + ((e % n[b]) + 1)
    BY <2>7, <2>8
  <2>10. ((x[b] - 1 + s) % d.gn[b]) + 1 = e + 1
    BY <2>4 DEF e
  <2> QED BY <2>6, <2>9, <2>10, Zenon
<1>12. CASE On
  <2>1. \A a \in 1..3 : (IF a = b THEN ((x[b] - 1 + s) % d.gn[b]) + 1 ELSE x[a]) = j[a] * n[a] + far[a]
    <3> TAKE a \in 1..3
    <3>1. CASE a = b
      BY <1>9, <1>11, <1>12, <3>1, Zenon
    <3>2. CASE a # b
      BY <1>2, <1>3, <1>9, <3>2
    <3> QED BY <3>1, <3>2
  <2>2. y = GlobalCoord(d, r, far)
    BY <1>8, <1>10, <2>1, Zenon
  <2> QED BY <1>12, <2>2, Zenon DEF On, n, b, s, x, y, r, gp, far
<1>13. CASE ~On
  <2>1. \A a \in 1..3 : (IF a = b THEN ((x[b] - 1 + s) % d.gn[b]) + 1 ELSE x[a]) = i[a] * n[a] + near[a]
    <3> TAKE a \in 1..3
    <3>1. CASE a = b
      BY <1>9, <1>11, <1>13, <3>1, Zenon
    <3>2. CASE a # b
      BY <1>2, <1>9, <3>2
    <3> QED BY <3>1, <3>2
  <2>2. y = GlobalCoord(d, rank, near)
    BY <1>8, <1>10, <2>1, Zenon
  <2> QED BY <1>13, <2>2, Zenon DEF On, n, b, s, x, y, near
<1> QED BY <1>12, <1>13
(* A cell of a rank is the rank's in the undivided box, at its own number. *)
LEMMA OwnHome ==
  ASSUME NEW d, WellFormed(d), NEW rank \in Ranks(d), NEW c \in [1..3 -> Int],
         Interior(c, LocalSize(d))
  PROVE  LET x == GlobalCoord(d, rank, c)
         IN Owner(d, x) = rank /\ GlobalVoxel(d, x) = range(d, rank) + VOXEL(c, LocalSize(d))
<1> DEFINE n == LocalSize(d)
           gp == d.gp
           i == RankIndex(rank, gp)
           x == GlobalCoord(d, rank, c)
           own == [a \in 1..3 |-> (x[a] - 1) \div n[a]]
           off == [a \in 1..3 |-> ((x[a] - 1) % n[a]) + 1]
<1>1. \A a \in 1..3 :
        /\ n[a] \in Nat \ {0} /\ gp[a] \in Nat \ {0} /\ c[a] \in 1 .. n[a]
        /\ i[a] \in 0 .. gp[a] - 1 /\ x[a] = i[a] * n[a] + c[a] /\ x[a] \in Int
  BY Global
<1>2. IndexRank(i, gp) = rank
  BY Indexed DEF WellFormed, Ranks
<1>3. Owner(d, x) = IndexRank(own, gp) /\ GlobalVoxel(d, x) = range(d, IndexRank(own, gp)) + VOXEL(off, n)
  BY Zenon DEF GlobalVoxel, Owner
<1> HIDE DEF n, gp, i, x
<1>4. ASSUME NEW a \in 1..3
      PROVE  own[a] = i[a] /\ off[a] = c[a]
  <2>1. x[a] - 1 = i[a] * n[a] + c[a] - 1
    BY <1>1
  <2>2. i[a] \in Int /\ n[a] \in Nat \ {0} /\ c[a] \in 1 .. n[a]
    BY <1>1
  <2>3. (i[a] * n[a] + c[a] - 1) \div n[a] = i[a] /\ (i[a] * n[a] + c[a] - 1) % n[a] = c[a] - 1
    BY <2>2, AxisHere, Zenon
  <2>4. (c[a] - 1) + 1 = c[a]
    BY <2>2
  <2> QED BY <2>1, <2>3, <2>4
<1> HIDE DEF own, off
<1>5. IndexRank(own, gp) = rank
  BY <1>2, <1>4, SameRank, Zenon
<1>6. VOXEL(off, n) = VOXEL(c, n)
  BY <1>4, SameVoxel, Zenon
<1> QED BY <1>3, <1>5, <1>6, Zenon DEF n, x

(* A voxel has the number of its coordinates.                              *)
LEMMA VoxelBack ==
  ASSUME NEW n \in Triple, NEW v \in 0 .. nv(n) - 1
  PROVE  VOXEL(Coord(v, n), n) = v
<1> DEFINE a == n[1] + 2
           b == n[2] + 2
           c == n[3] + 2
<1>1. a \in Nat \ {0} /\ b \in Nat \ {0} /\ c \in Nat \ {0}
  BY DEF Triple
<1>2. v \in 0 .. a * b * c - 1
  BY DEF nv
<1>3. VOXEL(Coord(v, n), n) = (v % a) + a * (((v \div a) % b) + b * (v \div (a * b)))
  BY DEF VOXEL, Coord
<1> HIDE DEF a, b, c
<1> QED BY <1>1, <1>2, <1>3, Decode

-----------------------------------------------------------------------------
(* If what is across a face is not a wall, neither is it from there.       *)
LEMMA WallsFaceOut ==
  ASSUME NEW d, WellFormed(d), NEW rank \in Ranks(d), NEW f \in Face,
         ~AtOuterWall(d, rank, f)
  PROVE  ~AtOuterWall(d, Beside(rank, f, d.gp), Opposite(f))
<1> DEFINE a == Axis(f)
           g == d.gp[a]
           i == RankIndex(rank, d.gp)[a]
           j == RankIndex(Beside(rank, f, d.gp), d.gp)[a]
<1>1. /\ a \in 1..3 /\ Dir(f) \in {-1, 1}
      /\ Axis(Opposite(f)) = a /\ Dir(Opposite(f)) = -Dir(f)
  BY FaceParts
<1>2. d.gp \in Triple /\ rank \in 0 .. Volume(d.gp) - 1
  BY DEF WellFormed, Ranks
<1>3. g \in Nat \ {0} /\ i \in 0 .. g - 1
  BY <1>1, <1>2, Indexed DEF Triple
<1>4. j = (i + Dir(f)) % g
  BY <1>1, <1>2, BesideIs
<1>5. (Dir(f) = 1 => (j = 0 <=> i = g - 1)) /\ (Dir(f) = -1 => (j = g - 1 <=> i = 0))
  <2> DEFINE s == Dir(f)
  <2> HIDE DEF g, i, j, s
  <2>1. s \in {-1, 1} /\ g \in Nat \ {0} /\ i \in 0 .. g - 1 /\ j = (i + s) % g
    BY <1>1, <1>3, <1>4 DEF s
  <2>2. (s = 1 => (j = 0 <=> i = g - 1)) /\ (s = -1 => (j = g - 1 <=> i = 0))
    BY <2>1, Ring
  <2> QED BY <2>2 DEF s
<1>6. Outer(d, rank, f) <=> i = (IF Dir(f) < 0 THEN 0 ELSE g - 1) /\ d.gn[a] > 1
  BY DEF Outer
<1>7. Outer(d, Beside(rank, f, d.gp), Opposite(f)) <=>
        j = (IF -Dir(f) < 0 THEN 0 ELSE g - 1) /\ d.gn[a] > 1
  BY <1>1, Zenon DEF Outer
<1> HIDE DEF a, g, i, j
<1> QED BY <1>1, <1>5, <1>6, <1>7 DEF AtOuterWall

(* Neighbours of cells are numbered as cells or ghosts of the same box.    *)
LEMMA InWindow ==
  ASSUME NEW d, WellFormed(d), NEW r \in Ranks(d), NEW c \in [1..3 -> Int],
         Interior(c, LocalSize(d)), NEW f \in Face, NEW k \in 0 .. LocalSize(d)[Axis(f)] + 1
  PROVE  range(d, r) + VOXEL([c EXCEPT ![Axis(f)] = k], LocalSize(d))
           \in range(d, r) .. (range(d, r + 1) - 1)
<1> DEFINE n == LocalSize(d)
           e == [c EXCEPT ![Axis(f)] = k]
<1>1. /\ n \in Triple /\ nv(n) \in Nat /\ range(d, r) \in Int
      /\ range(d, r + 1) = range(d, r) + nv(n)
  BY Sizes DEF Ranks
<1>2. e \in [1..3 -> Int] /\ \A a \in 1..3 : e[a] \in 0 .. n[a] + 1
  BY <1>1, FaceParts DEF Interior, Triple
<1> HIDE DEF n, e
<1>3. VOXEL(e, n) \in 0 .. nv(n) - 1
  BY <1>1, <1>2, Voxels, Zenon
<1> DEFINE u == VOXEL(e, n)
           w == range(d, r)
           z == range(d, r + 1)
           m == nv(n)
<1> HIDE DEF u, w, z, m
<1>4. m \in Nat /\ w \in Int /\ z = w + m /\ u \in 0 .. m - 1
  BY <1>1, <1>3 DEF u, w, z, m
<1>5. w + u \in w .. (z - 1)
  BY <1>4
<1> QED BY <1>5, Zenon DEF n, e, u, w, z

(* What lies across face f of an interior cell in its rank's table.        *)
LEMMA AcrossIs ==
  ASSUME NEW d, WellFormed(d), NEW rank \in Ranks(d), NEW c \in [1..3 -> Int],
         Interior(c, LocalSize(d)), NEW f \in Face
  PROVE  LET n == LocalSize(d)
             r == Beside(rank, f, d.gp)
         IN Partition(d, rank).neighbor[VOXEL(c, n)][f] =
              IF ~OnFace(c, f, n) THEN range(d, rank) + VOXEL([c EXCEPT ![Axis(f)] = @ + Dir(f)], n)
              ELSE IF AtOuterWall(d, rank, f) THEN Wall(d, f)
              ELSE range(d, r) + VOXEL([c EXCEPT ![Axis(f)] = RemoteEdge(f, n, n[Axis(f)])], n)
<1> DEFINE n == LocalSize(d)
           v == VOXEL(c, n)
<1>1. n \in Triple
  BY Sizes
<1>2. \A a \in 1..3 : c[a] \in 0 .. n[a] + 1
  BY <1>1 DEF Interior, Triple
<1>3. v \in 0 .. nv(n) - 1
  BY <1>1, <1>2, Voxels
<1>4. Coord(v, n) \in [1..3 -> Int] /\ \A a \in 1..3 : Coord(v, n)[a] = c[a]
  BY <1>1, <1>2, Voxels
<1>5. Coord(v, n) = c
  <2> DEFINE u == Coord(v, n)
  <2> HIDE DEF u
  <2>1. u \in [1..3 -> Int] /\ \A a \in 1..3 : u[a] = c[a]
    BY <1>4 DEF u
  <2>2. u = c
    BY <2>1
  <2> QED BY <2>2 DEF u
<1>6. \A w \in 0 .. nv(n) - 1 : Interior(Coord(w, n), n) =>
        Partition(d, rank).neighbor[w][f] =
          IF ~OnFace(Coord(w, n), f, n)
          THEN range(d, rank) + VOXEL([Coord(w, n) EXCEPT ![Axis(f)] = @ + Dir(f)], n)
          ELSE IF AtOuterWall(d, rank, f) THEN Wall(d, f)
          ELSE JoinedCell(d, Beside(rank, f, d.gp), f, w)
  BY TablesAre
<1> HIDE DEF v, n
<1>7. JoinedCell(d, Beside(rank, f, d.gp), f, v) =
        range(d, Beside(rank, f, d.gp)) + VOXEL([c EXCEPT ![Axis(f)] = RemoteEdge(f, n, n[Axis(f)])], n)
  BY <1>5, Zenon DEF JoinedCell, n
<1>8. Interior(c, n)
  BY DEF n
<1> QED BY <1>3, <1>5, <1>6, <1>7, <1>8, Zenon DEF v, n
=============================================================================
