----------------------------- MODULE Intrinsics -----------------------------
(***************************************************************************)
(* The SSE, AVX and AVX-512 instructions the register classes are written  *)
(* with, as far as those classes use them (external).  A vector is a       *)
(* function from lanes; most rearrangements act within blocks of four.     *)
(***************************************************************************)
EXTENDS LaneWords

(* Two bits of an immediate select one of four.                            *)
Select(imm, k) == (imm \div 4 ^ k) % 4
MM_SHUFFLE(z, y, x, w) == 64 * z + 16 * y + 4 * x + w
Block(j) == 4 * (j \div 4)

shuffle_ps(a, b, imm) ==
  [j \in DOMAIN a |-> LET s == Block(j) + Select(imm, j % 4)
                      IN IF j % 4 < 2 THEN a[s] ELSE b[s]]
unpacklo_ps(a, b) ==
  [j \in DOMAIN a |-> LET s == Block(j) + ((j % 4) \div 2)
                      IN IF j % 2 = 0 THEN a[s] ELSE b[s]]
unpackhi_ps(a, b) ==
  [j \in DOMAIN a |-> LET s == Block(j) + 2 + ((j % 4) \div 2)
                      IN IF j % 2 = 0 THEN a[s] ELSE b[s]]
movelh_ps(a, b) == [j \in 0 .. 3 |-> IF j < 2 THEN a[j] ELSE b[j - 2]]
movehl_ps(a, b) == [j \in 0 .. 3 |-> IF j < 2 THEN b[j + 2] ELSE a[j]]

set_m128(hi, lo) == [j \in 0 .. 7 |-> IF j < 4 THEN lo[j] ELSE hi[j - 4]]
extractf128_ps(a, k) == [j \in 0 .. 3 |-> a[4 * k + j]]
permute2f128_ps(a, b, imm) ==
  [j \in 0 .. 7 |->
     LET s == (imm \div 16 ^ (j \div 4)) % 4
         v == IF s < 2 THEN a ELSE b
     IN v[4 * (s % 2) + (j % 4)]]
shuffle_f32x4(a, b, imm) ==
  [j \in 0 .. 15 |->
     LET s == 4 * Select(imm, j \div 4) + (j % 4) IN IF j < 8 THEN a[s] ELSE b[s]]
permutexvar_ps(idx, a) == [j \in DOMAIN a |-> a[idx[j]]]
permutex2var_ps(a, idx, b) ==
  [j \in DOMAIN a |-> IF idx[j] < 16 THEN a[idx[j]] ELSE b[idx[j] - 16]]

set1_ps(n, w) == Filled(n, w)
setr_ps(w) == [j \in 0 .. Len(w) - 1 |-> w[j + 1]]
set_epi32(w) == [j \in 0 .. Len(w) - 1 |-> w[Len(w) - j]]
setzero_ps(n) == Filled(n, 0)

(* A load or store of n words faults unless its address is a multiple of   *)
(* their size; those of a pair of words do not care.                       *)
load_ps(n, m, p) == [j \in 0 .. n - 1 |-> IF p % n = 0 THEN m[p + j] ELSE Trap]
store_ps(m, p, a) ==
  IF p % (Cardinality(DOMAIN a)) = 0 THEN Write(m, p, a) ELSE [x \in DOMAIN m |-> Trap]
store_rows_ps(n, m, p, v) ==   \* a store of the n words of v[k] at each p[k]
  IF \E k \in DOMAIN p : p[k] % n # 0 THEN [x \in DOMAIN m |-> Trap]
  ELSE [x \in DOMAIN m |->
          IF \E k \in DOMAIN p : x - p[k] \in 0 .. n - 1
          THEN LET k == CHOOSE k \in DOMAIN p : x - p[k] \in 0 .. n - 1 IN v[k][x - p[k]]
          ELSE m[x]]
loadl_pi(a, m, p) == [j \in 0 .. 3 |-> IF j < 2 THEN m[p + j] ELSE a[j]]
loadh_pi(a, m, p) == [j \in 0 .. 3 |-> IF j < 2 THEN a[j] ELSE m[p + j - 2]]
storel_pi(m, p, a) == Write(m, p, [j \in 0 .. 1 |-> a[j]])
storeh_pi(m, p, a) == Write(m, p, [j \in 0 .. 1 |-> a[j + 2]])

and_ps(a, b) == [j \in DOMAIN a |-> And(a[j], b[j])]
or_ps(a, b) == [j \in DOMAIN a |-> Or(a[j], b[j])]
xor_ps(a, b) == [j \in DOMAIN a |-> Xor(a[j], b[j])]
andnot_ps(a, b) == [j \in DOMAIN a |-> And(Not(a[j]), b[j])]
cmp_ps(op, a, b) == [j \in DOMAIN a |-> Mask(FloatTest(op, a[j], b[j]))]

packed_ps(op, a, b) == [j \in DOMAIN a |-> FloatOp(op, a[j], b[j])]
add_ps(a, b) == packed_ps("+", a, b)
sub_ps(a, b) == packed_ps("-", a, b)
mul_ps(a, b) == packed_ps("*", a, b)
fmadd_ps(a, b, c) == add_ps(mul_ps(a, b), c)
fmsub_ps(a, b, c) == sub_ps(mul_ps(a, b), c)
fnmadd_ps(a, b, c) == sub_ps(c, mul_ps(a, b))
rcp_ps(a) == [j \in DOMAIN a |-> FloatOp("/", One, a[j])]
rsqrt_ps(a) == [j \in DOMAIN a |-> sqrt(FloatOp("/", One, a[j]))]
sqrt_ps(a) == [j \in DOMAIN a |-> sqrt(a[j])]
=============================================================================
