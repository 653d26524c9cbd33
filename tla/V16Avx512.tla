------------------------------ MODULE V16Avx512 ------------------------------
(***************************************************************************)
(* Sixteen lanes in an AVX-512 register (util/v16/v16_avx512.h): four      *)
(* blocks of four.  Every transposed load reads whole vectors, however few *)
(* columns it keeps.                                                       *)
(***************************************************************************)
EXTENDS Intrinsics

Lane == 0 .. 15
Lanes == 16

any(a) == \E j \in Lane : a[j] # 0
all(a) == \A j \in Lane : a[j] # 0
splat(n, a) == set1_ps(16, a[n])
shuffle(i, a) == [j \in Lane |-> a[i[j]]]
swap(a, b) == <<b, a>>

(* Rows to columns: pairs of words of neighbouring rows, then pairs of     *)
(* pairs; Quads leaves words of four rows in each block.                   *)
Quads(a) ==
  LET t == [k \in DOMAIN a |-> IF k % 2 = 0 THEN unpacklo_ps(a[k], a[k + 1])
                               ELSE unpackhi_ps(a[k - 1], a[k])]
  IN [k \in DOMAIN a |->
        LET s == 4 * (k \div 4) + ((k % 4) \div 2)
        IN shuffle_ps(t[s], t[s + 2], IF k % 2 = 0 THEN MM_SHUFFLE(1, 0, 1, 0)
                                      ELSE MM_SHUFFLE(3, 2, 3, 2))]
(* As below, the first half of each vector and then the second.            *)
Blocks_Halved(u, h) ==
  [k \in DOMAIN u |->
     LET s == 2 * h * (k \div (2 * h)) + (k % h)
     IN shuffle_f32x4(u[s], u[s + h], IF k % (2 * h) < h THEN \h44 ELSE \hEE)]

(* Blocks of vectors h apart, the even ones and then the odd.              *)
Blocks(u, h) ==
  [k \in DOMAIN u |->
     LET s == 2 * h * (k \div (2 * h)) + (k % h)
     IN shuffle_f32x4(u[s], u[s + h], IF k % (2 * h) < h THEN \h88 ELSE \hDD)]
transpose(a) ==
  LET b == Blocks(Blocks(Quads([k \in Lane |-> a[k + 1]]), 4), 8)
  IN [k \in 1 .. 16 |-> b[k - 1]]

(* Word by word, so aligned or not.                                        *)
load_16x1(m, p) == At(m, p, 16)
store_16x1(m, p, a) == Write(m, p, a)
stream_16x1(m, p, a) == Write(m, p, a)
clear_16x1(m, p) == Write(m, p, Filled(16, 0))
copy_16x1(m, dst, src) == Write(m, dst, At(m, src, 16))
swap_16x1(m, a, b) == Write(Write(m, a, At(m, b, 16)), b, At(m, a, 16))

VectorRows(m, p) == [k \in 1 .. 16 |-> load_ps(16, m, p[k - 1])]
load_16x1_tr(m, p) == Columns(m, p, 1)
load_16x2_tr(m, p) == SubSeq(transpose(VectorRows(m, p)), 1, 2)
load_16x3_tr(m, p) == SubSeq(transpose(VectorRows(m, p)), 1, 3)
load_16x4_tr(m, p) == SubSeq(transpose(VectorRows(m, p)), 1, 4)
load_16x8_tr(m, p) == SubSeq(transpose(VectorRows(m, p)), 1, 8)
load_16x16_tr(m, p) == transpose(VectorRows(m, p))

(* Two records of eight words to a row.                                    *)
load_16x8_tr_p(m, p) ==
  LET idx == set_epi32(<<15, 11, 14, 10, 13, 9, 12, 8, 7, 3, 6, 2, 5, 1, 4, 0>>)
      t == Blocks(Quads([k \in 0 .. 7 |-> load_ps(16, m, p[k])]), 4)
  IN [k \in 1 .. 8 |-> permutexvar_ps(idx, t[k - 1])]
load_16x16_tr_p(m, p) ==
  load_16x8_tr_p(m, p) \o load_16x8_tr_p(m, [j \in 0 .. 7 |-> p[j + 8]])

store_16x1_tr(m, p, v) == WriteColumns(m, p, SubSeq(v, 1, 1))
store_16x2_tr(m, p, v) == WriteColumns(m, p, SubSeq(v, 1, 2))
store_16x3_tr(m, p, v) == WriteColumns(m, p, SubSeq(v, 1, 3))
store_16x4_tr(m, p, v) == WriteColumns(m, p, SubSeq(v, 1, 4))
store_16x8_tr(m, p, v) == WriteColumns(m, p, SubSeq(v, 1, 8))
store_16x16_tr(m, p, v) ==
  LET t == transpose(v) IN store_rows_ps(16, m, p, [k \in Lane |-> t[k + 1]])

(* The vectors of eight columns as rows of two records.                    *)
store_16x8_tr_p(m, p, v) ==
  LET idx == set_epi32(<<15, 13, 11, 9, 14, 12, 10, 8, 7, 5, 3, 1, 6, 4, 2, 0>>)
      idx1 == set_epi32(<<7 + 16, 6 + 16, 5 + 16, 4 + 16, 7, 6, 5, 4,
                          3 + 16, 2 + 16, 1 + 16, 0 + 16, 3, 2, 1, 0>>)
      idx2 == set_epi32(<<15 + 16, 14 + 16, 13 + 16, 12 + 16, 15, 14, 13, 12,
                          11 + 16, 10 + 16, 9 + 16, 8 + 16, 11, 10, 9, 8>>)
      x == [k \in 0 .. 7 |-> permutexvar_ps(idx, v[k + 1])]
      u == [k \in 0 .. 7 |-> permutex2var_ps(x[k % 4], IF k < 4 THEN idx1 ELSE idx2, x[(k % 4) + 4])]
      t == [k \in 0 .. 7 |->
              LET s == 4 * (k \div 4) + 2 * (k % 2)
              IN shuffle_ps(u[s], u[s + 1], IF k % 4 < 2 THEN MM_SHUFFLE(1, 0, 1, 0)
                                            ELSE MM_SHUFFLE(3, 2, 3, 2))]
  IN store_rows_ps(16, m, [k \in 0 .. 7 |-> p[k]],
       [k \in 0 .. 7 |->
          LET s == 2 * (k \div 2)
          IN shuffle_ps(t[s], t[s + 1], IF k % 2 = 0 THEN MM_SHUFFLE(2, 0, 2, 0)
                                        ELSE MM_SHUFFLE(3, 1, 3, 1))])
store_16x16_tr_p(m, p, v) ==
  store_16x8_tr_p(store_16x8_tr_p(m, p, SubSeq(v, 1, 8)),
                  [j \in 0 .. 7 |-> p[j + 8]], SubSeq(v, 9, 16))

(* v16int                                                                  *)
int_scalar(i) == set1_ps(16, i)
int_scalars(i) == setr_ps(i)
int_word_assign(op, a, b) == [j \in Lane |-> IntOp(op, a[j], b[j])]
int_xor_assign(a, b) == xor_ps(a, b)
int_and_assign(a, b) == and_ps(a, b)
int_or_assign(a, b) == or_ps(a, b)
int_minus(a) == [j \in Lane |-> IntUnary("-", a[j])]
int_plus(a) == a
int_not(a) == [j \in Lane |-> Mask(a[j] = 0)]
int_complement(a) == xor_ps(a, set1_ps(16, AllOnes))
int_prefix_incdec(op, a) == [j \in Lane |-> IntUnary(op, a[j])]
int_postfix_incdec(op, a) == <<a, [j \in Lane |-> IntUnary(op, a[j])]>>
int_word_binary(op, a, b) == [j \in Lane |-> IntOp(op, a[j], b[j])]
int_xor(a, b) == xor_ps(a, b)
int_and(a, b) == and_ps(a, b)
int_logical(op, a, b) == [j \in Lane |-> Mask(IntTest(op, a[j], b[j]))]
abs(a) == [j \in Lane |-> IF Signed(a[j]) >= 0 THEN a[j] ELSE IntUnary("-", a[j])]
czero(c, a) == [j \in Lane |-> And(a[j], Not(c[j]))]
notczero(c, a) == and_ps(c, a)
merge(c, t, f) == [j \in Lane |-> Or(And(f[j], Not(c[j])), And(t[j], c[j]))]

(* v16float                                                                *)
float_scalar(f) == set1_ps(16, f)
float_scalars(f) == setr_ps(f)
float_assign(op, a, b) == packed_ps(op, a, b)
float_plus(a) == a
float_minus(a) == sub_ps(setzero_ps(16), a)
float_not(a) == [j \in Lane |-> IF a[j] # 0 THEN 0 ELSE AllOnes]
float_prefix_inc(a) == add_ps(a, set1_ps(16, One))
float_prefix_dec(a) == sub_ps(a, set1_ps(16, One))
float_postfix_inc(a) == <<a, add_ps(a, set1_ps(16, One))>>
float_postfix_dec(a) == <<a, sub_ps(a, set1_ps(16, One))>>
float_binary(op, a, b) == packed_ps(op, a, b)
float_logical(op, a, b) == [j \in Lane |-> Mask(FloatTest(op, a[j], b[j]))]
cmath_word_fr1(fn, a) == [j \in Lane |-> Math(fn, a[j])]
cmath_fr2(a, b) == [j \in Lane |-> Fn2(a[j], b[j])]
float_fabs(a) == andnot_ps(set1_ps(16, NegativeZero), a)
float_sqrt(a) == sqrt_ps(a)
copysign(a, b) == LET t == set1_ps(16, NegativeZero) IN or_ps(and_ps(t, b), andnot_ps(t, a))
rsqrt_approx(a) == rsqrt_ps(a)
rsqrt(a) ==
  LET b == rsqrt_ps(a)
  IN add_ps(b, mul_ps(set1_ps(16, OneHalf), sub_ps(b, mul_ps(a, mul_ps(b, mul_ps(b, b))))))
rcp_approx(a) == rcp_ps(a)
rcp(a) == LET b == rcp_ps(a) IN sub_ps(add_ps(b, b), mul_ps(a, mul_ps(b, b)))
fma(a, b, c) == fmadd_ps(a, b, c)
fms(a, b, c) == fmsub_ps(a, b, c)
fnms(a, b, c) == fnmadd_ps(a, b, c)
clear_bits(m, a) == andnot_ps(m, a)
set_bits(m, a) == or_ps(m, a)
toggle_bits(m, a) == xor_ps(m, a)
increment_16x1(m, p, a) == store_ps(m, p, add_ps(load_ps(16, m, p), a))
decrement_16x1(m, p, a) == store_ps(m, p, sub_ps(load_ps(16, m, p), a))
scale_16x1(m, p, a) == store_ps(m, p, mul_ps(load_ps(16, m, p), a))

----------------------------------------------------------------------------
(* The operators by the names of the classes' interface.                   *)
load_tr(cols, m, p) ==
  CASE cols = "x1" -> load_16x1_tr(m, p) [] cols = "x2" -> load_16x2_tr(m, p)
    [] cols = "x3" -> load_16x3_tr(m, p) [] cols = "x4" -> load_16x4_tr(m, p)
    [] cols = "x8" -> load_16x8_tr(m, p) [] cols = "x16" -> load_16x16_tr(m, p)
    [] cols = "x8_p" -> load_16x8_tr_p(m, p) [] cols = "x16_p" -> load_16x16_tr_p(m, p)
store_tr(cols, m, p, v) ==
  CASE cols = "x1" -> store_16x1_tr(m, p, v) [] cols = "x2" -> store_16x2_tr(m, p, v)
    [] cols = "x3" -> store_16x3_tr(m, p, v) [] cols = "x4" -> store_16x4_tr(m, p, v)
    [] cols = "x8" -> store_16x8_tr(m, p, v) [] cols = "x16" -> store_16x16_tr(m, p, v)
    [] cols = "x8_p" -> store_16x8_tr_p(m, p, v) [] cols = "x16_p" -> store_16x16_tr_p(m, p, v)
int_assign(op, a, b) ==
  CASE op = "^" -> int_xor_assign(a, b) [] op = "&" -> int_and_assign(a, b)
    [] op = "|" -> int_or_assign(a, b) [] OTHER -> int_word_assign(op, a, b)
int_prefix(op, a) ==
  CASE op = "+" -> int_plus(a) [] op = "-" -> int_minus(a) [] op = "~" -> int_complement(a)
int_binary(op, a, b) ==
  CASE op = "^" -> int_xor(a, b) [] op = "&" -> int_and(a, b)
    [] OTHER -> int_word_binary(op, a, b)
cmath_fr1(fn, a) ==
  CASE fn = "fabs" -> float_fabs(a) [] fn = "sqrt" -> float_sqrt(a)
    [] OTHER -> cmath_word_fr1(fn, a)
On == INSTANCE Steps WITH
        load <- load_16x1, store <- store_16x1, stream <- stream_16x1, clear <- clear_16x1,
        copy <- copy_16x1, swap_mem <- swap_16x1, increment <- increment_16x1,
        decrement <- decrement_16x1, scale <- scale_16x1
=============================================================================
