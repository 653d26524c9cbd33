------------------------------- MODULE V8Avx --------------------------------
(***************************************************************************)
(* Eight lanes in an AVX register (util/v8/v8_avx.h): what the AVX-2 class *)
(* does, without fused products and sums.                                  *)
(***************************************************************************)
EXTENDS Intrinsics

Lane == 0 .. 7
Lanes == 8

any(a) == \E j \in Lane : a[j] # 0
all(a) == \A j \in Lane : a[j] # 0
splat(n, a) == set1_ps(8, a[n])
shuffle(i, a) == [j \in Lane |-> a[i[j]]]
swap(a, b) == <<b, a>>

(* Rows to columns: pairs of words, pairs of pairs, then blocks.           *)
transpose(a) ==
  LET t == [k \in Lane |-> IF k % 2 = 0 THEN unpacklo_ps(a[k + 1], a[k + 2])
                           ELSE unpackhi_ps(a[k], a[k + 1])]
      u == [k \in Lane |->
              LET s == 4 * (k \div 4) + ((k % 4) \div 2)
              IN shuffle_ps(t[s], t[s + 2], IF k % 2 = 0 THEN MM_SHUFFLE(1, 0, 1, 0)
                                            ELSE MM_SHUFFLE(3, 2, 3, 2))]
  IN [k \in 1 .. 8 |-> IF k <= 4 THEN permute2f128_ps(u[k - 1], u[k + 3], \h20)
                       ELSE permute2f128_ps(u[k - 5], u[k - 1], \h31)]

load_8x1(m, p) == At(m, p, 8)
store_8x1(m, p, a) == Write(m, p, a)
stream_8x1(m, p, a) == Write(m, p, a)
clear_8x1(m, p) == Write(m, p, Filled(8, 0))
copy_8x1(m, dst, src) == Write(m, dst, At(m, src, 8))
swap_8x1(m, a, b) == Write(Write(m, a, At(m, b, 8)), b, At(m, a, 8))

load_8x1_tr(m, p) == Columns(m, p, 1)
load_8x2_tr(m, p) ==
  LET t == [k \in 0 .. 3 |-> loadh_pi(loadl_pi(setzero_ps(4), m, p[2 * k]), m, p[2 * k + 1])]
      u0 == set_m128(t[2], t[0])
      u1 == set_m128(t[3], t[1])
  IN <<shuffle_ps(u0, u1, MM_SHUFFLE(2, 0, 2, 0)), shuffle_ps(u0, u1, MM_SHUFFLE(3, 1, 3, 1))>>
load_8x3_tr(m, p) == Columns(m, p, 3)
load_8x4_tr(m, p) ==
  LET row(k) == set_m128(load_ps(4, m, p[k + 4]), load_ps(4, m, p[k]))
      tmp0 == shuffle_ps(row(0), row(1), \h44)
      tmp2 == shuffle_ps(row(0), row(1), \hEE)
      tmp1 == shuffle_ps(row(2), row(3), \h44)
      tmp3 == shuffle_ps(row(2), row(3), \hEE)
  IN <<shuffle_ps(tmp0, tmp1, \h88), shuffle_ps(tmp0, tmp1, \hDD),
       shuffle_ps(tmp2, tmp3, \h88), shuffle_ps(tmp2, tmp3, \hDD)>>
load_8x8_tr(m, p) == transpose([k \in 1 .. 8 |-> load_ps(8, m, p[k - 1])])

store_8x1_tr(m, p, v) == WriteColumns(m, p, SubSeq(v, 1, 1))
store_8x2_tr(m, p, v) ==
  LET u == <<unpacklo_ps(v[1], v[2]), unpackhi_ps(v[1], v[2])>>
      t == [k \in 0 .. 3 |-> extractf128_ps(u[1 + (k % 2)], k \div 2)]
      pair(mm, k) == storeh_pi(storel_pi(mm, p[2 * k], t[k]), p[2 * k + 1], t[k])
  IN pair(pair(pair(pair(m, 0), 1), 2), 3)
store_8x3_tr(m, p, v) == WriteColumns(m, p, SubSeq(v, 1, 3))
store_8x4_tr(m, p, v) ==
  LET u == <<unpacklo_ps(v[1], v[2]), unpacklo_ps(v[3], v[4]),
             unpackhi_ps(v[1], v[2]), unpackhi_ps(v[3], v[4])>>
      t == <<shuffle_ps(u[1], u[2], MM_SHUFFLE(1, 0, 1, 0)),
             shuffle_ps(u[1], u[2], MM_SHUFFLE(3, 2, 3, 2)),
             shuffle_ps(u[3], u[4], MM_SHUFFLE(1, 0, 1, 0)),
             shuffle_ps(u[3], u[4], MM_SHUFFLE(3, 2, 3, 2))>>
  IN store_rows_ps(4, m, p, [k \in Lane |-> extractf128_ps(t[1 + (k % 4)], k \div 4)])
store_8x8_tr(m, p, v) ==
  LET t == transpose(SubSeq(v, 1, 8)) IN store_rows_ps(8, m, p, [k \in Lane |-> t[k + 1]])

(* v8int                                                                   *)
int_scalar(i) == set1_ps(8, i)
int_scalars(i) == setr_ps(i)
int_word_assign(op, a, b) == [j \in Lane |-> IntOp(op, a[j], b[j])]
int_xor_assign(a, b) == xor_ps(a, b)
int_and_assign(a, b) == and_ps(a, b)
int_or_assign(a, b) == or_ps(a, b)
int_minus(a) == [j \in Lane |-> IntUnary("-", a[j])]
int_plus(a) == a
int_not(a) == [j \in Lane |-> Mask(a[j] = 0)]
int_complement(a) == xor_ps(a, set1_ps(8, AllOnes))
int_prefix_incdec(op, a) == [j \in Lane |-> IntUnary(op, a[j])]
int_postfix_incdec(op, a) == <<a, [j \in Lane |-> IntUnary(op, a[j])]>>
int_word_binary(op, a, b) == [j \in Lane |-> IntOp(op, a[j], b[j])]
int_xor(a, b) == xor_ps(a, b)
int_and(a, b) == and_ps(a, b)
int_or(a, b) == or_ps(a, b)
int_logical(op, a, b) == [j \in Lane |-> Mask(IntTest(op, a[j], b[j]))]
abs(a) == [j \in Lane |-> IF Signed(a[j]) >= 0 THEN a[j] ELSE IntUnary("-", a[j])]
czero(c, a) == andnot_ps(c, a)
notczero(c, a) == and_ps(c, a)
merge(c, t, f) == or_ps(andnot_ps(c, f), and_ps(c, t))

(* v8float                                                                 *)
float_scalar(f) == set1_ps(8, f)
float_scalars(f) == setr_ps(f)
float_assign(op, a, b) == packed_ps(op, a, b)
float_plus(a) == a
float_minus(a) == sub_ps(setzero_ps(8), a)
float_not(a) == cmp_ps("==", setzero_ps(8), a)
float_prefix_inc(a) == add_ps(a, set1_ps(8, One))
float_prefix_dec(a) == sub_ps(a, set1_ps(8, One))
float_postfix_inc(a) == <<a, add_ps(a, set1_ps(8, One))>>
float_postfix_dec(a) == <<a, sub_ps(a, set1_ps(8, One))>>
float_binary(op, a, b) == packed_ps(op, a, b)
float_compare(op, a, b) == cmp_ps(op, a, b)
float_and(a, b) == LET zero == setzero_ps(8) IN and_ps(cmp_ps("!=", a, zero), cmp_ps("!=", b, zero))
float_or(a, b) == LET zero == setzero_ps(8) IN or_ps(cmp_ps("!=", a, zero), cmp_ps("!=", b, zero))
cmath_word_fr1(fn, a) == [j \in Lane |-> Math(fn, a[j])]
cmath_fr2(a, b) == [j \in Lane |-> Fn2(a[j], b[j])]
float_fabs(a) == andnot_ps(set1_ps(8, NegativeZero), a)
float_sqrt(a) == sqrt_ps(a)
copysign(a, b) == LET t == set1_ps(8, NegativeZero) IN or_ps(and_ps(t, b), andnot_ps(t, a))
rsqrt_approx(a) == rsqrt_ps(a)
rsqrt(a) ==
  LET b == rsqrt_ps(a)
  IN add_ps(b, mul_ps(set1_ps(8, OneHalf), sub_ps(b, mul_ps(a, mul_ps(b, mul_ps(b, b))))))
rcp_approx(a) == rcp_ps(a)
rcp(a) == LET b == rcp_ps(a) IN sub_ps(add_ps(b, b), mul_ps(a, mul_ps(b, b)))
fma(a, b, c) == add_ps(mul_ps(a, b), c)
fms(a, b, c) == sub_ps(mul_ps(a, b), c)
fnms(a, b, c) == sub_ps(c, mul_ps(a, b))
clear_bits(m, a) == andnot_ps(m, a)
set_bits(m, a) == or_ps(m, a)
toggle_bits(m, a) == xor_ps(m, a)
increment_8x1(m, p, a) == store_ps(m, p, add_ps(load_ps(8, m, p), a))
decrement_8x1(m, p, a) == store_ps(m, p, sub_ps(load_ps(8, m, p), a))
scale_8x1(m, p, a) == store_ps(m, p, mul_ps(load_ps(8, m, p), a))

----------------------------------------------------------------------------
(* The operators by the names of the classes' interface.                   *)
load_tr(cols, m, p) ==
  CASE cols = "x1" -> load_8x1_tr(m, p) [] cols = "x2" -> load_8x2_tr(m, p)
    [] cols = "x3" -> load_8x3_tr(m, p) [] cols = "x4" -> load_8x4_tr(m, p)
    [] cols = "x8" -> load_8x8_tr(m, p)
store_tr(cols, m, p, v) ==
  CASE cols = "x1" -> store_8x1_tr(m, p, v) [] cols = "x2" -> store_8x2_tr(m, p, v)
    [] cols = "x3" -> store_8x3_tr(m, p, v) [] cols = "x4" -> store_8x4_tr(m, p, v)
    [] cols = "x8" -> store_8x8_tr(m, p, v)
int_assign(op, a, b) ==
  CASE op = "^" -> int_xor_assign(a, b) [] op = "&" -> int_and_assign(a, b)
    [] op = "|" -> int_or_assign(a, b) [] OTHER -> int_word_assign(op, a, b)
int_prefix(op, a) ==
  CASE op = "+" -> int_plus(a) [] op = "-" -> int_minus(a) [] op = "~" -> int_complement(a)
int_binary(op, a, b) ==
  CASE op = "^" -> int_xor(a, b) [] op = "&" -> int_and(a, b)
    [] op = "|" -> int_or(a, b) [] OTHER -> int_word_binary(op, a, b)
float_logical(op, a, b) ==
  CASE op = "&&" -> float_and(a, b) [] op = "||" -> float_or(a, b)
    [] OTHER -> float_compare(op, a, b)
cmath_fr1(fn, a) ==
  CASE fn = "fabs" -> float_fabs(a) [] fn = "sqrt" -> float_sqrt(a)
    [] OTHER -> cmath_word_fr1(fn, a)
On == INSTANCE Steps WITH
        load <- load_8x1, store <- store_8x1, stream <- stream_8x1, clear <- clear_8x1,
        copy <- copy_8x1, swap_mem <- swap_8x1, increment <- increment_8x1,
        decrement <- decrement_8x1, scale <- scale_8x1
=============================================================================
