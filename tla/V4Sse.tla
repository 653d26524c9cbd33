------------------------------- MODULE V4Sse -------------------------------
(***************************************************************************)
(* Four lanes in an SSE register (util/v4/v4_sse.h).  Networks of          *)
(* unpacks, moves and shuffles rearrange the lanes; what SSE lacks is done *)
(* word by word.                                                           *)
(***************************************************************************)
EXTENDS Intrinsics

Lane == 0 .. 3
Lanes == 4
PERM(i0, i1, i2, i3) == i0 + 4 * i1 + 16 * i2 + 64 * i3

any(a) == \E j \in Lane : a[j] # 0
all(a) == \A j \in Lane : a[j] # 0
splat(n, a) == shuffle_ps(a, a, n * PERM(1, 1, 1, 1))
shuffle(i, a) == shuffle_ps(a, a, PERM(i[0], i[1], i[2], i[3]))
swap(a, b) == <<b, a>>
transpose(a) ==
  LET t == unpackhi_ps(a[1], a[2])
      a0 == unpacklo_ps(a[1], a[2])
      u == unpackhi_ps(a[3], a[4])
      a2 == unpacklo_ps(a[3], a[4])
  IN <<movelh_ps(a0, a2), movehl_ps(a2, a0), movelh_ps(t, u), movehl_ps(u, t)>>

load_4x1(m, p) == load_ps(4, m, p)
store_4x1(m, p, a) == store_ps(m, p, a)
stream_4x1(m, p, a) == store_ps(m, p, a)
clear_4x1(m, p) == store_ps(m, p, setzero_ps(4))
copy_4x1(m, dst, src) == store_ps(m, dst, load_ps(4, m, src))
swap_4x1(m, a, b) ==
  LET t == load_ps(4, m, a) IN store_ps(store_ps(m, a, load_ps(4, m, b)), b, t)

load_4x1_tr(m, p) == <<setr_ps(<<m[p[0]], m[p[1]], m[p[2]], m[p[3]]>>)>>
load_4x2_tr(m, p) ==
  LET zero == setzero_ps(4)
      t == loadh_pi(loadl_pi(zero, m, p[0]), m, p[1])
      b == loadh_pi(loadl_pi(zero, m, p[2]), m, p[3])
  IN <<shuffle_ps(t, b, \h88), shuffle_ps(t, b, \hDD)>>
load_4x3_tr(m, p) ==
  LET r == [j \in Lane |-> load_ps(4, m, p[j])]
      a == unpacklo_ps(r[0], r[1])
      b == unpackhi_ps(r[0], r[1])
      t == unpacklo_ps(r[2], r[3])
      u == unpackhi_ps(r[2], r[3])
  IN <<movelh_ps(a, t), movehl_ps(t, a), movelh_ps(b, u)>>
load_4x4_tr(m, p) ==
  LET r == [j \in Lane |-> load_ps(4, m, p[j])]
      t == unpackhi_ps(r[0], r[1])
      a == unpacklo_ps(r[0], r[1])
      u == unpackhi_ps(r[2], r[3])
      c == unpacklo_ps(r[2], r[3])
  IN <<movelh_ps(a, c), movehl_ps(c, a), movelh_ps(t, u), movehl_ps(u, t)>>

store_4x1_tr(m, p, v) == WriteColumns(m, p, SubSeq(v, 1, 1))
store_4x2_tr(m, p, v) ==
  LET t == unpacklo_ps(v[1], v[2])
      u == unpackhi_ps(v[1], v[2])
  IN storeh_pi(storel_pi(storeh_pi(storel_pi(m, p[0], t), p[1], t), p[2], u), p[3], u)
store_4x3_tr(m, p, v) ==
  LET t == unpacklo_ps(v[1], v[2])
      u == unpackhi_ps(v[1], v[2])
      m2 == storeh_pi(storel_pi(storeh_pi(storel_pi(m, p[0], t), p[1], t), p[2], u), p[3], u)
  IN WriteColumns(m2, [j \in Lane |-> p[j] + 2], <<v[3]>>)
store_4x4_tr(m, p, v) ==
  LET t == unpackhi_ps(v[1], v[2])
      a == unpacklo_ps(v[1], v[2])
      u == unpackhi_ps(v[3], v[4])
      c == unpacklo_ps(v[3], v[4])
      row == <<movelh_ps(a, c), movehl_ps(c, a), movelh_ps(t, u), movehl_ps(u, t)>>
  IN store_rows_ps(4, m, p, [j \in Lane |-> row[j + 1]])

(* v4int                                                                   *)
int_scalar(i) == set1_ps(4, i)
int_scalars(i) == setr_ps(i)
int_word_assign(op, a, b) == [j \in Lane |-> IntOp(op, a[j], b[j])]
int_xor_assign(a, b) == xor_ps(a, b)
int_and_assign(a, b) == and_ps(a, b)
int_or_assign(a, b) == or_ps(a, b)
int_minus(a) == [j \in Lane |-> IntUnary("-", a[j])]
int_plus(a) == a
int_not(a) == [j \in Lane |-> Mask(a[j] = 0)]
int_complement(a) == xor_ps(a, set1_ps(4, AllOnes))
int_prefix_incdec(op, a) == [j \in Lane |-> IntUnary(op, a[j])]
int_postfix_incdec(op, a) == <<a, [j \in Lane |-> IntUnary(op, a[j])]>>
int_word_binary(op, a, b) == [j \in Lane |-> IntOp(op, a[j], b[j])]
int_xor(a, b) == xor_ps(a, b)
int_and(a, b) == and_ps(a, b)
int_or(a, b) == or_ps(a, b)
int_logical(op, a, b) == [j \in Lane |-> Mask(IntTest(op, a[j], b[j]))]
abs(a) == [j \in Lane |-> IF Signed(a[j]) >= 0 THEN a[j] ELSE IntUnary("-", a[j])]
czero(c, a) == andnot_ps(c, a)
notczero(c, a) == and_ps(c, a)
merge(c, t, f) == or_ps(andnot_ps(c, f), and_ps(c, t))

(* v4float                                                                 *)
float_scalar(f) == set1_ps(4, f)
float_scalars(f) == setr_ps(f)
float_assign(op, a, b) == packed_ps(op, a, b)
float_plus(a) == a
float_minus(a) == sub_ps(setzero_ps(4), a)
float_not(a) == cmp_ps("==", setzero_ps(4), a)
float_prefix_inc(a) == add_ps(a, set1_ps(4, One))
float_prefix_dec(a) == sub_ps(a, set1_ps(4, One))
float_postfix_inc(a) == <<a, add_ps(a, set1_ps(4, One))>>
float_postfix_dec(a) == <<a, sub_ps(a, set1_ps(4, One))>>
float_binary(op, a, b) == packed_ps(op, a, b)
float_compare(op, a, b) == cmp_ps(op, a, b)
float_and(a, b) == LET zero == setzero_ps(4) IN and_ps(cmp_ps("!=", a, zero), cmp_ps("!=", b, zero))
float_or(a, b) == LET zero == setzero_ps(4) IN or_ps(cmp_ps("!=", a, zero), cmp_ps("!=", b, zero))
cmath_word_fr1(fn, a) == [j \in Lane |-> Math(fn, a[j])]
cmath_fr2(a, b) == [j \in Lane |-> Fn2(a[j], b[j])]
float_fabs(a) == andnot_ps(set1_ps(4, NegativeZero), a)
float_sqrt(a) == sqrt_ps(a)
copysign(a, b) == LET t == set1_ps(4, NegativeZero) IN or_ps(and_ps(t, b), andnot_ps(t, a))
rsqrt_approx(a) == rsqrt_ps(a)
rsqrt(a) ==
  LET b == rsqrt_ps(a)
  IN add_ps(b, mul_ps(set1_ps(4, OneHalf), sub_ps(b, mul_ps(a, mul_ps(b, mul_ps(b, b))))))
rcp_approx(a) == rcp_ps(a)
rcp(a) == LET b == rcp_ps(a) IN sub_ps(add_ps(b, b), mul_ps(a, mul_ps(b, b)))
fma(a, b, c) == add_ps(mul_ps(a, b), c)
fms(a, b, c) == sub_ps(mul_ps(a, b), c)
fnms(a, b, c) == sub_ps(c, mul_ps(a, b))
clear_bits(m, a) == andnot_ps(m, a)
set_bits(m, a) == or_ps(m, a)
toggle_bits(m, a) == xor_ps(m, a)
increment_4x1(m, p, a) == store_ps(m, p, add_ps(load_ps(4, m, p), a))
decrement_4x1(m, p, a) == store_ps(m, p, sub_ps(load_ps(4, m, p), a))
scale_4x1(m, p, a) == store_ps(m, p, mul_ps(load_ps(4, m, p), a))

(* The weights of a cell's eight corners, of a point at (x,y,z) in it.     *)
trilinear(wl) ==
  LET l == set1_ps(4, One)
      s == setr_ps(<<NegativeZero, 0, NegativeZero, 0>>)
      corner == add_ps(l, xor_ps(s, shuffle_ps(wl, wl, PERM(0, 0, 1, 1))))
      z == add_ps(l, xor_ps(s, shuffle_ps(wl, wl, PERM(2, 2, 2, 2))))
      xy == mul_ps(shuffle_ps(corner, corner, PERM(0, 1, 0, 1)),
                   shuffle_ps(corner, corner, PERM(2, 2, 3, 3)))
  IN <<mul_ps(xy, shuffle_ps(z, z, PERM(0, 0, 0, 0))),
       mul_ps(xy, shuffle_ps(z, z, PERM(1, 1, 1, 1)))>>

----------------------------------------------------------------------------
(* The operators by the names of the classes' interface.                   *)
load_tr(cols, m, p) ==
  CASE cols = "x1" -> load_4x1_tr(m, p) [] cols = "x2" -> load_4x2_tr(m, p)
    [] cols = "x3" -> load_4x3_tr(m, p) [] cols = "x4" -> load_4x4_tr(m, p)
store_tr(cols, m, p, v) ==
  CASE cols = "x1" -> store_4x1_tr(m, p, v) [] cols = "x2" -> store_4x2_tr(m, p, v)
    [] cols = "x3" -> store_4x3_tr(m, p, v) [] cols = "x4" -> store_4x4_tr(m, p, v)
int_assign(op, a, b) ==
  CASE op = "^" -> int_xor_assign(a, b) [] op = "&" -> int_and_assign(a, b)
    [] op = "|" -> int_or_assign(a, b) [] OTHER -> int_word_assign(op, a, b)
int_prefix(op, a) ==
  CASE op = "+" -> int_plus(a) [] op = "-" -> int_minus(a) [] op = "~" -> int_complement(a)
int_binary(op, a, b) ==
  CASE op = "^" -> int_xor(a, b) [] op = "&" -> int_and(a, b)
    [] op = "|" -> int_or(a, b) [] OTHER -> int_word_binary(op, a, b)
float_logical(op, a, b) ==
  CASE op = "&&" -> float_and(a, b) [] op = "||" -> float_or(a, b)
    [] OTHER -> float_compare(op, a, b)
cmath_fr1(fn, a) ==
  CASE fn = "fabs" -> float_fabs(a) [] fn = "sqrt" -> float_sqrt(a)
    [] OTHER -> cmath_word_fr1(fn, a)
On == INSTANCE Steps WITH
        load <- load_4x1, store <- store_4x1, stream <- stream_4x1, clear <- clear_4x1,
        copy <- copy_4x1, swap_mem <- swap_4x1, increment <- increment_4x1,
        decrement <- decrement_4x1, scale <- scale_4x1
=============================================================================
