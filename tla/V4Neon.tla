------------------------------ MODULE V4Neon --------------------------------
(***************************************************************************)
(* Four lanes in a NEON register of an ARM machine (util/v4/v4_neon.h).    *)
(* Transpositions take the even and odd lanes of two vectors; much else    *)
(* is left to the compiler, word by word.  Loads and stores of a vector    *)
(* need no alignment.                                                      *)
(***************************************************************************)
EXTENDS Intrinsics

Lane == 0 .. 3
Lanes == 4

any(a) == \E j \in Lane : a[j] # 0
all(a) == \A j \in Lane : a[j] # 0
splat(n, a) == [j \in Lane |-> a[n]]
shuffle(i, a) == [j \in Lane |-> a[i[j]]]

(* x^=y, y^=x, x^=y                                                        *)
sw(x, y) ==
  LET x1 == Xor(x, y)
      y1 == Xor(y, x1)
  IN <<Xor(x1, y1), y1>>
swap(a, b) == <<[j \in Lane |-> sw(a[j], b[j])[1]], [j \in Lane |-> sw(a[j], b[j])[2]]>>
(* The even lanes of two vectors side by side, the odd ones, and the same  *)
(* of pairs of lanes.                                                      *)
vtrn1q_f32(a, b) == [j \in Lane |-> IF j % 2 = 0 THEN a[j] ELSE b[j - 1]]
vtrn2q_f32(a, b) == [j \in Lane |-> IF j % 2 = 0 THEN a[j + 1] ELSE b[j]]
vtrn1q_f64(a, b) == [j \in Lane |-> IF j < 2 THEN a[j] ELSE b[j - 2]]
vtrn2q_f64(a, b) == [j \in Lane |-> IF j < 2 THEN a[j + 2] ELSE b[j]]
(* The even lanes of two vectors one after the other, and the odd ones.    *)
vuzp1q_f32(a, b) == [j \in Lane |-> IF j < 2 THEN a[2 * j] ELSE b[2 * j - 4]]
vuzp2q_f32(a, b) == [j \in Lane |-> IF j < 2 THEN a[2 * j + 1] ELSE b[2 * j - 3]]
(* Sixteen words dealt to four vectors, a word to each in turn.            *)
vld4q_f32(m, p) == [c \in 0 .. 3 |-> [j \in Lane |-> m[p + 4 * j + c]]]
vst4q_f32(m, p, v) == Write(m, p, [x \in 0 .. 15 |-> v[x % 4][x \div 4]])
vbicq_s32(a, b) == [j \in Lane |-> And(a[j], Not(b[j]))]
Rows(a) ==
  LET r == vtrn1q_f32(a[1], a[2])
      s == vtrn2q_f32(a[1], a[2])
      t == vtrn1q_f32(a[3], a[4])
      u == vtrn2q_f32(a[3], a[4])
  IN <<vtrn1q_f64(r, t), vtrn1q_f64(s, u), vtrn2q_f64(r, t), vtrn2q_f64(s, u)>>
transpose(a) == Rows(a)

load_4x1(m, p) == At(m, p, 4)
store_4x1(m, p, a) == Write(m, p, a)
stream_4x1(m, p, a) == Write(m, p, a)
clear_4x1(m, p) == Write(m, p, Filled(4, 0))
copy_4x1(m, dst, src) == Write(m, dst, At(m, src, 4))
swap_4x1(m, a, b) == Write(Write(m, a, At(m, b, 4)), b, At(m, a, 4))

load_4x1_tr(m, p) == Columns(m, p, 1)
load_4x2_tr(m, p) == SubSeq(Rows([k \in 1 .. 4 |-> At(m, p[k - 1], 4)]), 1, 2)
load_4x3_tr(m, p) == SubSeq(Rows([k \in 1 .. 4 |-> At(m, p[k - 1], 4)]), 1, 3)
load_4x4_tr(m, p) == Rows([k \in 1 .. 4 |-> At(m, p[k - 1], 4)])
(* Rows of 8 words, of which the second is taken to follow the first and   *)
(* the fourth the third.                                                   *)
load_4x8_tr(m, p) ==
  LET mat0 == vld4q_f32(m, p[0])
      mat2 == vld4q_f32(m, p[2])
  IN [c \in 1 .. 4 |-> vuzp1q_f32(mat0[c - 1], mat2[c - 1])]
     \o [c \in 1 .. 4 |-> vuzp2q_f32(mat0[c - 1], mat2[c - 1])]
load_4x16_tr(m, p) ==
  LET mat == [k \in 0 .. 3 |-> vld4q_f32(m, p[k])]
      c(n) == LET k == 2 * (n \div 8)   \* of the first two rows, then of the others
                  x == mat[k][n % 4]
                  y == mat[k + 1][n % 4]
              IN IF n % 8 < 4 THEN vuzp1q_f32(x, y) ELSE vuzp2q_f32(x, y)
  IN [n \in 1 .. 8 |-> vuzp1q_f32(c(n - 1), c(n + 7))]
     \o [n \in 1 .. 8 |-> vuzp2q_f32(c(n - 1), c(n + 7))]
store_4x1_tr(m, p, v) == WriteColumns(m, p, SubSeq(v, 1, 1))
store_4x2_tr(m, p, v) == WriteColumns(m, p, SubSeq(v, 1, 2))
store_4x3_tr(m, p, v) == WriteColumns(m, p, SubSeq(v, 1, 3))
store_4x4_tr(m, p, v) ==
  LET a == Rows(v)
  IN Write(Write(Write(Write(m, p[0], a[1]), p[1], a[2]), p[2], a[3]), p[3], a[4])
store_4x8_tr(m, p, v) ==
  LET mat0 == [c \in 0 .. 3 |-> vuzp1q_f32(v[c + 1], v[c + 5])]
      mat2 == [c \in 0 .. 3 |-> vuzp2q_f32(v[c + 1], v[c + 5])]
  IN vst4q_f32(vst4q_f32(m, p[0], mat0), p[2], mat2)

(* v4int                                                                   *)
int_scalar(i) == Filled(4, i)
int_scalars(i) == [j \in Lane |-> i[j + 1]]
int_word_assign(op, a, b) == [j \in Lane |-> IntOp(op, a[j], b[j])]
int_xor_assign(a, b) == xor_ps(a, b)
int_and_assign(a, b) == and_ps(a, b)
int_or_assign(a, b) == or_ps(a, b)
int_prefix(op, a) == [j \in Lane |-> IntUnary(op, a[j])]
int_not(a) == [j \in Lane |-> Mask(a[j] = 0)]
int_prefix_incdec(op, a) == [j \in Lane |-> IntUnary(op, a[j])]
int_postfix_incdec(op, a) == <<a, [j \in Lane |-> IntUnary(op, a[j])]>>
int_word_binary(op, a, b) == [j \in Lane |-> IntOp(op, a[j], b[j])]
int_xor(a, b) == xor_ps(a, b)
int_and(a, b) == and_ps(a, b)
int_or(a, b) == or_ps(a, b)
int_logical(op, a, b) == [j \in Lane |-> Mask(IntTest(op, a[j], b[j]))]
abs(a) == [j \in Lane |-> IF Signed(a[j]) >= 0 THEN a[j] ELSE IntUnary("-", a[j])]
czero(c, a) == [j \in Lane |-> And(a[j], Not(c[j]))]
notczero(c, a) == and_ps(c, a)
merge(c, t, f) == [j \in Lane |-> Or(And(f[j], Not(c[j])), And(t[j], c[j]))]

(* v4float                                                                 *)
float_scalar(f) == Filled(4, f)
float_scalars(f) == [j \in Lane |-> f[j + 1]]
float_assign(op, a, b) == packed_ps(op, a, b)
float_plus(a) == a
float_minus(a) == [j \in Lane |-> Negate(a[j])]
float_not(a) == [j \in Lane |-> Mask(a[j] = 0)]
float_prefix_inc(a) == [j \in Lane |-> FloatOp("+", a[j], One)]
float_prefix_dec(a) == [j \in Lane |-> FloatOp("-", a[j], One)]
float_postfix_inc(a) == <<a, [j \in Lane |-> FloatOp("+", a[j], One)]>>
float_postfix_dec(a) == <<a, [j \in Lane |-> FloatOp("-", a[j], One)]>>
float_binary(op, a, b) == packed_ps(op, a, b)
float_compare(op, a, b) == cmp_ps(op, a, b)
vmvnq_u32(a) == [j \in Lane |-> Not(a[j])]
float_unequal(a, b) == vmvnq_u32(cmp_ps("==", a, b))
float_and(a, b) ==
  LET zero == Filled(4, 0) IN and_ps(float_unequal(a, zero), float_unequal(b, zero))
float_or(a, b) ==
  LET zero == Filled(4, 0) IN or_ps(float_unequal(a, zero), float_unequal(b, zero))
cmath_fr1(fn, a) == [j \in Lane |-> Math(fn, a[j])]
cmath_fr2(a, b) == [j \in Lane |-> Fn2(a[j], b[j])]
copysign(a, b) ==
  [j \in Lane |-> LET t == fabs(a[j]) IN IF Value(b[j]) < 0 THEN Negate(t) ELSE t]
rsqrt_approx(a) == rsqrt_ps(a)
rsqrt(a) ==
  LET b == rsqrt_ps(a)
  IN add_ps(b, mul_ps(Filled(4, OneHalf), sub_ps(b, mul_ps(a, mul_ps(b, mul_ps(b, b))))))
rcp_approx(a) == rcp_ps(a)
rcp(a) == LET b == rcp_ps(a) IN sub_ps(add_ps(b, b), mul_ps(a, mul_ps(b, b)))
fma(a, b, c) == add_ps(mul_ps(a, b), c)
fms(a, b, c) == sub_ps(mul_ps(a, b), c)
fnms(a, b, c) == sub_ps(c, mul_ps(a, b))
clear_bits(m, a) == vbicq_s32(m, a)   \* the bits of m that a lacks
set_bits(m, a) == or_ps(m, a)
toggle_bits(m, a) == xor_ps(m, a)
increment_4x1(m, p, a) == Write(m, p, add_ps(At(m, p, 4), a))
decrement_4x1(m, p, a) == Write(m, p, sub_ps(At(m, p, 4), a))
scale_4x1(m, p, a) == Write(m, p, mul_ps(At(m, p, 4), a))

(* The weights of a cell's eight corners, of a point at (x,y,z) in it.     *)
trilinear(wl) ==
  LET one(s, x) == FloatOp(IF s = 0 THEN "-" ELSE "+", One, x)
      w(s, j) == FloatOp("*", FloatOp("*", one(j % 2, wl[0]), one(j \div 2, wl[1])),
                       one(s, wl[2]))
  IN <<[j \in Lane |-> w(0, j)], [j \in Lane |-> w(1, j)]>>

----------------------------------------------------------------------------
(* The operators by the names of the classes' interface.                   *)
load_tr(cols, m, p) ==
  CASE cols = "x1" -> load_4x1_tr(m, p) [] cols = "x2" -> load_4x2_tr(m, p)
    [] cols = "x3" -> load_4x3_tr(m, p) [] cols = "x4" -> load_4x4_tr(m, p)
    [] cols = "x8" -> load_4x8_tr(m, p) [] cols = "x16" -> load_4x16_tr(m, p)
store_tr(cols, m, p, v) ==
  CASE cols = "x1" -> store_4x1_tr(m, p, v) [] cols = "x2" -> store_4x2_tr(m, p, v)
    [] cols = "x3" -> store_4x3_tr(m, p, v) [] cols = "x4" -> store_4x4_tr(m, p, v)
    [] cols = "x8" -> store_4x8_tr(m, p, v)
int_assign(op, a, b) ==
  CASE op = "^" -> int_xor_assign(a, b) [] op = "&" -> int_and_assign(a, b)
    [] op = "|" -> int_or_assign(a, b) [] OTHER -> int_word_assign(op, a, b)
int_binary(op, a, b) ==
  CASE op = "^" -> int_xor(a, b) [] op = "&" -> int_and(a, b)
    [] op = "|" -> int_or(a, b) [] OTHER -> int_word_binary(op, a, b)
float_logical(op, a, b) ==
  CASE op = "&&" -> float_and(a, b) [] op = "||" -> float_or(a, b)
    [] op = "!=" -> float_unequal(a, b) [] OTHER -> float_compare(op, a, b)
On == INSTANCE Steps WITH
        load <- load_4x1, store <- store_4x1, stream <- stream_4x1, clear <- clear_4x1,
        copy <- copy_4x1, swap_mem <- swap_4x1, increment <- increment_4x1,
        decrement <- decrement_4x1, scale <- scale_4x1
=============================================================================
