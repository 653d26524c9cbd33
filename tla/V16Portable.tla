----------------------------- MODULE V16Portable ----------------------------
(***************************************************************************)
(* Sixteen lanes in plain C++ (util/v16/v16_portable.h): an array of words,*)
(* and every operation lane by lane.                                       *)
(***************************************************************************)
EXTENDS LaneWords

Lane == 0 .. 15
Lanes == 16

any(a) == \E j \in Lane : a[j] # 0
all(a) == \A j \in Lane : a[j] # 0
splat(n, a) == [j \in Lane |-> a[n]]
shuffle(i, a) == [j \in Lane |-> a[i[j]]]

(* x^=y, y^=x, x^=y                                                        *)
sw(x, y) ==
  LET x1 == Xor(x, y)
      y1 == Xor(y, x1)
  IN <<Xor(x1, y1), y1>>
swap(a, b) == <<[j \in Lane |-> sw(a[j], b[j])[1]], [j \in Lane |-> sw(a[j], b[j])[2]]>>
transpose(a) ==
  [r \in 1 .. 16 |->
     [j \in Lane |-> IF r - 1 < j THEN sw(a[r][j], a[j + 1][r - 1])[1]
                     ELSE IF j < r - 1 THEN sw(a[j + 1][r - 1], a[r][j])[2]
                     ELSE a[r][j]]]

load_16x1(m, p) == At(m, p, 16)
store_16x1(m, p, a) == Write(m, p, a)
stream_16x1(m, p, a) == Write(m, p, a)
clear_16x1(m, p) == Write(m, p, Filled(16, 0))
copy_16x1(m, dst, src) == Write(m, dst, At(m, src, 16))
swap_16x1(m, a, b) == Write(Write(m, a, At(m, b, 16)), b, At(m, a, 16))

load_16x1_tr(m, p) == Columns(m, p, 1)
load_16x2_tr(m, p) == Columns(m, p, 2)
load_16x3_tr(m, p) == Columns(m, p, 3)
load_16x4_tr(m, p) == Columns(m, p, 4)
load_16x8_tr(m, p) == Columns(m, p, 8)
load_16x16_tr(m, p) == Columns(m, p, 16)
store_16x1_tr(m, p, v) == WriteColumns(m, p, SubSeq(v, 1, 1))
store_16x2_tr(m, p, v) == WriteColumns(m, p, SubSeq(v, 1, 2))
store_16x3_tr(m, p, v) == WriteColumns(m, p, SubSeq(v, 1, 3))
store_16x4_tr(m, p, v) == WriteColumns(m, p, SubSeq(v, 1, 4))
store_16x8_tr(m, p, v) == WriteColumns(m, p, SubSeq(v, 1, 8))
store_16x16_tr(m, p, v) == WriteColumns(m, p, SubSeq(v, 1, 16))

(* Two records of eight words to a row.                                    *)
Record(p) == [j \in Lane |-> p[j \div 2] + 8 * (j % 2)]
load_16x8_tr_p(m, p) == Columns(m, Record(p), 8)
load_16x16_tr_p(m, p) ==
  Columns(m, Record(p), 8) \o Columns(m, Record([j \in 0 .. 7 |-> p[j + 8]]), 8)
store_16x8_tr_p(m, p, v) == WriteColumns(m, Record(p), SubSeq(v, 1, 8))
store_16x16_tr_p(m, p, v) ==
  WriteColumns(WriteColumns(m, Record(p), SubSeq(v, 1, 8)),
               Record([j \in 0 .. 7 |-> p[j + 8]]), SubSeq(v, 9, 16))

(* v16int                                                                  *)
int_scalar(i) == Filled(16, i)
int_scalars(i) == [j \in Lane |-> i[j + 1]]
int_assign(op, a, b) == [j \in Lane |-> IntOp(op, a[j], b[j])]
int_prefix(op, a) == [j \in Lane |-> IntUnary(op, a[j])]
int_not(a) == [j \in Lane |-> Mask(a[j] = 0)]
int_prefix_incdec(op, a) == [j \in Lane |-> IntUnary(op, a[j])]
int_postfix_incdec(op, a) == <<a, [j \in Lane |-> IntUnary(op, a[j])]>>
int_binary(op, a, b) == [j \in Lane |-> IntOp(op, a[j], b[j])]
int_logical(op, a, b) == [j \in Lane |-> Mask(IntTest(op, a[j], b[j]))]
abs(a) == [j \in Lane |-> IF Signed(a[j]) >= 0 THEN a[j] ELSE IntUnary("-", a[j])]
czero(c, a) == [j \in Lane |-> And(a[j], Not(c[j]))]
notczero(c, a) == [j \in Lane |-> And(a[j], c[j])]
merge(c, t, f) == [j \in Lane |-> Or(And(f[j], Not(c[j])), And(t[j], c[j]))]

(* v16float                                                                *)
float_scalar(f) == Filled(16, f)
float_scalars(f) == [j \in Lane |-> f[j + 1]]
float_assign(op, a, b) == [j \in Lane |-> FloatOp(op, a[j], b[j])]
float_plus(a) == a
float_minus(a) == [j \in Lane |-> Negate(a[j])]
float_not(a) == [j \in Lane |-> IF a[j] # 0 THEN 0 ELSE AllOnes]
float_prefix_inc(a) == [j \in Lane |-> FloatOp("+", a[j], One)]
float_prefix_dec(a) == [j \in Lane |-> FloatOp("-", a[j], One)]
float_postfix_inc(a) == <<a, [j \in Lane |-> FloatOp("+", a[j], One)]>>
float_postfix_dec(a) == <<a, [j \in Lane |-> FloatOp("-", a[j], One)]>>
float_binary(op, a, b) == [j \in Lane |-> FloatOp(op, a[j], b[j])]
float_logical(op, a, b) == [j \in Lane |-> Mask(FloatTest(op, a[j], b[j]))]
cmath_fr1(fn, a) == [j \in Lane |-> Math(fn, a[j])]
cmath_fr2(a, b) == [j \in Lane |-> Fn2(a[j], b[j])]
copysign(a, b) ==
  [j \in Lane |-> LET t == fabs(a[j]) IN IF Value(b[j]) < 0 THEN Negate(t) ELSE t]
rsqrt_approx(a) == [j \in Lane |-> sqrt(FloatOp("/", One, a[j]))]
rsqrt(a) == [j \in Lane |-> sqrt(FloatOp("/", One, a[j]))]
rcp_approx(a) == [j \in Lane |-> FloatOp("/", One, a[j])]
rcp(a) == [j \in Lane |-> FloatOp("/", One, a[j])]
fma(a, b, c) == [j \in Lane |-> FloatOp("+", FloatOp("*", a[j], b[j]), c[j])]
fms(a, b, c) == [j \in Lane |-> FloatOp("-", FloatOp("*", a[j], b[j]), c[j])]
fnms(a, b, c) == [j \in Lane |-> FloatOp("-", c[j], FloatOp("*", a[j], b[j]))]
clear_bits(m, a) == [j \in Lane |-> And(Not(m[j]), a[j])]
set_bits(m, a) == [j \in Lane |-> Or(m[j], a[j])]
toggle_bits(m, a) == [j \in Lane |-> Xor(m[j], a[j])]
increment_16x1(m, p, a) == Write(m, p, [j \in Lane |-> FloatOp("+", m[p + j], a[j])])
decrement_16x1(m, p, a) == Write(m, p, [j \in Lane |-> FloatOp("-", m[p + j], a[j])])
scale_16x1(m, p, a) == Write(m, p, [j \in Lane |-> FloatOp("*", m[p + j], a[j])])

----------------------------------------------------------------------------
load_tr(cols, m, p) ==
  CASE cols = "x1" -> load_16x1_tr(m, p)
    [] cols = "x2" -> load_16x2_tr(m, p)
    [] cols = "x3" -> load_16x3_tr(m, p)
    [] cols = "x4" -> load_16x4_tr(m, p)
    [] cols = "x8" -> load_16x8_tr(m, p)
    [] cols = "x16" -> load_16x16_tr(m, p)
    [] cols = "x8_p" -> load_16x8_tr_p(m, p)
    [] cols = "x16_p" -> load_16x16_tr_p(m, p)
store_tr(cols, m, p, v) ==
  CASE cols = "x1" -> store_16x1_tr(m, p, v)
    [] cols = "x2" -> store_16x2_tr(m, p, v)
    [] cols = "x3" -> store_16x3_tr(m, p, v)
    [] cols = "x4" -> store_16x4_tr(m, p, v)
    [] cols = "x8" -> store_16x8_tr(m, p, v)
    [] cols = "x16" -> store_16x16_tr(m, p, v)
    [] cols = "x8_p" -> store_16x8_tr_p(m, p, v)
    [] cols = "x16_p" -> store_16x16_tr_p(m, p, v)
On == INSTANCE Steps WITH
        load <- load_16x1, store <- store_16x1, stream <- stream_16x1, clear <- clear_16x1,
        copy <- copy_16x1, swap_mem <- swap_16x1, increment <- increment_16x1,
        decrement <- decrement_16x1, scale <- scale_16x1
=============================================================================
