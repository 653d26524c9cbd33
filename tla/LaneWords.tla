----------------------------- MODULE LaneWords -----------------------------
(***************************************************************************)
(* The words a lane of a vector register holds.  A word is a bit pattern   *)
(* of Bits bits, read as a two's complement int or as a float of a sign    *)
(* bit and a magnitude.  Float arithmetic is arithmetic modulo a prime, so *)
(* it is exact and has inverses: what two implementations compute can be   *)
(* compared without regard to rounding.  Bit operations and comparisons    *)
(* see the patterns, as on the machine.                                    *)
(***************************************************************************)
EXTENDS Integers, Sequences, FiniteSetsExt

Bits == 10
Size == 2 ^ Bits
SignBit == 2 ^ (Bits - 1)
Prime == 509                  \* the largest prime below SignBit

AllOnes == Size - 1           \* the mask of a true comparison
Mask(t) == IF t THEN AllOnes ELSE 0
Trap == -1                    \* what an access the machine refuses leaves

(* Bits, five at a time.                                                   *)
Half == 2 ^ (Bits \div 2)
AndTable ==
  [x, y \in 0 .. Half - 1 |->
     MapThenSumSet(LAMBDA b : 2 ^ b,
                   {b \in 0 .. (Bits \div 2) - 1 :
                      (x \div 2 ^ b) % 2 = 1 /\ (y \div 2 ^ b) % 2 = 1})]
And(x, y) == Half * AndTable[x \div Half, y \div Half] + AndTable[x % Half, y % Half]
Or(x, y) == x + y - And(x, y)
Xor(x, y) == x + y - 2 * And(x, y)
Not(x) == AllOnes - x

(* A word as an int, and the word of an int.                               *)
Signed(w) == IF w < SignBit THEN w ELSE w - Size
Wrap(n) == n % Size
Quotient(x, y) ==
  LET q == (IF x < 0 THEN -x ELSE x) \div (IF y < 0 THEN -y ELSE y)
  IN IF (x < 0) = (y < 0) THEN q ELSE -q

IntOp(op, a, b) ==
  LET x == Signed(a)
      y == Signed(b)
  IN CASE op = "+" -> Wrap(x + y)
       [] op = "-" -> Wrap(x - y)
       [] op = "*" -> Wrap(x * y)
       [] op = "/" -> Wrap(Quotient(x, y))
       [] op = "%" -> Wrap(x - y * Quotient(x, y))
       [] op = "<<" -> Wrap(x * 2 ^ y)
       [] op = ">>" -> Wrap(x \div 2 ^ y)
       [] op = "&" -> And(a, b)
       [] op = "|" -> Or(a, b)
       [] op = "^" -> Xor(a, b)
IntUnary(op, a) ==
  CASE op = "+" -> a
    [] op = "-" -> Wrap(-Signed(a))
    [] op = "~" -> Not(a)
    [] op = "++" -> Wrap(Signed(a) + 1)
    [] op = "--" -> Wrap(Signed(a) - 1)
Compare(op, x, y) ==
  CASE op = "<" -> x < y
    [] op = ">" -> x > y
    [] op = "==" -> x = y
    [] op = "!=" -> x # y
    [] op = "<=" -> x <= y
    [] op = ">=" -> x >= y
    [] op = "&&" -> x # 0 /\ y # 0
    [] op = "||" -> x # 0 \/ y # 0
IntTest(op, a, b) == Compare(op, Signed(a), Signed(b))

(* A word as a float.  A number is a word of the least magnitude of its    *)
(* residue; its zero is +0, and what reads as -0 is NegativeZero.          *)
NegativeZero == SignBit
Magnitude(w) == w % SignBit
Negative(w) == w >= SignBit
IsNumber(w) == Magnitude(w) <= Prime \div 2
Value(w) == IF Negative(w) THEN -Magnitude(w) ELSE Magnitude(w)
Number(n) ==
  LET u == n % Prime
  IN IF u <= Prime \div 2 THEN u ELSE SignBit + (Prime - u)

ReciprocalTable ==
  [n \in 0 .. Prime - 1 |->
     IF n = 0 THEN 0 ELSE CHOOSE i \in 1 .. Prime - 1 : (n * i) % Prime = 1]
RootTable ==
  [n \in 0 .. Prime - 1 |->
     IF \E i \in 0 .. Prime \div 2 : (i * i) % Prime = n
     THEN CHOOSE i \in 0 .. Prime \div 2 : (i * i) % Prime = n
     ELSE 0]
Reciprocal(n) == ReciprocalTable[n % Prime]

FloatOp(op, a, b) ==
  LET x == Value(a)
      y == Value(b)
  IN CASE op = "+" -> Number(x + y)
       [] op = "-" -> Number(x - y)
       [] op = "*" -> Number(x * y)
       [] op = "/" -> Number(x * Reciprocal(y))
FloatTest(op, a, b) == Compare(op, Value(a), Value(b))

One == 1
OneHalf == Number(Reciprocal(2))

Negate(w) == (w + SignBit) % Size
fabs(w) == Magnitude(w)
sqrt(w) == RootTable[Value(w) % Prime]

(* Any other function of libm, of one and of two arguments.                *)
Fn(w) == Number(Value(w) * Value(w) + 3 * Value(w) + 7)
Math(fn, w) ==
  CASE fn = "fabs" -> fabs(w) [] fn = "sqrt" -> sqrt(w) [] OTHER -> Fn(w)
Fn2(v, w) == Number(2 * Value(v) + 3 * Value(w) * Value(w) + 5)

(* Memory is a function from addresses, counted in words.  Row j of a      *)
(* transposed access begins at p[j]; column c of the rows is one register. *)
At(m, p, n) == [j \in 0 .. n - 1 |-> m[p + j]]
Columns(m, p, n) == [c \in 1 .. n |-> [j \in DOMAIN p |-> m[p[j] + c - 1]]]
Write(m, p, a) == [x \in DOMAIN m |-> IF x - p \in DOMAIN a THEN a[x - p] ELSE m[x]]
WriteColumns(m, p, v) ==
  [x \in DOMAIN m |->
     IF \E j \in DOMAIN p : x - p[j] \in 0 .. Len(v) - 1
     THEN LET j == CHOOSE j \in DOMAIN p : x - p[j] \in 0 .. Len(v) - 1
          IN v[x - p[j] + 1][j]
     ELSE m[x]]
Filled(n, w) == [j \in 0 .. n - 1 |-> w]
=============================================================================
