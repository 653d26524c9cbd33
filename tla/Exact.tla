------------------------------- MODULE Exact --------------------------------
(***************************************************************************)
(* Exact arithmetic in place of the program's floats.                      *)
(*                                                                         *)
(* Field values are numbers modulo a prime: sums, products and quotients   *)
(* obey the laws of arithmetic there, so that what the kernels keep up to  *)
(* roundoff is kept exactly, and two expressions that differ are told      *)
(* apart but for a chance of one in Prime.  Positions, which the code also *)
(* compares, are fractions <<numerator, denominator>>.                     *)
(***************************************************************************)
EXTENDS Integers

Prime == 9973

Times(x, y) == (x * y) % Prime
(* The inverse: x times it is 1.                                           *)
inverse[x \in 1..(Prime - 1)] ==
  IF x = 1 THEN 1 ELSE Times(Prime - (Prime \div x), inverse[Prime % x])
Inv(x) == inverse[x]
ASSUME InverseAssumption == \A x \in 1..(Prime - 1) : Times(x, Inv(x)) = 1
Half == (Prime + 1) \div 2

Abs(x) == IF x < 0 THEN -x ELSE x
Divides(k, x) == x % k = 0
GCD(x, y) == CHOOSE k \in 1..y : /\ Divides(k, x) /\ Divides(k, y)
                                 /\ \A m \in (k + 1)..y : ~(Divides(m, x) /\ Divides(m, y))

Frac(x, y) == LET s == IF y < 0 THEN -1 ELSE 1
                  k == GCD(Abs(x), Abs(y))
              IN <<(s * x) \div k, (s * y) \div k>>
Plus(r, s)  == Frac(r[1] * s[2] + s[1] * r[2], r[2] * s[2])
Minus(r, s) == Frac(r[1] * s[2] - s[1] * r[2], r[2] * s[2])
Mult(r, s)  == Frac(r[1] * s[1], r[2] * s[2])
Over(r, s)  == Frac(r[1] * s[2], r[2] * s[1])
Less(r, s)  == r[1] * s[2] < s[1] * r[2]
Neg(r)      == <<-r[1], r[2]>>

(* The number a fraction stands for among the field values.                *)
Value(r) == Times(r[1] % Prime, Inv(r[2] % Prime))
=============================================================================
