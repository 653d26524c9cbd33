------------------------------- MODULE MCLanes -------------------------------
(***************************************************************************)
(* Every register class on a few sets of data: numbers of both signs, all  *)
(* different; small ints with zeros and equal lanes; masks; and zeros.     *)
(***************************************************************************)
EXTENDS Lanes

MCRegister(d, n, j) ==
  CASE d = "numbers" -> Number(37 * n + 91 * j + 5)
    [] d = "small" -> IF n = 1 THEN Number(j - 2) ELSE 1 + ((j + n) % 3)
    [] d = "equal" ->
         IF n = 3 THEN Mask(j % 3 = 0) ELSE Number((IF j % 4 = n THEN -7 ELSE 11) * (j + 1))
    [] d = "zeros" -> IF n = 1 THEN 0 ELSE IF n = 3 THEN AllOnes ELSE Number(j - 1)

MCStored(d, x) ==
  IF d \in {"small", "zeros"} THEN Number(x - 9)
  ELSE (IF x % 2 = 0 THEN SignBit ELSE 0) + 1 + ((x \div 2) % 254)

MCRowStride(w) == IF w = 4 THEN 8 ELSE w
MCDepth(w) == IF w = 4 THEN 2 ELSE 1
=============================================================================
