------------------------------ MODULE Workload ------------------------------
(***************************************************************************)
(* How the work of one call is shared out (util/util_base.h, grid/grid.h): *)
(* of N items, the pipelines 0..P-1 get whole blocks of b and the host,    *)
(* number P, what is left over.                                            *)
(***************************************************************************)
EXTENDS Integers

(* Where the share of p begins, in blocks: (int)( (k/P)*p + 0.5 ), rounded *)
(* to the nearest.                                                         *)
Cut(k, p, P) == (2 * k * p + P) \div (2 * P)

(* The first item of a share and how many it has.                          *)
DISTRIBUTE(N, b, p, P) ==
  LET i == b * Cut(N \div b, p, P)
  IN [i |-> i, n |-> IF p = P THEN N % b ELSE b * Cut(N \div b, p + 1, P) - i]

(* The same over the voxels of a box of len voxels from lo along each      *)
(* axis, x fastest: the first one's coordinates, and how many.             *)
DISTRIBUTE_VOXELS(lo, len, b, p, P) ==
  LET N == len[1] * len[2] * len[3]
      i == b * Cut(N \div b, p, P)
      y == IF len[1] = 0 THEN 0 ELSE i \div len[1]
      z == IF len[2] = 0 THEN 0 ELSE y \div len[2]
  IN [first |-> <<lo + i - y * len[1], lo + y - z * len[2], lo + z>>,
      n |-> (IF p < P THEN b * Cut(N \div b, p + 1, P) ELSE N) - i]

(* The walk over a share: x, and at its end y, and at its end z.           *)
Walk(lo, len, first, k) ==
  LET x == first[1] - lo + k
      y == first[2] - lo + (x \div len[1])
  IN <<lo + (x % len[1]), lo + (y % len[2]), first[3] + (y \div len[2])>>
=============================================================================
