---------------------------- MODULE SfInterface -----------------------------
(***************************************************************************)
(* What lies between particles and fields (sf_interface): the arrays of    *)
(* accumulators and of hydro moments, one for each pipeline and the host,  *)
(* that are cleared and added up in shares of floats, and the              *)
(* interpolators.                                                          *)
(*                                                                         *)
(* An array gives voxels tuples of numbers; one whose numbers are all zero *)
(* may be absent.  A set of arrays is a function on 0..P.                  *)
(***************************************************************************)
EXTENDS Charge

(* The floats that an array holds for a voxel: vectors of 8 or 16 pad the  *)
(* 12 of an accumulator; a hydro has 14 and is always padded.              *)
accumulator_floats(g) == IF g.lanes >= 8 THEN 16 ELSE 12
hydro_floats == 16
accumulators_n_block == 256
hydro_n_block == 1

(* The part of the arrays a call works on: n floats from voxel i0.         *)
AccumulatorSpan(g) ==
  LET i0 == (VOXEL(<<1, 1, 1>>, g.n) \div 2) * 2
      na == ((VOXEL(g.n, g.n) - i0 + 2) \div 2) * 2
  IN [i0 |-> i0, floats |-> accumulator_floats(g), n |-> na * accumulator_floats(g)]
HydroSpan(g) == [i0 |-> 0, floats |-> hydro_floats, n |-> nv(g.n) * hydro_floats]

(* Whether float k of voxel v is in a share.                               *)
Has(span, share, v, k) ==
  LET x == (v - span.i0) * span.floats + k - 1
  IN share.i <= x /\ x < share.i + share.n

Trimmed(array) ==
  [v \in {v \in DOMAIN array : \E k \in DOMAIN array[v] : array[v][k] # 0} |-> array[v]]

clear_array_pipeline_scalar(arrays, span, n_block, p, P) ==
  LET share == DISTRIBUTE(span.n, n_block, p, P) IN
  [r \in DOMAIN arrays |->
     Trimmed([v \in DOMAIN arrays[r] |->
                [k \in DOMAIN arrays[r][v] |-> IF Has(span, share, v, k) THEN 0 ELSE arrays[r][v][k]]])]

(* The arrays are added to the first at most nine at a time: nr are left,  *)
(* and r0 + 2 is the first of them.                                        *)
RECURSIVE Rows(_, _)
Rows(nr, r0) ==
  IF nr = 0 THEN << >>
  ELSE LET c == IF nr > 9 THEN 9 ELSE nr
       IN [r \in 1..c |-> r + r0 + 1] \o Rows(nr - c, r0 + c)

ReduceShare(arrays, span, share, width) ==
  LET rows == Rows(Cardinality(DOMAIN arrays) - 1, -1)
      voxels == UNION {DOMAIN arrays[r] : r \in DOMAIN arrays}
      sum(v, k) == FoldLeft(LAMBDA s, r : (s + (IF v \in DOMAIN arrays[r] THEN arrays[r][v][k] ELSE 0)) % Prime,
                            IF v \in DOMAIN arrays[0] THEN arrays[0][v][k] ELSE 0, rows)
      old(v, k) == IF v \in DOMAIN arrays[0] THEN arrays[0][v][k] ELSE 0
  IN [arrays EXCEPT ![0] = Trimmed([v \in voxels |->
        [k \in 1..width |-> IF Has(span, share, v, k) THEN sum(v, k) ELSE old(v, k)]])]

(* Vectors of W share out whole vectors; the host's scalar share of single *)
(* floats is then always empty.                                            *)
reduce_array_pipeline_scalar(arrays, span, width, p, P) ==
  ReduceShare(arrays, span, DISTRIBUTE(span.n, 1, p, P), width)
reduce_array_pipeline_v4(arrays, span, width, p, P) ==
  ReduceShare(arrays, span, DISTRIBUTE(span.n, 4, p, P), width)
reduce_array_pipeline_v8(arrays, span, width, p, P) ==
  ReduceShare(arrays, span, DISTRIBUTE(span.n, 8, p, P), width)
reduce_array_pipeline_v16(arrays, span, width, p, P) ==
  ReduceShare(arrays, span, DISTRIBUTE(span.n, 16, p, P), width)
reduce_array(arrays, span, width, p, P, lanes) ==
  Chosen(lanes, reduce_array_pipeline_scalar(arrays, span, width, p, P),
         reduce_array_pipeline_v4(arrays, span, width, p, P),
         reduce_array_pipeline_v8(arrays, span, width, p, P),
         reduce_array_pipeline_v16(arrays, span, width, p, P))

clear_accumulator_array(g, acc, p) ==
  clear_array_pipeline_scalar(acc, AccumulatorSpan(g), accumulators_n_block, p, g.P)
reduce_accumulator_array(g, acc, p, lanes) ==
  reduce_array(acc, AccumulatorSpan(g), 12, p, g.P, lanes)
clear_hydro_array(g, h, p) ==
  clear_array_pipeline_scalar(h, HydroSpan(g), hydro_n_block, p, g.P)
reduce_hydro_array(g, h, p, lanes) == reduce_array(h, HydroSpan(g), 4, p, g.P, lanes)

-----------------------------------------------------------------------------
(* unload_accumulator_array: jf on the edges, from the host's array.       *)
unload_accumulator_pipeline_scalar(g, f, acc, p) ==
  LET len == [a \in 1..3 |-> g.n[a] + 1]
      job == DISTRIBUTE_VOXELS(1, len, 1, p, g.P)
      mine == {VOXEL(Walk(1, len, job.first, k), g.n) : k \in 0..(job.n - 1)}
      scale(a) == Times(Times(Inv(4), Inv(dt)), Times(rd[Follow(a)], rd[Follow(Follow(a))]))
      from(a, v) ==
        LET sb == stride(g.n, Follow(a))
            sc == stride(g.n, Follow(Follow(a)))
            quad(w, k) == In(acc, w)[4 * (a - 1) + k]
        IN quad(v, 1) + quad(v - sb, 2) + quad(v - sc, 3) + quad(v - sb - sc, 4)
  IN IF p = g.P THEN f
     ELSE [f EXCEPT !.jf = [a \in 1..3 |-> Overlay(@[a],
            [v \in mine |-> (@[a][v] + Times(scale(a), from(a, v))) % Prime])]]

(* load_interpolator_array: for each cell, mean and slopes of e over its   *)
(* four edges along each axis, and of cb over its two faces.               *)
Interpolator(g, f, v) ==
  LET e(a) ==
        LET sb == stride(g.n, Follow(a))
            sc == stride(g.n, Follow(Follow(a)))
            w0 == f.e[a][v]
            w1 == f.e[a][v + sb]
            w2 == f.e[a][v + sc]
            w3 == f.e[a][v + sb + sc]
            fourth(x) == Times(Inv(4), x % Prime)
        IN << fourth(w3 + w0 + (w1 + w2)), fourth(w3 - w0 + (w1 - w2)),
              fourth(w3 - w0 - (w1 - w2)), fourth(w3 + w0 - (w1 + w2)) >>
      cb(a) == LET w0 == f.cb[a][v]
                   w1 == f.cb[a][v + stride(g.n, a)]
               IN << Times(Half, w1 + w0), Times(Half, w1 - w0) >>
  IN e(1) \o e(2) \o e(3) \o cb(1) \o cb(2) \o cb(3)
(* The v4 kernel has the four edges in its lanes: their mean and slopes    *)
(* are sums of the lanes with the signs flipped.                           *)
Interpolator_v4(g, f, v) ==
  LET signs == << <<1, 1, 1, 1>>, <<-1, 1, -1, 1>>, <<-1, -1, 1, 1>>, <<1, -1, -1, 1>> >>
      e(a) ==
        LET sb == stride(g.n, Follow(a))
            sc == stride(g.n, Follow(Follow(a)))
            w == << f.e[a][v], f.e[a][v + sb], f.e[a][v + sc], f.e[a][v + sb + sc] >>
        IN [i \in 1..4 |-> Times(Inv(4),
              (signs[i][1] * w[1] + signs[i][2] * w[2] + signs[i][3] * w[3] + signs[i][4] * w[4]) % Prime)]
      cb(a) == LET w0 == f.cb[a][v]
                   w1 == f.cb[a][v + stride(g.n, a)]
               IN << Times(Half, w0 + w1), Times(Half, w1 - w0) >>
  IN e(1) \o e(2) \o e(3) \o cb(1) \o cb(2) \o cb(3)

InterpolatorShare(g, p) ==
  LET job == DISTRIBUTE_VOXELS(1, g.n, 1, p, g.P)
  IN {VOXEL(Walk(1, g.n, job.first, k), g.n) : k \in 0..(job.n - 1)}
load_interpolator_pipeline_scalar(g, f, fi, p) ==
  IF p = g.P THEN fi
  ELSE Overlay(fi, [v \in InterpolatorShare(g, p) |-> Interpolator(g, f, v)])
load_interpolator_pipeline_v4(g, f, fi, p) ==
  IF p = g.P THEN fi
  ELSE Overlay(fi, [v \in InterpolatorShare(g, p) |-> Interpolator_v4(g, f, v)])
load_interpolator_array(g, f, fi, p, lanes) ==
  IF lanes = 1 THEN load_interpolator_pipeline_scalar(g, f, fi, p)
               ELSE load_interpolator_pipeline_v4(g, f, fi, p)

-----------------------------------------------------------------------------
(* accumulate_hydro_p: a particle's moments go to the nodes of its cell.   *)
(* Four stand for the fourteen, <<jx, jy, jz, rho>>, and the half push     *)
(* that centers the velocity is left out.                                  *)
Moments(g, p, step) ==
  LET t == Trilinear(g.n, p, p.q, step)
  IN [k \in 1..4 |-> IF k = 4 THEN t ELSE Times(t, Value(p.u[k]))]
accumulate_hydro_p(g, h, ps) ==
  FoldSet(LAMBDA p, array :
            FoldSet(LAMBDA step, b :
                      [v \in DOMAIN b \cup {p.i + step} |->
                         IF v # p.i + step THEN b[v]
                         ELSE [k \in 1..4 |->
                           ((IF v \in DOMAIN b THEN b[v][k] ELSE 0) + Moments(g, p, step)[k]) % Prime]],
                    array, Corners(g.n, p.i)),
          h, ps)

(* synchronize_hydro_array: nodes on the outer planes count double, then   *)
(* the ranks that share a plane take the mean of it, weighted by their     *)
(* cells, an axis at a time.                                               *)
HydroPlane(g, f) ==
  LET n == g.n
      at == [a \in 1..3 |-> IF a # Axis(f) THEN 1..(n[a] + 1)
                            ELSE IF Dir(f) < 0 THEN {1} ELSE {n[a] + 1}]
  IN Box(n, 1, at[1], at[2], at[3])
local_adjust_hydro(g, h) ==
  FoldLeft(LAMBDA array, f :
             IF ~local(g, f) THEN array
             ELSE [v \in DOMAIN array |->
                     IF v \in HydroPlane(g, f) THEN [k \in 1..4 |-> (2 * array[v][k]) % Prime]
                     ELSE array[v]],
           h, <<0, 1, 2, 3, 4, 5>>)
PackHydro(g, h, f) ==
  [dx |-> d[Axis(f)], 
   plane |-> LET a == Axis(f) IN
     [place \in Places(g.n, a, {Follow(a), Follow(Follow(a))}) |->
        LET v == VoxelAt(g.n, a, OnWall(g.n, f), place)
        IN IF v \in DOMAIN h THEN h[v] ELSE <<0, 0, 0, 0>>]]
(* The message came through the sender's face f, onto the opposite one.    *)
UnpackHydro(g, h, f, msg) ==
  LET a == Axis(f)
      total == Inv(msg.dx + d[a])
      lw == Times(2 * d[a], total)
      rw == Times(2 * msg.dx, total)
      here == HydroPlane(g, Opposite(f))
      mine(v) == IF v \in DOMAIN h THEN h[v] ELSE <<0, 0, 0, 0>>
  IN Trimmed([v \in DOMAIN h \cup here |->
       IF v \notin here THEN h[v]
       ELSE [k \in 1..4 |-> (lw * mine(v)[k] + rw * msg.plane[PlaceIn(g.n, a, v)][k]) % Prime]])
=============================================================================
