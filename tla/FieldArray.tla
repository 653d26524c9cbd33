----------------------------- MODULE FieldArray -----------------------------
(***************************************************************************)
(* The standard field array (field_advance/standard): the field components *)
(* of one rank on its staggered mesh, and the kernels that advance them.   *)
(*                                                                         *)
(* A field f is a record of components, each a tuple of arrays over the    *)
(* voxels of the local box and its ghosts: e, tca, cb and jf have one      *)
(* array for each axis, rhof, rhob, div_e_err and div_b_err one.           *)
(*                                                                         *)
(* A grid g is a record                                                    *)
(*   n             : cells along each axis                                 *)
(*   bc, neighbor  : the tables of module Grid                             *)
(*   rangel,rangeh : this rank's voxels in the neighbor table              *)
(*   fmat, emat    : material of each face and edge, by axis               *)
(*   nmat          : material of each node                                 *)
(*   mc            : coefficients of the materials, numbered from 0        *)
(*   one           : there is one material, so the vacuum kernels are used *)
(*   damp          : the damping of the radiation field                    *)
(*   P             : pipelines                                             *)
(*   lanes         : lanes of the vectors the build uses: 1, 4, 8 or 16    *)
(*   block         : voxels the pipelines take at a time, 16 in the code;  *)
(*                   fewer without vectors, so that a small box has blocks *)
(*                                                                         *)
(* The kernels are written for an axis a and the two that follow it around *)
(* x, y, z.  What the code writes as a loop nest is a box of voxels.       *)
(***************************************************************************)
EXTENDS Grid, Exact, Workload, FiniteSets, FiniteSetsExt

(* The cell size and the physical constants, as numbers (arbitrary ones).  *)
d == <<3, 5, 7>>
rd == <<Inv(3), Inv(5), Inv(7)>>
dt == 11
cvac == 13
eps0 == 17
dV == 105
r8V == Inv(8 * 105)
cdt == Times(cvac, dt)

Follow(a) == (a % 3) + 1
stride(n, a) == CASE a = 1 -> 1
                  [] a = 2 -> n[1] + 2
                  [] a = 3 -> (n[1] + 2) * (n[2] + 2)

(* The voxels whose coordinate is in ra along axis a, in rb and rc along   *)
(* the two that follow.                                                    *)
Box(n, a, ra, rb, rc) ==
  LET b == Follow(a)
      c == Follow(b)
  IN {stride(n, a) * i + stride(n, b) * j + stride(n, c) * k : i \in ra, j \in rb, k \in rc}

Overlay(array, values) ==
  [v \in DOMAIN array |-> IF v \in DOMAIN values THEN values[v] ELSE array[v]]

(* A thin axis, one cell thick, has no derivative.                         *)
Slope(g, a) == IF g.n[a] > 1 THEN rd[a] ELSE 0

(* The share of pipeline p in the voxels from lo to n, W at a time: what   *)
(* does not fill W lanes is left undone.                                   *)
Share(g, lo, W, p) ==
  LET len == [a \in 1..3 |-> g.n[a] - lo + 1]
      job == DISTRIBUTE_VOXELS(lo, len, g.block, p, g.P)
  IN {VOXEL(Walk(lo, len, job.first, k), g.n) : k \in 0..(W * (job.n \div W) - 1)}

EachAxis(kernel(_, _, _, _), g, f, box) ==
  FoldLeft(LAMBDA h, a : kernel(g, h, a, box), f, <<1, 2, 3>>)
(* The host's loops, axis by axis.                                         *)
EachLoop(kernel(_, _, _, _), loops(_, _), g, f) ==
  FoldLeft(LAMBDA h, a :
             FoldLeft(LAMBDA k, box : kernel(g, k, a, box), h, loops(g.n, a)),
           f, <<1, 2, 3>>)

(* new_standard_field_array and the clearing kernels                       *)
Zero(n) == [v \in 0..(nv(n) - 1) |-> 0]
CLEAR(n) ==
  LET three == [a \in 1..3 |-> Zero(n)]
      one   == <<Zero(n)>>
  IN [e |-> three, tca |-> three, cb |-> three, jf |-> three,
      rhof |-> one, rhob |-> one, div_e_err |-> one, div_b_err |-> one]

clear_jf(g, f) == [f EXCEPT !.jf = [a \in 1..3 |-> Zero(g.n)]]
clear_rhof(g, f) == [f EXCEPT !.rhof = <<Zero(g.n)>>]

(* create_sfa_params: the coefficients of a material.  The exponentials of *)
(* a conductor's decay are numbers of the instance.                        *)
material_coefficient(m) ==
  LET lossless == m.sigma = 0 IN
  [ decay |-> IF lossless THEN 1 ELSE m.decay,
    drive |-> IF lossless THEN [a \in 1..3 |-> Inv(m.eps[a])] ELSE m.drive,
    rmu   |-> [a \in 1..3 |-> Inv(m.mu[a])],
    eps   |-> m.eps,
    nonconductive |-> IF lossless THEN 1 ELSE 0 ]

-----------------------------------------------------------------------------
(* advance_b: cb -= frac c dt curl e, on the pipelines over the cells, on  *)
(* the host over the far faces.                                            *)
UPDATE_CB_Backward(g, f, frac, a, box) ==
  LET b  == Follow(a)
      c  == Follow(b)
      pb == Times(Times(frac, cdt), Slope(g, b))
      pc == Times(Times(frac, cdt), Slope(g, c))
      sb == stride(g.n, b)
      sc == stride(g.n, c)
  IN [f EXCEPT !.cb[a] = Overlay(@,
        [v \in box |-> (@[v] - pb * (f.e[c][v] - f.e[c][v - sb])
                             + pc * (f.e[b][v + sc] - f.e[b][v])) % Prime])]
UPDATE_CB(g, f, frac, a, box) ==
  LET b  == Follow(a)
      c  == Follow(b)
      pb == Times(Times(frac, cdt), Slope(g, b))
      pc == Times(Times(frac, cdt), Slope(g, c))
      sb == stride(g.n, b)
      sc == stride(g.n, c)
  IN [f EXCEPT !.cb[a] = Overlay(@,
        [v \in box |-> (@[v] - pb * (f.e[c][v + sb] - f.e[c][v])
                             + pc * (f.e[b][v + sc] - f.e[b][v])) % Prime])]

Cells(g) == Box(g.n, 1, 1..g.n[1], 1..g.n[2], 1..g.n[3])

advance_b_voxels(g, f, box) ==
  EachAxis(LAMBDA h, f1, a, b : UPDATE_CB(h, f1, Half, a, b), g, f, box)
advance_b_pipeline_scalar(g, f, p) == advance_b_voxels(g, f, Share(g, 1, 1, p))
advance_b_pipeline_v4(g, f, p)     == advance_b_voxels(g, f, Share(g, 1, 4, p))
advance_b_pipeline_v8(g, f, p)     == advance_b_voxels(g, f, Share(g, 1, 8, p))
advance_b_pipeline_v16(g, f, p)    == advance_b_voxels(g, f, Share(g, 1, 16, p))

advance_b_host(g, f) ==
  FoldLeft(LAMBDA h, a :
             LET n == g.n
                 b == Follow(a)
                 c == Follow(b)
             IN UPDATE_CB(g, h, Half, a, Box(n, a, {n[a] + 1}, 1..n[b], 1..n[c])),
           f, <<1, 2, 3>>)

-----------------------------------------------------------------------------
(* advance_e: the damped curl of b and the current drive e.                *)
UPDATE_E(g, f, a, box) ==
  LET b  == Follow(a)
      c  == Follow(b)
      pb == Times(Times(1 + g.damp, cdt), Slope(g, b))
      pc == Times(Times(1 + g.damp, cdt), Slope(g, c))
      h(i, v) == Times(f.cb[i][v], g.mc[g.fmat[i][v]].rmu[i])
      cj == Times(dt, Inv(eps0))
      tca == [v \in box |->
               (pb * (h(c, v) - h(c, v - stride(g.n, b))) - pc * (h(b, v) - h(b, v - stride(g.n, c)))
                  - g.damp * f.tca[a][v]) % Prime]
      e == [v \in box |->
             LET m == g.mc[g.emat[a][v]] IN
             (m.decay * f.e[a][v] + m.drive[a] * ((tca[v] - cj * f.jf[a][v]) % Prime)) % Prime]
  IN [f EXCEPT !.tca[a] = Overlay(@, tca), !.e[a] = Overlay(@, e)]

(* With one material its coefficients are taken out of the loops.          *)
vacuum_UPDATE_E(g, f, a, box) ==
  LET b  == Follow(a)
      c  == Follow(b)
      m  == g.mc[0]
      pb_mu == Times(Times(Times(1 + g.damp, cdt), Slope(g, b)), m.rmu[c])
      pc_mu == Times(Times(Times(1 + g.damp, cdt), Slope(g, c)), m.rmu[b])
      cj == Times(dt, Inv(eps0))
      tca == [v \in box |->
               (pb_mu * (f.cb[c][v] - f.cb[c][v - stride(g.n, b)])
                  - pc_mu * (f.cb[b][v] - f.cb[b][v - stride(g.n, c)])
                  - g.damp * f.tca[a][v]) % Prime]
      e == [v \in box |->
             (m.decay * f.e[a][v] + m.drive[a] * ((tca[v] - cj * f.jf[a][v]) % Prime)) % Prime]
  IN [f EXCEPT !.tca[a] = Overlay(@, tca), !.e[a] = Overlay(@, e)]

(* The loops over the edges along a: those the pipelines do, those left    *)
(* over inside, and those whose stencil reaches a ghost.                   *)
Inner(n) == Box(n, 1, 2..n[1], 2..n[2], 2..n[3])
InnerLeftOver(n, a) ==
  LET b == Follow(a)
      c == Follow(b)
  IN << Box(n, a, {1}, 2..n[b], 2..n[c]) >>
ExteriorLoops(n, a) ==
  LET b == Follow(a)
      c == Follow(b)
  IN << Box(n, a, 1..n[a], 1..(n[b] + 1), {1}),
        Box(n, a, 1..n[a], 1..(n[b] + 1), {n[c] + 1}),
        Box(n, a, 1..n[a], {1}, 2..n[c]),
        Box(n, a, 1..n[a], {n[b] + 1}, 2..n[c]) >>

advance_e_pipeline_scalar(g, f, p) == EachAxis(UPDATE_E, g, f, Share(g, 2, 1, p))
advance_e_pipeline_v4(g, f, p)      == EachAxis(UPDATE_E, g, f, Share(g, 2, 4, p))
advance_e_pipeline_v8(g, f, p)      == EachAxis(UPDATE_E, g, f, Share(g, 2, 8, p))
advance_e_pipeline_v16(g, f, p)     == EachAxis(UPDATE_E, g, f, Share(g, 2, 16, p))
vacuum_advance_e_pipeline_scalar(g, f, p) == EachAxis(vacuum_UPDATE_E, g, f, Share(g, 2, 1, p))
vacuum_advance_e_pipeline_v4(g, f, p)      == EachAxis(vacuum_UPDATE_E, g, f, Share(g, 2, 4, p))
vacuum_advance_e_pipeline_v8(g, f, p)      == EachAxis(vacuum_UPDATE_E, g, f, Share(g, 2, 8, p))
vacuum_advance_e_pipeline_v16(g, f, p)     == EachAxis(vacuum_UPDATE_E, g, f, Share(g, 2, 16, p))

advance_e_host(g, f)              == EachLoop(UPDATE_E, InnerLeftOver, g, f)
advance_e_exterior(g, f)          == EachLoop(UPDATE_E, ExteriorLoops, g, f)
vacuum_advance_e_host(g, f)       == EachLoop(vacuum_UPDATE_E, InnerLeftOver, g, f)
vacuum_advance_e_exterior(g, f)   == EachLoop(vacuum_UPDATE_E, ExteriorLoops, g, f)

-----------------------------------------------------------------------------
(* compute_curl_b: the undamped curl, over the same loops.                 *)
UPDATE_TCA(g, f, a, box) ==
  LET b  == Follow(a)
      c  == Follow(b)
      pb == Times(cdt, Slope(g, b))
      pc == Times(cdt, Slope(g, c))
      h(i, v) == Times(f.cb[i][v], g.mc[g.fmat[i][v]].rmu[i])
  IN [f EXCEPT !.tca[a] = Overlay(@,
        [v \in box |-> (pb * (h(c, v) - h(c, v - stride(g.n, b)))
                          - pc * (h(b, v) - h(b, v - stride(g.n, c)))) % Prime])]
vacuum_UPDATE_TCA(g, f, a, box) ==
  LET b  == Follow(a)
      c  == Follow(b)
      pb_mu == Times(Times(cdt, Slope(g, b)), g.mc[0].rmu[c])
      pc_mu == Times(Times(cdt, Slope(g, c)), g.mc[0].rmu[b])
  IN [f EXCEPT !.tca[a] = Overlay(@,
        [v \in box |-> (pb_mu * (f.cb[c][v] - f.cb[c][v - stride(g.n, b)])
                          - pc_mu * (f.cb[b][v] - f.cb[b][v - stride(g.n, c)])) % Prime])]

compute_curl_b_pipeline_scalar(g, f, p) == EachAxis(UPDATE_TCA, g, f, Share(g, 2, 1, p))
compute_curl_b_pipeline_v4(g, f, p)      == EachAxis(UPDATE_TCA, g, f, Share(g, 2, 4, p))
compute_curl_b_pipeline_v8(g, f, p)      == EachAxis(UPDATE_TCA, g, f, Share(g, 2, 8, p))
compute_curl_b_pipeline_v16(g, f, p)     == EachAxis(UPDATE_TCA, g, f, Share(g, 2, 16, p))
vacuum_compute_curl_b_pipeline_scalar(g, f, p) == EachAxis(vacuum_UPDATE_TCA, g, f, Share(g, 2, 1, p))
vacuum_compute_curl_b_pipeline_v4(g, f, p)      == EachAxis(vacuum_UPDATE_TCA, g, f, Share(g, 2, 4, p))
vacuum_compute_curl_b_pipeline_v8(g, f, p)      == EachAxis(vacuum_UPDATE_TCA, g, f, Share(g, 2, 8, p))
vacuum_compute_curl_b_pipeline_v16(g, f, p)     == EachAxis(vacuum_UPDATE_TCA, g, f, Share(g, 2, 16, p))
compute_curl_b_host(g, f)            == EachLoop(UPDATE_TCA, InnerLeftOver, g, f)
compute_curl_b_exterior(g, f)        == EachLoop(UPDATE_TCA, ExteriorLoops, g, f)
vacuum_compute_curl_b_host(g, f)     == EachLoop(vacuum_UPDATE_TCA, InnerLeftOver, g, f)
vacuum_compute_curl_b_exterior(g, f) == EachLoop(vacuum_UPDATE_TCA, ExteriorLoops, g, f)

-----------------------------------------------------------------------------
(* compute_div_e_err and compute_rhob: the divergence of eps e at the      *)
(* nodes, less the charge.                                                 *)
div_eps_e(g, f, v) ==
  LET eps_e(a, w) == Times(g.mc[g.emat[a][w]].eps[a], f.e[a][w])
  IN FoldLeft(LAMBDA sum, a : sum + Slope(g, a) * (eps_e(a, v) - eps_e(a, v - stride(g.n, a))),
              0, <<1, 2, 3>>) % Prime
vacuum_div_eps_e(g, f, v) ==
  FoldLeft(LAMBDA sum, a : sum + Times(Slope(g, a), g.mc[0].eps[a])
                                   * (f.e[a][v] - f.e[a][v - stride(g.n, a)]),
           0, <<1, 2, 3>>) % Prime

UPDATE_DERR_E(g, f, box) ==
  [f EXCEPT !.div_e_err[1] = Overlay(@,
     [v \in box |-> Times(g.mc[g.nmat[v]].nonconductive,
                          div_eps_e(g, f, v) - Inv(eps0) * ((f.rhof[1][v] + f.rhob[1][v]) % Prime))])]
vacuum_UPDATE_DERR_E(g, f, box) ==
  [f EXCEPT !.div_e_err[1] = Overlay(@,
     [v \in box |-> Times(g.mc[0].nonconductive,
                          vacuum_div_eps_e(g, f, v)
                            - Inv(eps0) * ((f.rhof[1][v] + f.rhob[1][v]) % Prime))])]
compute_div_e_err_pipeline_scalar(g, f, p) == UPDATE_DERR_E(g, f, Share(g, 2, 1, p))
vacuum_compute_div_e_err_pipeline_scalar(g, f, p) == vacuum_UPDATE_DERR_E(g, f, Share(g, 2, 1, p))

(* z faces with their edges and corners, y faces, x faces                  *)
ExteriorNodes(n) ==
  {VOXEL(<<x, y, z>>, n) : x \in 1..(n[1] + 1), y \in 1..(n[2] + 1), z \in {1, n[3] + 1}}
    \cup {VOXEL(<<x, y, z>>, n) : x \in 1..(n[1] + 1), y \in {1, n[2] + 1}, z \in 2..n[3]}
    \cup {VOXEL(<<x, y, z>>, n) : x \in {1, n[1] + 1}, y \in 2..n[2], z \in 2..n[3]}
compute_div_e_err_exterior(g, f)        == UPDATE_DERR_E(g, f, ExteriorNodes(g.n))
vacuum_compute_div_e_err_exterior(g, f) == vacuum_UPDATE_DERR_E(g, f, ExteriorNodes(g.n))

UPDATE_RHOB(g, f, box) ==
  [f EXCEPT !.rhob[1] = Overlay(@,
     [v \in box |-> Times(g.mc[g.nmat[v]].nonconductive,
                          eps0 * div_eps_e(g, f, v) - f.rhof[1][v])])]
vacuum_UPDATE_RHOB(g, f, box) ==
  [f EXCEPT !.rhob[1] = Overlay(@,
     [v \in box |-> Times(g.mc[0].nonconductive,
                          eps0 * vacuum_div_eps_e(g, f, v) - f.rhof[1][v])])]
compute_rhob_pipeline_scalar(g, f, p) == UPDATE_RHOB(g, f, Share(g, 2, 1, p))
vacuum_compute_rhob_pipeline_scalar(g, f, p) == vacuum_UPDATE_RHOB(g, f, Share(g, 2, 1, p))
compute_rhob_exterior(g, f)        == UPDATE_RHOB(g, f, ExteriorNodes(g.n))
vacuum_compute_rhob_exterior(g, f) == vacuum_UPDATE_RHOB(g, f, ExteriorNodes(g.n))

(* clean_div_e: a Marder pass; e along a on the pipelines over the cells,  *)
(* on the host over the far edges.                                         *)
alphadt(g) == LET square(a) == Times(Slope(g, a), Slope(g, a))
              IN Times(Times(7, Inv(18)), Inv((square(1) + square(2) + square(3)) % Prime))

MARDER_E(g, f, a, box) ==
  LET p == Times(alphadt(g), Slope(g, a)) IN
  [f EXCEPT !.e[a] = Overlay(@,
     [v \in box |-> (@[v] + Times(g.mc[g.emat[a][v]].drive[a], p)
                              * (f.div_e_err[1][v + stride(g.n, a)] - f.div_e_err[1][v])) % Prime])]
vacuum_MARDER_E(g, f, a, box) ==
  LET p == Times(Times(alphadt(g), Slope(g, a)), g.mc[0].drive[a]) IN
  [f EXCEPT !.e[a] = Overlay(@,
     [v \in box |-> (@[v] + p * (f.div_e_err[1][v + stride(g.n, a)] - f.div_e_err[1][v])) % Prime])]

FarLoops(n, a) ==
  LET b == Follow(a)
      c == Follow(b)
  IN << Box(n, a, 1..n[a], 1..(n[b] + 1), {n[c] + 1}),
        Box(n, a, 1..n[a], {n[b] + 1}, 1..n[c]) >>

clean_div_e_pipeline_scalar(g, f, p) == EachAxis(MARDER_E, g, f, Share(g, 1, 1, p))
vacuum_clean_div_e_pipeline_scalar(g, f, p) == EachAxis(vacuum_MARDER_E, g, f, Share(g, 1, 1, p))
clean_div_e_host(g, f)        == EachLoop(MARDER_E, FarLoops, g, f)
vacuum_clean_div_e_host(g, f) == EachLoop(vacuum_MARDER_E, FarLoops, g, f)

-----------------------------------------------------------------------------
(* compute_div_b_err and clean_div_b                                       *)
compute_div_b_err_pipeline_scalar(g, f, p) ==
  [f EXCEPT !.div_b_err[1] = Overlay(@,
     [v \in Share(g, 1, 1, p) |->
        FoldLeft(LAMBDA sum, a : sum + Slope(g, a) * (f.cb[a][v + stride(g.n, a)] - f.cb[a][v]),
                 0, <<1, 2, 3>>) % Prime])]

MARDER_CB(g, f, a, box) ==
  LET p == Times(alphadt(g), Slope(g, a)) IN
  [f EXCEPT !.cb[a] = Overlay(@,
     [v \in box |-> (@[v] + p * (f.div_b_err[1][v] - f.div_b_err[1][v - stride(g.n, a)])) % Prime])]

LeftOverFaces(n, a) ==
  LET b == Follow(a)
      c == Follow(b)
  IN << Box(n, a, 2..n[a], 1..n[b], {1}), Box(n, a, 2..n[a], {1}, 2..n[c]) >>
OuterFaces(n, a) ==
  LET b == Follow(a)
      c == Follow(b)
  IN << Box(n, a, {1}, 1..n[b], 1..n[c]), Box(n, a, {n[a] + 1}, 1..n[b], 1..n[c]) >>

clean_div_b_pipeline_scalar(g, f, p) == EachAxis(MARDER_CB, g, f, Share(g, 2, 1, p))
clean_div_b_pipeline_v4(g, f, p)      == EachAxis(MARDER_CB, g, f, Share(g, 2, 4, p))
clean_div_b_pipeline_v8(g, f, p)      == EachAxis(MARDER_CB, g, f, Share(g, 2, 8, p))
clean_div_b_pipeline_v16(g, f, p)     == EachAxis(MARDER_CB, g, f, Share(g, 2, 16, p))
clean_div_b_host(g, f)        == EachLoop(MARDER_CB, LeftOverFaces, g, f)
clean_div_b_exterior(g, f)    == EachLoop(MARDER_CB, OuterFaces, g, f)

-----------------------------------------------------------------------------
(* The local part of the sums over the box: each node counts for the share *)
(* of it that lies in this rank's cells.                                   *)
SumOver(S, value(_)) == FoldSet(LAMBDA v, sum : (sum + value(v)) % Prime, 0, S)

Nodes(n) == Box(n, 1, 1..(n[1] + 1), 1..(n[2] + 1), 1..(n[3] + 1))
OnOuterPlane(n, v) ==
  Cardinality({a \in 1..3 : Coord(v, n)[a] \in {1, n[a] + 1}})
NodeShare(n, v) == CASE OnOuterPlane(n, v) = 0 -> 1
                     [] OnOuterPlane(n, v) = 1 -> Half
                     [] OnOuterPlane(n, v) = 2 -> Times(Half, Half)
                     [] OnOuterPlane(n, v) = 3 -> Times(Half, Times(Half, Half))

SumUp(sums) == FoldLeft(LAMBDA s, t : [i \in DOMAIN s |-> (s[i] + t[i]) % Prime], sums[1], Tail(sums))
OverPipelines(g, sum(_)) == SumUp([p \in 1..(g.P + 1) |-> sum(p - 1)])

(* The square of what is left over, and the volume it is averaged over.    *)
compute_rms_div_e_err_pipeline_scalar(g, f, p) ==
  << SumOver(Share(g, 2, 1, p), LAMBDA v : Times(f.div_e_err[1][v], f.div_e_err[1][v])) >>
compute_rms_div_e_err(g, f) ==
  LET exterior == SumOver(ExteriorNodes(g.n), LAMBDA v :
                    Times(NodeShare(g.n, v), Times(f.div_e_err[1][v], f.div_e_err[1][v])))
      interior == OverPipelines(g, LAMBDA p : compute_rms_div_e_err_pipeline_scalar(g, f, p))
  IN << Times(dV, exterior + interior[1]), (Volume(g.n) * dV) % Prime >>
compute_rms_div_b_err_pipeline_scalar(g, f, p) ==
  << SumOver(Share(g, 1, 1, p), LAMBDA v : Times(f.div_b_err[1][v], f.div_b_err[1][v])) >>
compute_rms_div_b_err(g, f) ==
  LET err == OverPipelines(g, LAMBDA p : compute_rms_div_b_err_pipeline_scalar(g, f, p))
  IN << Times(dV, err[1]), (Volume(g.n) * dV) % Prime >>

(* energy_f: over the cells, the mean over a cell's four edges along a of  *)
(* eps e e, and over its two faces across a of cb cb / mu.                 *)
REDUCE_EN(g, f, a, v) ==
  LET eps_ee(w) == Times(g.mc[g.emat[a][w]].eps[a], Times(f.e[a][w], f.e[a][w]))
      bb_mu(w)  == Times(g.mc[g.fmat[a][w]].rmu[a], Times(f.cb[a][w], f.cb[a][w]))
      sb == stride(g.n, Follow(a))
      sc == stride(g.n, Follow(Follow(a)))
  IN [ e |-> Times(Times(Half, Half), eps_ee(v) + eps_ee(v + sb) + eps_ee(v + sc) + eps_ee(v + sb + sc)),
       b |-> Times(Half, bb_mu(v) + bb_mu(v + stride(g.n, a))) ]
vacuum_REDUCE_EN(g, f, a, v) ==
  LET ee(w) == Times(f.e[a][w], f.e[a][w])
      bb(w) == Times(f.cb[a][w], f.cb[a][w])
      sb == stride(g.n, Follow(a))
      sc == stride(g.n, Follow(Follow(a)))
  IN [ e |-> Times(Times(Times(Half, Half), g.mc[0].eps[a]), ee(v) + ee(v + sb) + ee(v + sc) + ee(v + sb + sc)),
       b |-> Times(Times(Half, g.mc[0].rmu[a]), bb(v) + bb(v + stride(g.n, a))) ]
energy_f_pipeline_scalar(g, f, p) ==
  LET S == Share(g, 1, 1, p) IN
  [a \in 1..6 |-> SumOver(S, LAMBDA v : IF a < 4 THEN REDUCE_EN(g, f, a, v).e
                                                 ELSE REDUCE_EN(g, f, a - 3, v).b)]
vacuum_energy_f_pipeline_scalar(g, f, p) ==
  LET S == Share(g, 1, 1, p) IN
  [a \in 1..6 |-> SumOver(S, LAMBDA v : IF a < 4 THEN vacuum_REDUCE_EN(g, f, a, v).e
                                                 ELSE vacuum_REDUCE_EN(g, f, a - 3, v).b)]
v0 == Times(Half, Times(eps0, dV))
energy_f(g, f) ==
  LET en == OverPipelines(g, LAMBDA p : energy_f_pipeline_scalar(g, f, p))
  IN [a \in 1..6 |-> Times(v0, en[a])]
vacuum_energy_f(g, f) ==
  LET en == OverPipelines(g, LAMBDA p : vacuum_energy_f_pipeline_scalar(g, f, p))
  IN [a \in 1..6 |-> Times(v0, en[a])]

-----------------------------------------------------------------------------
(* EXEC_PIPELINES: the variant of a kernel that the pipelines run; the     *)
(* host does the scalar one, as pipeline P.                                *)
Chosen(lanes, scalar, v4, v8, v16) ==
  CASE lanes = 1 -> scalar [] lanes = 4 -> v4 [] lanes = 8 -> v8 [] lanes = 16 -> v16
Pipeline(k, g, f, p, lanes) ==
  CASE k = "advance_b" ->
         Chosen(lanes, advance_b_pipeline_scalar(g, f, p), advance_b_pipeline_v4(g, f, p),
                advance_b_pipeline_v8(g, f, p), advance_b_pipeline_v16(g, f, p))
    [] k = "advance_e" /\ g.one ->
         Chosen(lanes, vacuum_advance_e_pipeline_scalar(g, f, p), vacuum_advance_e_pipeline_v4(g, f, p),
                vacuum_advance_e_pipeline_v8(g, f, p), vacuum_advance_e_pipeline_v16(g, f, p))
    [] k = "advance_e" /\ ~g.one ->
         Chosen(lanes, advance_e_pipeline_scalar(g, f, p), advance_e_pipeline_v4(g, f, p),
                advance_e_pipeline_v8(g, f, p), advance_e_pipeline_v16(g, f, p))
    [] k = "compute_curl_b" /\ g.one ->
         Chosen(lanes, vacuum_compute_curl_b_pipeline_scalar(g, f, p),
                vacuum_compute_curl_b_pipeline_v4(g, f, p), vacuum_compute_curl_b_pipeline_v8(g, f, p),
                vacuum_compute_curl_b_pipeline_v16(g, f, p))
    [] k = "compute_curl_b" /\ ~g.one ->
         Chosen(lanes, compute_curl_b_pipeline_scalar(g, f, p), compute_curl_b_pipeline_v4(g, f, p),
                compute_curl_b_pipeline_v8(g, f, p), compute_curl_b_pipeline_v16(g, f, p))
    [] k = "clean_div_b" ->
         Chosen(lanes, clean_div_b_pipeline_scalar(g, f, p), clean_div_b_pipeline_v4(g, f, p),
                clean_div_b_pipeline_v8(g, f, p), clean_div_b_pipeline_v16(g, f, p))
    [] k = "compute_rhob" ->
         IF g.one THEN vacuum_compute_rhob_pipeline_scalar(g, f, p)
                  ELSE compute_rhob_pipeline_scalar(g, f, p)
    [] k = "compute_div_e_err" ->
         IF g.one THEN vacuum_compute_div_e_err_pipeline_scalar(g, f, p)
                  ELSE compute_div_e_err_pipeline_scalar(g, f, p)
    [] k = "clean_div_e" ->
         IF g.one THEN vacuum_clean_div_e_pipeline_scalar(g, f, p)
                  ELSE clean_div_e_pipeline_scalar(g, f, p)
    [] k = "compute_div_b_err" -> compute_div_b_err_pipeline_scalar(g, f, p)
=============================================================================
