-------------------------------- MODULE Grid --------------------------------
(***************************************************************************)
(* The decomposition of a box over the ranks (grid/partition.cc and        *)
(* grid/ops.cc): what each rank's bc and neighbor tables hold once the     *)
(* deck has called one of the partition functions.  Everything is computed *)
(* rank by rank, as the code does, from the rank's own number: that the    *)
(* tables of different ranks agree is what there is to check.              *)
(*                                                                         *)
(* A deck is a record                                                      *)
(*   gn, gp : cells and ranks along each axis, triples                     *)
(*   box    : "periodic", "absorbing" or "metal"                           *)
(*   pbc    : particle boundary condition (negative) of each face of an    *)
(*            absorbing box: the one the box is partitioned with, or the   *)
(*            one set_domain_particle_bc gives that face afterwards        *)
(* Only the six face entries of bc are kept, indexed by face 0..5          *)
(* (-x -y -z +x +y +z): the partition functions set no edge or corner.     *)
(***************************************************************************)
EXTENDS Integers, Sequences, SequencesExt

Face == 0..5
Axis(f) == (f % 3) + 1
Dir(f) == IF f < 3 THEN -1 ELSE 1
Opposite(f) == (f + 3) % 6

reflect_particles == -1
absorb_particles == -2
anti_symmetric_fields == -1
absorb_fields == -4

Volume(n) == n[1] * n[2] * n[3]
Ranks(d) == 0..(Volume(d.gp) - 1)
LocalSize(d) == [a \in 1..3 |-> d.gn[a] \div d.gp[a]]

(* A deck whose ranks have equal boxes of whole cells.                     *)
Triple == [1..3 -> Nat \ {0}]
WellFormed(d) ==
  /\ d.gp \in Triple /\ LocalSize(d) \in Triple
  /\ \A a \in 1..3 : d.gn[a] = LocalSize(d)[a] * d.gp[a]
  /\ d.box \in {"periodic", "absorbing", "metal"}
  /\ \A f \in Face : d.pbc[f] \in Int /\ d.pbc[f] < 0

(* Voxels are numbered over the local box and its layer of ghosts.         *)
nv(n) == (n[1] + 2) * (n[2] + 2) * (n[3] + 2)
VOXEL(c, n) == c[1] + (n[1] + 2) * (c[2] + (n[2] + 2) * c[3])
Coord(v, n) == <<v % (n[1] + 2),
                 (v \div (n[1] + 2)) % (n[2] + 2),
                 v \div ((n[1] + 2) * (n[2] + 2))>>
Interior(c, n) == \A a \in 1..3 : c[a] \in 1..n[a]
Edge(f, n) == IF Dir(f) < 0 THEN 1 ELSE n[Axis(f)]
OnFace(c, f, n) == Interior(c, n) /\ c[Axis(f)] = Edge(f, n)

(* The ranks' index boxes, wrapped periodically.                           *)
RankIndex(rank, gp) == <<rank % gp[1], (rank \div gp[1]) % gp[2],
                         rank \div (gp[1] * gp[2])>>
IndexRank_NotWrapped(p, gp) == p[1] + gp[1] * (p[2] + gp[2] * p[3])
IndexRank(p, gp) ==
  (p[1] % gp[1]) + gp[1] * ((p[2] % gp[2]) + gp[2] * (p[3] % gp[3]))
Beside_Forward(rank, f, gp) ==
  IndexRank([RankIndex(rank, gp) EXCEPT ![Axis(f)] = @ + 1], gp)
Beside(rank, f, gp) ==
  IndexRank([RankIndex(rank, gp) EXCEPT ![Axis(f)] = @ + Dir(f)], gp)

-----------------------------------------------------------------------------
(* size_grid: the gathered nv of every rank become the ranges of voxels    *)
(* they own, and every face of the local box reflects.                     *)
range(d, rank) == rank * nv(LocalSize(d))

SizeGrid(d, rank) ==
  LET n == LocalSize(d) IN
  [ bc |-> [f \in Face |-> anti_symmetric_fields],
    neighbor |-> [v \in 0..(nv(n) - 1) |-> [f \in Face |->
      LET c == Coord(v, n) IN
      IF ~Interior(c, n) \/ OnFace(c, f, n) THEN reflect_particles
      ELSE range(d, rank) + VOXEL([c EXCEPT ![Axis(f)] = @ + Dir(f)], n)]] ]

(* What lies across face f of the cells beside it becomes value[voxel].    *)
SetFace(g, d, f, value) ==
  LET n == LocalSize(d) IN
  [g EXCEPT !.neighbor =
     [v \in DOMAIN @ |-> IF OnFace(Coord(v, n), f, n)
                         THEN [@[v] EXCEPT ![f] = value[v]] ELSE @[v]]]

(* join_grid: the cells across the face are the other rank's cells on its  *)
(* opposite face; the extent of the other rank is worked out from its nv.  *)
RemoteEdge_Mine(f, n, rn) == Edge(f, n)
RemoteEdge(f, n, rn) == IF Dir(f) < 0 THEN rn ELSE 1

JoinGrid(g, d, f, rank) ==
  LET n   == LocalSize(d)
      rnc == range(d, rank + 1) - range(d, rank)
      rn  == (rnc \div (nv(n) \div (n[Axis(f)] + 2))) - 2
  IN [SetFace(g, d, f,
        [v \in DOMAIN g.neighbor |->
           range(d, rank) + VOXEL([Coord(v, n) EXCEPT ![Axis(f)] = RemoteEdge(f, n, rn)],
                                  [n EXCEPT ![Axis(f)] = rn])])
      EXCEPT !.bc[f] = rank]

(* set_fbc and set_pbc                                                     *)
SetBoundary(g, d, f, fbc, pbc) ==
  [SetFace(g, d, f, [v \in DOMAIN g.neighbor |-> pbc]) EXCEPT !.bc[f] = fbc]

-----------------------------------------------------------------------------
PartitionPeriodicBox(d, rank) ==
  LET join(g, f) == JoinGrid(g, d, f, Beside(rank, f, d.gp))
  IN join(join(join(join(join(join(SizeGrid(d, rank), 0), 1), 2), 3), 4), 5)

(* The faces of the global box, where the box has a thickness.             *)
Outer(d, rank, f) ==
  /\ RankIndex(rank, d.gp)[Axis(f)] = IF Dir(f) < 0 THEN 0 ELSE d.gp[Axis(f)] - 1
  /\ d.gn[Axis(f)] > 1

PartitionWalledBox(d, rank, fbc, pbc) ==
  LET wall(g, f) == IF Outer(d, rank, f) THEN SetBoundary(g, d, f, fbc, pbc[f]) ELSE g
  IN wall(wall(wall(wall(wall(wall(PartitionPeriodicBox(d, rank), 0), 3), 1), 4), 2), 5)

Partition(d, rank) ==
  CASE d.box = "periodic"  -> PartitionPeriodicBox(d, rank)
    [] d.box = "absorbing" -> PartitionWalledBox(d, rank, absorb_fields, d.pbc)
    [] d.box = "metal"     -> PartitionWalledBox(d, rank, anti_symmetric_fields,
                                                 [f \in Face |-> reflect_particles])

(* The tables of every rank.                                               *)
GridOf(d) == [rank \in Ranks(d) |-> Partition(d, rank)]

-----------------------------------------------------------------------------
(* The undivided box, for reference: cells have global coordinates from 1, *)
(* and crossing a face leads to the next cell, around the box, or to the   *)
(* wall.                                                                   *)
Wall(d, f) == IF d.box = "absorbing" THEN d.pbc[f] ELSE reflect_particles

GlobalCoord(d, rank, c) ==
  [a \in 1..3 |-> RankIndex(rank, d.gp)[a] * LocalSize(d)[a] + c[a]]
Owner(d, x) ==
  IndexRank([a \in 1..3 |-> (x[a] - 1) \div LocalSize(d)[a]], d.gp)
GlobalVoxel(d, x) ==
  LET n == LocalSize(d) IN
  range(d, Owner(d, x)) + VOXEL([a \in 1..3 |-> ((x[a] - 1) % n[a]) + 1], n)

AtWall(d, x, f) ==
  /\ d.box # "periodic"
  /\ d.gn[Axis(f)] > 1
  /\ x[Axis(f)] = Edge(f, d.gn)
Across(d, x, f) ==
  [x EXCEPT ![Axis(f)] = ((@ - 1 + Dir(f)) % d.gn[Axis(f)]) + 1]
=============================================================================
