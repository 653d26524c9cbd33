---------------------------- MODULE MCParticles -----------------------------
(* Settings of the particle lists, small in what each does not vary.       *)
EXTENDS Particles

At(v, n) == [i \in 1 .. n |-> v[((i - 1) % Len(v)) + 1]]
Sp(max_np, max_nm, interval) ==
  [max_np |-> max_np, max_nm |-> max_nm, sort_interval |-> interval]
Still == [leave |-> {}, cross |-> {}, face |-> 0]
Op(kind, i, j, interval) == [kind |-> kind, i |-> i, j |-> j, interval |-> interval]

Base ==
  [n |-> <<2, 2, 1>>, P |-> 2, lanes |-> 1, PBUF_SIZE |-> 16, legacy |-> FALSE,
   out_of_place |-> FALSE, species |-> <<Sp(64, 64, 1)>>, at |-> {<< <<21>> >>},
   loaded |-> <<1>>, motions |-> {Still}, ops |-> <<>>, draws |-> {0},
   inject |-> {}, newId |-> 100]

(* 21, 22, 25 and 26 are the voxels of a box of 2 by 2.                    *)
Somewhere(n, vs) == {<<f>> : f \in [1 .. n -> vs]}

(* Sorts by 1, 2, 4 and 5 ranks and by the legacy sort, every placement.   *)
Sorts ==
  {[Base EXCEPT !.P = P, !.at = Somewhere(4, {21, 25, 26}), !.loaded = <<4>>,
      !.motions = {[leave |-> {}, cross |-> {2}, face |-> 0]}] : P \in {1, 2}} \cup
  {[Base EXCEPT !.P = P, !.at = Somewhere(3, {22, 26}), !.loaded = <<3>>] :
     P \in {4, 5}} \cup
  {[Base EXCEPT !.legacy = TRUE, !.out_of_place = b, !.at = Somewhere(4, {21, 25, 26}),
      !.loaded = <<4>>] : b \in BOOLEAN}

(* Collisions within and between species, sorted by the operators alone.   *)
(* A draw picks the first or the last particle of a voxel, or, being the   *)
(* largest, is drawn again.                                                *)
Collisions ==
  {[Base EXCEPT !.P = c[1], !.species = <<Sp(8, 8, 0), Sp(8, 8, 0)>>,
      !.at = {<<At(a, 7), At(b, 3)>> : a \in {<<21>>, <<21, 26>>, <<26, 21, 25>>},
                                       b \in {<<21>>, <<26, 21>>}},
      !.loaded = <<7, 3>>, !.draws = {c[2], UINT_MAX},
      !.motions = {[leave |-> {}, cross |-> {1, 4}, face |-> 0]},
      !.ops = <<Op("takizuka_abe", 1, 1, 1), Op("takizuka_abe", 1, 2, 2),
                Op("unary", 1, 1, 1), Op("takizuka_abe", 2, 1, 1),
                Op("binary", 1, 2, 1)>>] :
     c \in {1, 3} \X {0, UINT_MAX - UINT_MAX \div 10}}

(* Kernels of every width, segments of the mover list full, injection.     *)
Kernels ==
  {[Base EXCEPT !.P = c[1], !.lanes = c[2], !.species = <<Sp(c[3] + 1, c[4], 0)>>,
      !.at = {<<At(<<21, 26, 22>>, c[3])>>}, !.loaded = <<c[3]>>,
      !.inject = c[5],
      !.motions = {Still, [leave |-> {1, 2, 30, c[3]}, cross |-> {5, 6}, face |-> 2],
                   [leave |-> 1 .. c[3], cross |-> {}, face |-> 5]}] :
     c \in {<<2, 1, 37, 24, {25}>>, <<2, 4, 37, 37, {}>>, <<2, 8, 53, 30, {25}>>,
            <<3, 16, 50, 80, {25}>>, <<1, 16, 15, 15, {}>>}}

MCDecks == Sorts \cup Collisions \cup Kernels

(* A mover list that the advance fills, and an aged particle after it.     *)
MoverDecks ==
  {[Base EXCEPT !.species = <<Sp(4, 2, 0)>>, !.at = {<<At(<<21, 26>>, 2)>>},
      !.loaded = <<2>>, !.inject = {22},
      !.motions = {Still, [leave |-> {1, 2}, cross |-> {}, face |-> 1]}]}
=============================================================================
