---------------------------- MODULE MCBoundaryP -----------------------------
(***************************************************************************)
(* Small boxes for BoundaryP.  A particle moves less than a cell along     *)
(* each axis in a time step (the Courant condition), so a track names each *)
(* axis once at most.                                                      *)
(***************************************************************************)
EXTENDS BoundaryP

Id(id, x, y) == [id |-> id, c |-> <<x, y, 1>>]
NoReflux == [f \in Face |-> {<<>>}]

(* Walls that reflux, tally and absorb, and one whose code names no        *)
(* boundary condition.                                                     *)
WallPbc == [f \in Face |-> CASE f \in {0, 1} -> -3 [] f = 4 -> -4
                             [] f \in {2, 3} -> absorb_particles [] OTHER -> -5]

(* Two ranks along x in a periodic box: both faces lead to the other rank. *)
RingDeck == [gn |-> <<4, 1, 1>>, gp |-> <<2, 1, 1>>, box |-> "periodic",
             pbc |-> WallPbc]
RingLoad == [r \in 0..1 |-> [s \in {1, 2} |->
  CASE r = 0 /\ s = 1 -> <<Id("a", 1, 1), Id("b", 2, 1), Id("c", 2, 1)>>
    [] r = 1 /\ s = 1 -> <<Id("d", 2, 1)>>
    [] r = 1 /\ s = 2 -> <<Id("e", 1, 1), Id("f", 2, 1)>>
    [] OTHER -> <<>>]]
RingTracks == [id \in {"a", "b", "c", "d", "e", "f"} |->
  IF id \in {"a", "e"} THEN {<<>>, <<0>>} ELSE {<<>>, <<3>>}]

(* Two by two ranks of one cell: a particle may have to cross two faces,   *)
(* through a third rank.                                                   *)
CornerDeck == [gn |-> <<2, 2, 1>>, gp |-> <<2, 2, 1>>, box |-> "metal",
               pbc |-> WallPbc]
CornerLoad == [r \in 0..3 |-> [s \in {1} |->
  CASE r = 0 -> <<Id("a", 1, 1)>> [] r = 3 -> <<Id("b", 1, 1)>> [] OTHER -> <<>>]]
CornerTracks == [id \in {"a", "b"} |->
  IF id = "a" THEN {<<3, 4>>, <<4, 3>>} ELSE {<<0, 1>>}]

(* Two ranks between the four kinds of wall.                               *)
WallDeck == [gn |-> <<2, 2, 2>>, gp |-> <<2, 1, 1>>, box |-> "absorbing", pbc |-> WallPbc]
WallLoad == [r \in 0..1 |-> [s \in {1} |->
  CASE r = 0 -> <<Id("a", 1, 1), Id("b", 1, 2)>> [] OTHER -> <<Id("c", 1, 2), Id("d", 1, 1)>>]]
WallTracks == [id \in {"a", "b", "c", "d"} |->
  CASE id = "a" -> {<<1, 3>>, <<0>>, <<3, 1>>} [] id = "b" -> {<<>>, <<3, 4>>, <<4>>, <<5, 3>>}
    [] id = "c" -> {<<0>>, <<4>>, <<3>>} [] OTHER -> {<<>>, <<2>>, <<5, 0>>, <<0, 1>>}]
WallRefluxed == [f \in Face |-> CASE f = 0 -> {<<>>, <<1>>, <<4>>}
                                  [] f = 1 -> {<<>>, <<0>>, <<3>>}
                                  [] OTHER -> {<<>>}]

MCSettings ==
  {[deck |-> RingDeck, pbcs |-> <<>>, sp_list |-> <<2, 1>>, load |-> RingLoad,
    tracks |-> RingTracks, refluxed |-> NoReflux, max_np |-> 3, max_nm |-> 3,
    min_np |-> 1, num_comm_round |-> 1],
   [deck |-> CornerDeck, pbcs |-> <<>>, sp_list |-> <<1>>, load |-> CornerLoad,
    tracks |-> CornerTracks, refluxed |-> NoReflux, max_np |-> 1, max_nm |-> 1,
    min_np |-> 1, num_comm_round |-> 2],
   [deck |-> WallDeck, pbcs |-> <<"reflux", "tally">>, sp_list |-> <<1>>, load |-> WallLoad,
    tracks |-> WallTracks, refluxed |-> WallRefluxed, max_np |-> 2, max_nm |-> 2,
    min_np |-> 1, num_comm_round |-> 2]}

(* The rounds of these boxes are enough, as theorem RoundsDeliver has it.  *)
ASSUME RoundsGiven == RoundsEnough
=============================================================================
