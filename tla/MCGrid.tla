------------------------------- MODULE MCGrid -------------------------------
(***************************************************************************)
(* Every deck of a few cells, each a state: the tables that the ranks work *)
(* out separately are compared with the undivided box and with each other. *)
(***************************************************************************)
EXTENDS Grid, FiniteSets, TLC

CONSTANTS
  PerRank,      (* cells per rank along an axis                            *)
  Splits,       (* ranks along an axis                                     *)
  MaxRanks      (* bound on the number of ranks                            *)

ASSUME MCGridAssumption == PerRank \subseteq Nat \ {0} /\ Splits \subseteq Nat \ {0}

VARIABLES deck, grid

Triples(S) == {<<x, y, z>> : x \in S, y \in S, z \in S}
Pbc == [f \in Face |-> absorb_particles - f]
Decks ==
  {[gn |-> [a \in 1..3 |-> n[a] * p[a]], gp |-> p, box |-> b, pbc |-> Pbc] :
     n \in Triples(PerRank), p \in {q \in Triples(Splits) : Volume(q) <= MaxRanks},
     b \in {"periodic", "absorbing", "metal"}}

Init == deck \in Decks /\ grid = GridOf(deck)
Next == UNCHANGED <<deck, grid>>
Spec == Init /\ [][Next]_<<deck, grid>>

Cells ==
  LET n == LocalSize(deck) IN {<<x, y, z>> : x \in 1..n[1], y \in 1..n[2], z \in 1..n[3]}
Across1(rank, c, f) == grid[rank].neighbor[VOXEL(c, LocalSize(deck))][f]

(* The divided box is the undivided one: on every rank, across every face  *)
(* of every cell lies the cell (or the wall) that lies there in a box that *)
(* is not divided (size_grid, join_grid, set_pbc as the partition          *)
(* functions call them).                                                   *)
TablesMatchTheBox ==
  \A rank \in Ranks(deck), c \in Cells, f \in Face :
    LET x == GlobalCoord(deck, rank, c) IN
    Across1(rank, c, f) = IF AtWall(deck, x, f) THEN Wall(deck, f)
                          ELSE GlobalVoxel(deck, Across(deck, x, f))

(* boundary_p sends a particle that crosses a face to the rank bc names    *)
(* and takes that rank's range off the cell number: so a cell of another   *)
(* rank lies across a face only where bc names that very rank.             *)
RemoteCellsAreShared ==
  \A rank \in Ranks(deck), c \in Cells, f \in Face :
    LET nn == Across1(rank, c, f)
        r  == grid[rank].bc[f]
    IN nn >= 0 /\ nn \notin range(deck, rank)..(range(deck, rank + 1) - 1) =>
         /\ r \in Ranks(deck) \ {rank}
         /\ nn \in range(deck, r)..(range(deck, r + 1) - 1)

(* Every exchange of the code pairs face f of one rank with the opposite   *)
(* face of the rank beside it: bc is mutual.                               *)
PortsArePaired ==
  \A rank \in Ranks(deck), f \in Face :
    LET r == grid[rank].bc[f] IN
    r >= 0 => r \in Ranks(deck) /\ grid[r].bc[Opposite(f)] = rank
=============================================================================
