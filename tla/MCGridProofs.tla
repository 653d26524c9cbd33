---------------------------- MODULE MCGridProofs ----------------------------
(***************************************************************************)
(* The decks of MCGrid, for any number of cells and ranks: what GridProofs *)
(* says of the tables of a well formed deck holds in every state.          *)
(***************************************************************************)
EXTENDS MCGrid, GridProofs

(* The decks of MCGrid are such, whatever its constants.                   *)
LEMMA DecksAreWellFormed ==
  ASSUME NEW d \in Decks
  PROVE  WellFormed(d)
<1>1. PICK n \in Triples(PerRank), q \in Triples(Splits), b \in {"periodic", "absorbing", "metal"} :
        d = [gn |-> [a \in 1..3 |-> n[a] * q[a]], gp |-> q, box |-> b, pbc |-> Pbc]
  BY DEF Decks
<1>2. n \in Triple /\ q \in Triple
  <2>1. PICK x \in PerRank, y \in PerRank, z \in PerRank : n = <<x, y, z>>
    BY DEF Triples
  <2>2. PICK u \in Splits, v \in Splits, w \in Splits : q = <<u, v, w>>
    BY DEF Triples
  <2> QED BY <2>1, <2>2, MCGridAssumption, Tuple DEF Triple
<1>3. \A a \in 1..3 : (n[a] * q[a]) \div q[a] = n[a]
  <2> TAKE a \in 1..3
  <2>1. n[a] \in Int /\ q[a] \in Nat \ {0} /\ 0 \in 0 .. q[a] - 1
    BY <1>2 DEF Triple
  <2> DEFINE x == n[a]
             y == q[a]
  <2> HIDE DEF x, y
  <2>2. x \in Int /\ y \in Nat \ {0} /\ 0 \in 0 .. y - 1
    BY <2>1 DEF x, y
  <2>3. (0 + y * x) \div y = x
    BY <2>2, Parts
  <2>4. x * y = 0 + y * x
    BY <2>2
  <2> QED BY <2>3, <2>4 DEF x, y
<1>4. LocalSize(d) = n
  BY <1>1, <1>2, <1>3 DEF LocalSize, Triple
<1>5. \A f \in Face : Pbc[f] \in Int /\ Pbc[f] < 0
  BY DEF Pbc, Face, absorb_particles
<1> QED BY <1>1, <1>2, <1>4, <1>5 DEF WellFormed
-----------------------------------------------------------------------------
Built == deck \in Decks /\ grid = GridOf(deck)

(* The tables stay what the partition function made them.                  *)
LEMMA AlwaysBuilt == Spec => []Built
<1>1. Init => Built
  BY DEF Init, Built
<1>2. Built /\ [Next]_<<deck, grid>> => Built'
  BY DEF Built, Next
<1> QED BY <1>1, <1>2, PTL DEF Spec

(* They are those of every rank of a well formed deck.                     *)
LEMMA BuiltIs ==
  ASSUME Built
  PROVE  WellFormed(deck) /\ \A rank \in Ranks(deck) : grid[rank] = Partition(deck, rank)
  BY DecksAreWellFormed DEF Built, GridOf

(* Cells are interior voxels.                                              *)
LEMMA CellsAre ==
  ASSUME Built, NEW c \in Cells
  PROVE  c \in [1..3 -> Int] /\ Interior(c, LocalSize(deck))
<1> DEFINE n == LocalSize(deck)
<1>1. n \in Triple
  BY BuiltIs, Sizes
<1>2. PICK x \in 1..n[1], y \in 1..n[2], z \in 1..n[3] : c = <<x, y, z>>
  BY DEF Cells
<1>3. x \in Int /\ y \in Int /\ z \in Int
  BY <1>1, <1>2 DEF Triple
<1>4. <<x, y, z>> \in [1..3 -> Int]
  BY <1>3, Tuple
<1>5. Interior(<<x, y, z>>, n)
  BY <1>1, <1>2 DEF Interior
<1> QED BY <1>2, <1>4, <1>5

(* The divided box is the undivided one, whatever its size and however     *)
(* many ranks divide it: across every face of every cell lies the cell or  *)
(* the wall that lies there in a box that is not divided.                  *)
THEOREM TheTablesMatch == Spec => []TablesMatchTheBox
<1>1. Built => TablesMatchTheBox
  <2> SUFFICES ASSUME Built, NEW rank \in Ranks(deck), NEW c \in Cells, NEW f \in Face
               PROVE  Across1(rank, c, f) =
                        IF AtWall(deck, GlobalCoord(deck, rank, c), f) THEN Wall(deck, f)
                        ELSE GlobalVoxel(deck, Across(deck, GlobalCoord(deck, rank, c), f))
    BY Zenon DEF TablesMatchTheBox
  <2> DEFINE n == LocalSize(deck)
             On == OnFace(c, f, n)
             Out == AtOuterWall(deck, rank, f)
             near == range(deck, rank) + VOXEL([c EXCEPT ![Axis(f)] = @ + Dir(f)], n)
             far == range(deck, Beside(rank, f, deck.gp))
                      + VOXEL([c EXCEPT ![Axis(f)] = RemoteEdge(f, n, n[Axis(f)])], n)
  <2>1. /\ WellFormed(deck) /\ grid[rank] = Partition(deck, rank)
        /\ c \in [1..3 -> Int] /\ Interior(c, n)
    BY BuiltIs, CellsAre
  <2>2. Across1(rank, c, f) = IF ~On THEN near ELSE IF Out THEN Wall(deck, f) ELSE far
    <3>1. /\ WellFormed(deck) /\ rank \in Ranks(deck) /\ c \in [1..3 -> Int] /\ f \in Face
          /\ Interior(c, LocalSize(deck))
      BY <2>1
    <3>2. Partition(deck, rank).neighbor[VOXEL(c, n)][f] =
            IF ~On THEN near ELSE IF Out THEN Wall(deck, f) ELSE far
      BY ONLY <3>1, AcrossIs
    <3> QED BY <2>1, <3>2, Zenon DEF Across1
  <2>3. AtWall(deck, GlobalCoord(deck, rank, c), f) <=> Out /\ On
    BY <2>1, Walls
  <2>4. GlobalVoxel(deck, Across(deck, GlobalCoord(deck, rank, c), f)) = IF On THEN far ELSE near
    BY <2>1, WallLands, Zenon
  <2> HIDE DEF On, Out, near, far
  <2> QED BY <2>2, <2>3, <2>4
<1> QED BY <1>1, AlwaysBuilt, PTL

(* A cell of another rank lies across a face only where bc names that very *)
(* rank: what boundary_p relies on when it takes the range of the rank it  *)
(* sends to off the number of the cell.                                    *)
THEOREM RemoteCellsShared == Spec => []RemoteCellsAreShared
<1>1. Built => RemoteCellsAreShared
  <2> SUFFICES ASSUME Built, NEW rank \in Ranks(deck), NEW c \in Cells, NEW f \in Face,
                      Across1(rank, c, f) >= 0,
                      Across1(rank, c, f) \notin range(deck, rank) .. (range(deck, rank + 1) - 1)
               PROVE  /\ grid[rank].bc[f] \in Ranks(deck) \ {rank}
                      /\ Across1(rank, c, f) \in range(deck, grid[rank].bc[f])
                                                  .. (range(deck, grid[rank].bc[f] + 1) - 1)
    BY Zenon DEF RemoteCellsAreShared
  <2> DEFINE n == LocalSize(deck)
             r == Beside(rank, f, deck.gp)
             On == OnFace(c, f, n)
             Out == AtOuterWall(deck, rank, f)
             nn == Across1(rank, c, f)
             near == range(deck, rank) + VOXEL([c EXCEPT ![Axis(f)] = @ + Dir(f)], n)
             far == range(deck, r) + VOXEL([c EXCEPT ![Axis(f)] = RemoteEdge(f, n, n[Axis(f)])], n)
             Window(q) == range(deck, q) .. (range(deck, q + 1) - 1)
  <2>1. /\ WellFormed(deck) /\ grid[rank] = Partition(deck, rank)
        /\ c \in [1..3 -> Int] /\ Interior(c, n)
    BY BuiltIs, CellsAre
  <2>2. nn = IF ~On THEN near ELSE IF Out THEN Wall(deck, f) ELSE far
    <3>1. Partition(deck, rank).neighbor[VOXEL(c, n)][f] =
            IF ~On THEN near ELSE IF Out THEN Wall(deck, f) ELSE far
      BY <2>1, AcrossIs, Zenon
    <3> QED BY <2>1, <3>1, Zenon DEF Across1
  <2>3. r \in Ranks(deck)
    BY <2>1, BesideIs DEF WellFormed, Ranks
  <2>4. IF Out THEN grid[rank].bc[f] \in Int /\ grid[rank].bc[f] < 0
        ELSE grid[rank].bc[f] = r
    BY <2>1, TablesAre
  <2>5. Axis(f) \in 1..3 /\ Dir(f) \in {-1, 1} /\ n[Axis(f)] \in Nat \ {0} /\ c[Axis(f)] \in 1 .. n[Axis(f)]
    BY <2>1, FaceParts DEF WellFormed, Triple, Interior
  <2>6. near \in Window(rank)
    <3>1. c[Axis(f)] + Dir(f) \in 0 .. n[Axis(f)] + 1
      BY <2>5
    <3> QED BY <2>1, <3>1, InWindow, Zenon
  <2>7. far \in Window(r)
    <3>1. RemoteEdge(f, n, n[Axis(f)]) \in 0 .. n[Axis(f)] + 1
      BY <2>5 DEF RemoteEdge
    <3> QED BY <2>1, <2>3, <3>1, InWindow, Zenon
  <2>8. Wall(deck, f) < 0
    BY <2>1 DEF Wall, WellFormed, reflect_particles
  <2>9. nn >= 0 /\ nn \notin Window(rank)
    OBVIOUS
  <2> HIDE DEF nn, On, Out, near, far, r
  <2>10. On /\ ~Out
    <3>1. On
      BY <2>2, <2>6, <2>9, Zenon
    <3>2. ~Out
      <4>1. Wall(deck, f) \in Int
        BY <2>1 DEF Wall, WellFormed, reflect_particles
      <4>2. Out => nn = Wall(deck, f)
        BY <2>2, <3>1, Zenon
      <4> HIDE DEF Window
      <4> QED BY <2>8, <2>9, <4>1, <4>2
    <3> QED BY <3>1, <3>2
  <2>11. nn = far /\ grid[rank].bc[f] = r
    BY <2>2, <2>4, <2>10, Zenon
  <2>12. r # rank
    BY <2>7, <2>9, <2>11, Zenon
  <2> HIDE DEF Window
  <2>13. grid[rank].bc[f] \in Ranks(deck) \ {rank} /\ nn \in Window(grid[rank].bc[f])
    BY <2>3, <2>7, <2>11, <2>12, Zenon
  <2> QED BY <2>13, Zenon DEF nn, Window
<1> QED BY <1>1, AlwaysBuilt, PTL

(* Every exchange of the code pairs face f of one rank with the opposite   *)
(* face of the rank beside it: bc is mutual.                               *)
THEOREM PortsPaired == Spec => []PortsArePaired
<1>1. Built => PortsArePaired
  <2> SUFFICES ASSUME Built, NEW rank \in Ranks(deck), NEW f \in Face, grid[rank].bc[f] >= 0
               PROVE  /\ grid[rank].bc[f] \in Ranks(deck)
                      /\ grid[grid[rank].bc[f]].bc[Opposite(f)] = rank
    BY Zenon DEF PortsArePaired
  <2> DEFINE r == Beside(rank, f, deck.gp)
  <2>1. WellFormed(deck) /\ \A q \in Ranks(deck) : grid[q] = Partition(deck, q)
    BY BuiltIs
  <2>2. IF AtOuterWall(deck, rank, f) THEN grid[rank].bc[f] \in Int /\ grid[rank].bc[f] < 0
        ELSE grid[rank].bc[f] = r
    BY <2>1, TablesAre
  <2>3. r \in Ranks(deck) /\ Beside(r, Opposite(f), deck.gp) = rank
    BY <2>1, BesideIs DEF WellFormed, Ranks
  <2>4. ~AtOuterWall(deck, rank, f)
    BY <2>2
  <2>5. grid[rank].bc[f] = r /\ ~AtOuterWall(deck, r, Opposite(f))
    BY <2>1, <2>2, <2>4, WallsFaceOut
  <2> HIDE DEF r
  <2>6. Opposite(f) \in Face
    BY FaceParts
  <2>7. grid[r].bc[Opposite(f)] = rank
    <3>1. IF AtOuterWall(deck, r, Opposite(f))
          THEN grid[r].bc[Opposite(f)] \in Int /\ grid[r].bc[Opposite(f)] < 0
          ELSE grid[r].bc[Opposite(f)] = Beside(r, Opposite(f), deck.gp)
      BY <2>1, <2>3, <2>6, TablesAre
    <3> QED BY <2>3, <2>5, <3>1, Zenon
  <2> QED BY <2>3, <2>5, <2>7, Zenon
<1> QED BY <1>1, AlwaysBuilt, PTL
=============================================================================
