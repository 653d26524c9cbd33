--------------------------- MODULE BoundaryProofs ---------------------------
(***************************************************************************)
(* The exchange of particles, for any deck.  First the lists of particles  *)
(* and movers of a rank: what each step of boundary_p does to them, that   *)
(* they hold what their types say, and that the movers index, in order,    *)
(* the particles that stand at a face.  Then the exchange as a whole:      *)
(* every receive gets the message it was posted for, every particle is in  *)
(* one place, and the lists fit in the room made for them.  Last, where    *)
(* the particles go: to the place their displacement leads to in a box     *)
(* that is not divided.                                                    *)
(***************************************************************************)
EXTENDS BoundaryP, GridProofs, FiniteSetTheorems

-----------------------------------------------------------------------------
(* Lists of things that have names.                                        *)
Names(seq) == {seq[k].id : k \in DOMAIN seq}
Distinct(seq) == \A j, k \in DOMAIN seq : seq[j].id = seq[k].id => j = k

(* Appending to a list.                                                    *)
LEMMA AppendIs ==
  ASSUME NEW S, NEW seq \in Seq(S), NEW e \in S
  PROVE  /\ Append(seq, e) \in Seq(S) /\ Len(Append(seq, e)) = Len(seq) + 1
         /\ DOMAIN Append(seq, e) = 1 .. Len(seq) + 1
         /\ Append(seq, e)[Len(seq) + 1] = e
         /\ \A k \in 1 .. Len(seq) : Append(seq, e)[k] = seq[k]
  OBVIOUS

(* Names there are after an append.                                        *)
LEMMA AppendNames ==
  ASSUME NEW S, NEW seq \in Seq(S), NEW e \in S
  PROVE  /\ Names(Append(seq, e)) = Names(seq) \cup {e.id}
         /\ Distinct(seq) /\ e.id \notin Names(seq) => Distinct(Append(seq, e))
<1> DEFINE n == Len(seq)
           b == Append(seq, e)
<1>1. n \in Nat /\ DOMAIN seq = 1 .. n /\ DOMAIN b = 1 .. n + 1
      /\ b[n + 1] = e /\ \A k \in 1 .. n : b[k] = seq[k]
  BY AppendIs
<1> HIDE DEF n, b
<1>2. Names(b) = Names(seq) \cup {e.id}
  BY <1>1 DEF Names
<1>3. ASSUME Distinct(seq), e.id \notin Names(seq)
      PROVE  Distinct(b)
  BY <1>1, <1>3 DEF Names, Distinct
<1> QED BY <1>2, <1>3 DEF b

(* Filling the hole at i with the last of the list.                        *)
LEMMA BackfillIs ==
  ASSUME NEW S, NEW list \in Seq(S), NEW i \in DOMAIN list
  PROVE  /\ Backfill(list, i) \in Seq(S) /\ Len(Backfill(list, i)) = Len(list) - 1
         /\ DOMAIN Backfill(list, i) = 1 .. Len(list) - 1
         /\ \A k \in 1 .. Len(list) - 1 :
              Backfill(list, i)[k] = IF k = i THEN list[Len(list)] ELSE list[k]
<1> DEFINE n == Len(list)
           e == [list EXCEPT ![i] = list[n]]
<1>1. n \in Nat \ {0} /\ DOMAIN list = 1 .. n /\ list[n] \in S
  OBVIOUS
<1>2. e \in Seq(S) /\ Len(e) = n /\ \A k \in 1 .. n : e[k] = IF k = i THEN list[n] ELSE list[k]
  BY <1>1
<1>3. Backfill(list, i) = SubSeq(e, 1, n - 1)
  <2>1. Backfill(list, i) = Front(e)
    BY Zenon DEF Backfill
  <2> HIDE DEF e
  <2> QED BY <1>2, <2>1, Zenon DEF Front
<1> HIDE DEF n, e
<1>4. SubSeq(e, 1, n - 1) \in Seq(S) /\ Len(SubSeq(e, 1, n - 1)) = n - 1
      /\ \A k \in 1 .. n - 1 : SubSeq(e, 1, n - 1)[k] = e[k]
  BY <1>1, <1>2
<1>5. DOMAIN SubSeq(e, 1, n - 1) = 1 .. n - 1
  BY <1>4
<1> QED BY <1>1, <1>2, <1>3, <1>4, <1>5 DEF n

(* It takes the name at i off the list, and only that.                     *)
LEMMA BackfillNames ==
  ASSUME NEW S, NEW list \in Seq(S), NEW i \in DOMAIN list, Distinct(list)
  PROVE  /\ Names(Backfill(list, i)) = Names(list) \ {list[i].id}
         /\ Distinct(Backfill(list, i))
<1> DEFINE n == Len(list)
           b == Backfill(list, i)
<1>1. n \in Nat \ {0} /\ DOMAIN list = 1 .. n
  OBVIOUS
<1>2. DOMAIN b = 1 .. n - 1 /\ \A k \in 1 .. n - 1 : b[k] = IF k = i THEN list[n] ELSE list[k]
  BY BackfillIs
<1> HIDE DEF b, n
<1>3. Distinct(b)
  BY <1>1, <1>2 DEF Distinct
<1>4. \A k \in DOMAIN b : b[k].id \in Names(list) \ {list[i].id}
  BY <1>1, <1>2 DEF Names, Distinct
<1>5. ASSUME NEW k \in DOMAIN list, list[k].id # list[i].id
      PROVE  list[k].id \in Names(b)
  <2>1. CASE k = n
    <3>1. i \in DOMAIN b /\ b[i] = list[k]
      BY <1>1, <1>2, <1>5, <2>1
    <3> QED BY <3>1, Zenon DEF Names
  <2>2. CASE k # n
    <3>1. k \in DOMAIN b /\ b[k] = list[k]
      BY <1>1, <1>2, <1>5, <2>2
    <3> QED BY <3>1, Zenon DEF Names
  <2> QED BY <2>1, <2>2
<1>6. Names(b) = Names(list) \ {list[i].id}
  BY <1>4, <1>5 DEF Names
<1> QED BY <1>3, <1>6 DEF b
-----------------------------------------------------------------------------
(* What the deck gives stays what it is.                                   *)
Fixed == setting \in Settings /\ derived = Derived(setting)

Window(r) == rangel(r) .. rangeh(r)

(* There is a rank, and they have numbers from 0.                          *)
LEMMA RanksAre ==
  ASSUME NEW d, WellFormed(d)
  PROVE  /\ Volume(d.gp) \in Nat \ {0} /\ Ranks(d) = 0 .. Volume(d.gp) - 1
         /\ IsFiniteSet(Ranks(d)) /\ Cardinality(Ranks(d)) = Volume(d.gp)
<1> DEFINE x == d.gp[1]
           y == d.gp[2]
           z == d.gp[3]
           V == Volume(d.gp)
<1>1. x \in Nat \ {0} /\ y \in Nat \ {0} /\ z \in Nat \ {0}
  BY DEF WellFormed, Triple
<1>2. V = x * y * z
  BY DEF Volume
<1> HIDE DEF x, y, z
<1>3. x * y * z \in Nat \ {0}
  BY <1>1
<1>4. V \in Nat \ {0} /\ Ranks(d) = 0 .. V - 1
  BY <1>2, <1>3 DEF Ranks
<1> HIDE DEF V
<1>5. 0 \in Int /\ V - 1 \in Int /\ ~ (0 > V - 1) /\ (V - 1) - 0 + 1 = V
  BY <1>4
<1>6. IsFiniteSet(0 .. V - 1) /\ Cardinality(0 .. V - 1) = V
  BY <1>5, FS_Interval
<1> QED BY <1>4, <1>6 DEF V

(* The names of the setting, the tables and ranges of its grid.            *)
LEMMA FixedIs ==
  ASSUME Fixed
  PROVE  /\ setting \in Settings /\ WellFormed(Deck) /\ LoadIsLegal(setting)
         /\ Rank = Ranks(Deck) /\ Species = SpeciesOf(setting) /\ Ids = NamesOf(setting)
         /\ \A r \in Rank : /\ Tables[r] = Partition(Deck, r)
                           /\ rangel(r) = range(Deck, r) /\ rangeh(r) = range(Deck, r + 1) - 1
<1>1. setting \in Settings /\ WellFormed(Deck) /\ LoadIsLegal(setting)
  BY BoundaryPAssumption DEF Fixed, Deck
<1>2. /\ derived.grids = GridOf(Deck) /\ derived.species = SpeciesOf(setting)
      /\ derived.ids = NamesOf(setting)
      /\ derived.first = [r \in 0 .. Cardinality(Ranks(Deck)) |-> range(Deck, r)]
  BY DEF Fixed, Derived, Deck
<1>3. Rank = Ranks(Deck) /\ \A r \in Rank : Tables[r] = Partition(Deck, r)
  BY <1>2 DEF Rank, Tables, GridOf
<1>4. Cardinality(Ranks(Deck)) \in Nat /\ Ranks(Deck) = 0 .. Cardinality(Ranks(Deck)) - 1
  BY <1>1, RanksAre
<1>5. ASSUME NEW r \in Rank
      PROVE  rangel(r) = range(Deck, r) /\ rangeh(r) = range(Deck, r + 1) - 1
  <2>1. r \in 0 .. Cardinality(Ranks(Deck)) /\ r + 1 \in 0 .. Cardinality(Ranks(Deck))
    BY <1>3, <1>4
  <2> QED BY <1>2, <2>1 DEF rangel, rangeh
<1> QED BY <1>1, <1>2, <1>3, <1>5 DEF Species, Ids

(* Ranges follow each other: a voxel is in the range of one rank.          *)
LEMMA OneWindow ==
  ASSUME NEW d, WellFormed(d), NEW q \in Ranks(d), NEW r \in Ranks(d),
         NEW v \in 0 .. nv(LocalSize(d)) - 1
  PROVE  LET w == range(d, q) + v IN
         /\ w \in Nat /\ w - range(d, q) = v
         /\ w >= range(d, q) /\ w <= range(d, q + 1) - 1
         /\ w >= range(d, r) /\ w <= range(d, r + 1) - 1 => q = r
<1> DEFINE m == nv(LocalSize(d))
<1>1. m \in Nat \ {0}
  BY Sizes
<1>2. /\ range(d, q) = q * m /\ range(d, q + 1) = (q + 1) * m
      /\ range(d, r) = r * m /\ range(d, r + 1) = (r + 1) * m
  BY DEF range
<1>3. q \in Nat /\ r \in Nat
  BY RanksAre
<1> HIDE DEF m
<1>4. v \in Int /\ 0 <= v /\ v < m
  BY <1>1 DEF m
<1>5. q * m \in Nat /\ r * m \in Nat /\ (q + 1) * m = q * m + m /\ (r + 1) * m = r * m + m
  BY <1>1, <1>3
<1>6. q < r => (q + 1) * m <= r * m
  <2>1. q < r => m * (q + 1) <= m * r
    BY <1>1, <1>3, Product
  <2>2. m * (q + 1) = (q + 1) * m /\ m * r = r * m
    BY <1>1, <1>3
  <2> QED BY <2>1, <2>2
<1>7. r < q => (r + 1) * m <= q * m
  <2>1. r < q => m * (r + 1) <= m * q
    BY <1>1, <1>3, Product
  <2>2. m * (r + 1) = (r + 1) * m /\ m * q = q * m
    BY <1>1, <1>3
  <2> QED BY <2>1, <2>2
<1> DEFINE qm == q * m
           rm == r * m
           qn == (q + 1) * m
           rn == (r + 1) * m
<1>8. /\ range(d, q) = qm /\ range(d, q + 1) = qn /\ range(d, r) = rm /\ range(d, r + 1) = rn
      /\ qm \in Nat /\ rm \in Nat /\ qn = qm + m /\ rn = rm + m
      /\ (q < r => qn <= rm) /\ (r < q => rn <= qm)
  BY <1>2, <1>5, <1>6, <1>7
<1> HIDE DEF qm, rm, qn, rn
<1> QED BY <1>1, <1>3, <1>4, <1>8

(* An interior cell is numbered, and its number gives it back.             *)
LEMMA CellAt ==
  ASSUME Fixed, NEW c \in [1..3 -> Int], Interior(c, Cells)
  PROVE  VOXEL(c, Cells) \in 0 .. nv(Cells) - 1 /\ IsCell(VOXEL(c, Cells))
<1> DEFINE n == LocalSize(Deck)
<1>1. n = Cells /\ n \in Triple
  BY FixedIs, Sizes DEF Cells
<1> HIDE DEF n
<1>2. \A a \in 1..3 : c[a] \in 0 .. n[a] + 1
  BY <1>1 DEF Interior, Triple
<1>3. VOXEL(c, n) \in 0 .. nv(n) - 1 /\ \A a \in 1..3 : Coord(VOXEL(c, n), n)[a] = c[a]
  BY <1>1, <1>2, Voxels
<1>4. Interior(Coord(VOXEL(c, n), n), n)
  BY <1>1, <1>3 DEF Interior
<1> QED BY <1>1, <1>3, <1>4 DEF IsCell

(* Across a face of a cell: a wall, a cell of its rank, or a cell of the   *)
(* rank that shares the face.                                              *)
LEMMA NeighborIs ==
  ASSUME Fixed, NEW r \in Rank, NEW f \in Face, NEW v, IsCell(v)
  PROVE  LET nn == neighbor(r, v, f)
             q  == bc(r, f)
         IN /\ nn \in Int /\ rangel(r) \in Int /\ rangeh(r) \in Int /\ 0 <= rangel(r)
            /\ nn >= 0 => \/ nn >= rangel(r) /\ nn <= rangeh(r) /\ IsCell(nn - rangel(r))
                          \/ /\ shared(r, f) /\ ~ (nn >= rangel(r) /\ nn <= rangeh(r))
                             /\ IsCell(nn - rangel(q))
<1> DEFINE n == Cells
           c == Coord(v, n)
           On == OnFace(c, f, n)
           Out == AtOuterWall(Deck, r, f)
           q == Beside(r, f, Deck.gp)
           e1 == [c EXCEPT ![Axis(f)] = @ + Dir(f)]
           e2 == [c EXCEPT ![Axis(f)] = RemoteEdge(f, n, n[Axis(f)])]
           nn == neighbor(r, v, f)
<1>1. /\ WellFormed(Deck) /\ Rank = Ranks(Deck) /\ n = LocalSize(Deck) /\ r \in Ranks(Deck)
      /\ Tables[r] = Partition(Deck, r)
  BY FixedIs DEF Cells
<1>2. n \in Triple /\ v \in 0 .. nv(n) - 1 /\ Interior(c, n) /\ c \in [1..3 -> Int]
  BY <1>1, Sizes, Coords DEF IsCell
<1>3. /\ nn = IF ~On THEN range(Deck, r) + VOXEL(e1, n)
              ELSE IF Out THEN Wall(Deck, f) ELSE range(Deck, q) + VOXEL(e2, n)
      /\ IF Out THEN bc(r, f) \in Int /\ bc(r, f) < 0 ELSE bc(r, f) = q
  BY <1>1, <1>2, TablesAre, ZenonT(40) DEF neighbor, bc, JoinedCell
<1>4. Axis(f) \in 1..3 /\ Dir(f) \in {-1, 1}
  BY FaceParts
<1>5. ~On => e1 \in [1..3 -> Int] /\ Interior(e1, n)
  <2> HIDE DEF n, c
  <2>1. ~On => c[Axis(f)] + Dir(f) \in 1 .. n[Axis(f)]
    BY <1>2, <1>4 DEF OnFace, Edge, Interior, Triple
  <2> QED BY <1>2, <1>4, <2>1 DEF Interior
<1>6. e2 \in [1..3 -> Int] /\ Interior(e2, n)
  <2> HIDE DEF n, c
  <2>1. RemoteEdge(f, n, n[Axis(f)]) \in 1 .. n[Axis(f)]
    BY <1>2, <1>4 DEF RemoteEdge, Triple
  <2> QED BY <1>2, <1>4, <2>1 DEF Interior
<1>7. q \in Ranks(Deck)
  BY <1>1, BesideIs DEF WellFormed, Ranks
<1>8. Wall(Deck, f) \in Int /\ Wall(Deck, f) < 0
  BY <1>1 DEF Wall, WellFormed, reflect_particles
<1> HIDE DEF n, c, On, Out, q, e1, e2, nn
<1>9. ~On => VOXEL(e1, n) \in 0 .. nv(n) - 1 /\ IsCell(VOXEL(e1, n))
  BY <1>5, CellAt DEF n
<1>10. VOXEL(e2, n) \in 0 .. nv(n) - 1 /\ IsCell(VOXEL(e2, n))
  BY <1>6, CellAt DEF n
<1>11. /\ rangel(r) = range(Deck, r) /\ rangeh(r) = range(Deck, r + 1) - 1
       /\ rangel(q) = range(Deck, q) /\ rangeh(q) = range(Deck, q + 1) - 1
  BY <1>1, <1>7, FixedIs
<1>12. range(Deck, r) \in Nat /\ range(Deck, r + 1) \in Int
  <2>1. r \in Nat /\ nv(LocalSize(Deck)) \in Nat
    <3>1. r \in 0 .. Volume(Deck.gp) - 1
      BY <1>1, RanksAre, Zenon
    <3>2. nv(LocalSize(Deck)) \in Nat
      BY <1>1, Sizes
    <3> QED BY <3>1, <3>2
  <2>2. \A i, j \in Nat : i * j \in Nat /\ (i + 1) * j \in Nat
    OBVIOUS
  <2> QED BY <2>1, <2>2 DEF range
<1>13. CASE ~On
  <2> DEFINE w == range(Deck, r) + VOXEL(e1, n)
  <2>1. w \in Nat /\ w - range(Deck, r) = VOXEL(e1, n) /\ w >= range(Deck, r) /\ w <= range(Deck, r + 1) - 1
    BY <1>1, <1>9, <1>13, OneWindow
  <2> QED BY <1>3, <1>9, <1>11, <1>12, <1>13, <2>1 DEF nn
<1>14. CASE On /\ Out
  BY <1>3, <1>8, <1>11, <1>12, <1>14 DEF nn
<1>15. CASE On /\ ~Out
  <2> DEFINE w == range(Deck, q) + VOXEL(e2, n)
  <2>1. /\ w \in Nat /\ w - range(Deck, q) = VOXEL(e2, n)
        /\ w >= range(Deck, q) /\ w <= range(Deck, q + 1) - 1
        /\ (w >= range(Deck, r) /\ w <= range(Deck, r + 1) - 1 => q = r)
    BY <1>1, <1>7, <1>10, OneWindow
  <2>2. nn = w /\ bc(r, f) = q
    BY <1>3, <1>15
  <2> HIDE DEF w
  <2>3. CASE q = r
    BY <1>10, <1>11, <1>12, <2>1, <2>2, <2>3 DEF nn
  <2>4. CASE q # r
    <3>1. shared(r, f)
      BY <1>1, <1>7, <2>2, <2>4 DEF shared
    <3>2. IsCell(nn - rangel(bc(r, f)))
      BY <1>10, <1>11, <2>1, <2>2
    <3> QED BY <1>11, <1>12, <2>1, <2>2, <2>4, <3>1, <3>2 DEF nn
  <2> QED BY <2>3, <2>4
<1> QED BY <1>13, <1>14, <1>15

(* A shared face is the other rank's, on the opposite side.                *)
LEMMA SharedIs ==
  ASSUME Fixed, NEW r \in Rank, NEW f \in Face, shared(r, f)
  PROVE  /\ bc(r, f) \in Rank \ {r} /\ Port(f) \in Face /\ Port(Port(f)) = f
         /\ bc(bc(r, f), Port(f)) = r /\ shared(bc(r, f), Port(f))
<1> DEFINE q == Beside(r, f, Deck.gp)
           g == Opposite(f)
<1>1. /\ WellFormed(Deck) /\ Rank = Ranks(Deck) /\ r \in Ranks(Deck)
      /\ \A u \in Ranks(Deck) : Tables[u] = Partition(Deck, u)
  BY FixedIs
<1>2. bc(r, f) \in Rank \ {r} /\ bc(r, f) \in Nat
  BY <1>1, RanksAre DEF shared
<1>3. IF AtOuterWall(Deck, r, f) THEN bc(r, f) \in Int /\ bc(r, f) < 0 ELSE bc(r, f) = q
  BY <1>1, TablesAre DEF bc
<1>4. ~AtOuterWall(Deck, r, f) /\ bc(r, f) = q
  BY <1>2, <1>3
<1>5. q \in Ranks(Deck) /\ Beside(q, g, Deck.gp) = r
  BY <1>1, BesideIs DEF WellFormed, Ranks
<1>6. ~AtOuterWall(Deck, q, g)
  BY <1>1, <1>4, WallsFaceOut
<1>7. g \in Face /\ Opposite(g) = f
  BY FaceParts
<1> HIDE DEF q, g
<1>8. bc(q, g) = r
  <2>1. IF AtOuterWall(Deck, q, g) THEN bc(q, g) \in Int /\ bc(q, g) < 0
        ELSE bc(q, g) = Beside(q, g, Deck.gp)
    BY <1>1, <1>5, <1>7, TablesAre DEF bc
  <2> QED BY <1>5, <1>6, <2>1, Zenon
<1>9. Port(f) = g
  BY DEF Port, g
<1>10. Port(Port(f)) = f
  BY <1>7, <1>9 DEF Port
<1> QED BY <1>1, <1>2, <1>4, <1>7, <1>8, <1>9, <1>10 DEF shared
-----------------------------------------------------------------------------
(* Moving a particle: until a face stops it, it is in a cell.              *)
CellNo == {v \in 0 .. nv(Cells) - 1 : IsCell(v)}
Travels(r) ==
  {w \in [i : Nat, flip : SUBSET (1..3), stuck : BOOLEAN, left : Seq(Face)] :
     IF w.stuck THEN Stopped(r, w.i) ELSE IsCell(w.i)}

(* The tests on a cell number that the code makes are for membership.      *)
LEMMA CellNos ==
  ASSUME NEW v
  PROVE  IsCell(v) <=> v \in CellNo
  BY DEF CellNo, IsCell

(* Cells are numbered by naturals.                                         *)
LEMMA CellNoIs ==
  ASSUME Fixed
  PROVE  CellNo \subseteq Nat
<1>1. nv(Cells) \in Nat
  BY FixedIs, Sizes DEF Cells
<1> QED BY <1>1 DEF CellNo

(* 8*voxel+face                                                            *)
LEMMA Packed ==
  ASSUME NEW v \in Nat, NEW f \in Face
  PROVE  8 * v + f \in Nat /\ (8 * v + f) \div 8 = v /\ (8 * v + f) % 8 = f
  BY DEF Face

(* One face of the track.                                                  *)
LEMMA CrossKeeps ==
  ASSUME Fixed, NEW r \in Rank, NEW w \in Travels(r), NEW f \in Face
  PROVE  Cross(r, w, f) \in Travels(r)
<1> DEFINE W == [i : Nat, flip : SUBSET (1..3), stuck : BOOLEAN, left : Seq(Face)]
           g == Turned(w.flip, f)
           nn == neighbor(r, w.i, g)
           c == Cross(r, w, f)
<1>1. w \in W /\ (w.stuck => Stopped(r, w.i)) /\ (~w.stuck => IsCell(w.i))
  BY DEF Travels
<1>2. g \in Face
  BY FaceParts DEF Turned
<1>3. Axis(f) \in 1..3
  BY FaceParts
<1> HIDE DEF g
<1>4. CASE w.stuck
  <2>1. c = [w EXCEPT !.left = Append(@, g)]
    BY <1>4 DEF Cross, g
  <2>2. c \in W /\ c.stuck = w.stuck /\ c.i = w.i
    BY <1>1, <1>2, <2>1
  <2> QED BY <1>1, <1>4, <2>2, Zenon DEF Travels
<1>5. CASE ~w.stuck /\ nn = reflect_particles
  <2>1. c = [w EXCEPT !.flip = (@ \ {Axis(f)}) \cup ({Axis(f)} \ @)]
    BY <1>5 DEF Cross, g
  <2>2. c \in W /\ c.stuck = w.stuck /\ c.i = w.i
    BY <1>1, <1>3, <2>1
  <2> QED BY <1>1, <1>5, <2>2 DEF Travels
<1>6. CASE ~w.stuck /\ nn # reflect_particles /\ (nn < rangel(r) \/ nn > rangeh(r))
  <2>1. c = [w EXCEPT !.i = 8 * @ + g, !.stuck = TRUE]
    BY <1>6 DEF Cross, g
  <2>2. 8 * w.i + g \in Nat /\ (8 * w.i + g) \div 8 = w.i /\ (8 * w.i + g) % 8 = g
    <3>1. w.i \in Nat
      BY <1>1
    <3> QED BY <1>2, <3>1, Packed, Zenon
  <2>3. Stopped(r, 8 * w.i + g)
    BY <1>1, <1>2, <1>6, <2>2 DEF Stopped
  <2>4. c \in W /\ c.stuck = TRUE /\ c.i = 8 * w.i + g
    BY <1>1, <2>1, <2>2, Zenon
  <2> QED BY <2>3, <2>4 DEF Travels
<1>7. CASE ~w.stuck /\ nn # reflect_particles /\ ~ (nn < rangel(r) \/ nn > rangeh(r))
  <2>1. c = [w EXCEPT !.i = nn - rangel(r)]
    BY <1>7 DEF Cross, g
  <2>2. IsCell(w.i)
    BY <1>1, <1>7
  <2>3. /\ nn \in Int /\ rangel(r) \in Int /\ rangeh(r) \in Int /\ 0 <= rangel(r)
        /\ nn >= 0 => \/ nn >= rangel(r) /\ nn <= rangeh(r) /\ IsCell(nn - rangel(r))
                      \/ ~ (nn >= rangel(r) /\ nn <= rangeh(r))
    BY <1>2, <2>2, NeighborIs
  <2>4. IsCell(nn - rangel(r))
    BY <1>7, <2>3
  <2>5. nn - rangel(r) \in Nat
    BY <2>4, CellNos, CellNoIs
  <2> HIDE DEF nn
  <2>6. c \in W /\ c.stuck = w.stuck /\ c.i = nn - rangel(r)
    BY <1>1, <2>1, <2>5
  <2> QED BY <1>7, <2>4, <2>6 DEF Travels
<1> QED BY <1>4, <1>5, <1>6, <1>7

CrossOp(r, y, z, a, e) == Cross(r, a, e)
Crossing == INSTANCE Loops WITH Op <- CrossOp

(* A particle is moved to a cell, or to a face that stops it.              *)
LEMMA MoveKeeps ==
  ASSUME Fixed, NEW r \in Rank, NEW i, IsCell(i), NEW disp \in Seq(Face)
  PROVE  MoveP(r, i, disp) \in Travels(r)
<1> DEFINE base == [i |-> i, flip |-> {}, stuck |-> FALSE, left |-> <<>>]
           S == Travels(r)
<1>1. MoveP(r, i, disp) = Crossing!Left(r, 0, 0, base, disp)
  BY Zenon DEF MoveP, CrossOp, Crossing!Left, FoldLeft, MapThenFoldSet, Max,
               Crossing!Greatest
<1>2. i \in Nat
  BY CellNos, CellNoIs
<1>3. base \in S
  BY <1>2 DEF Travels
<1>4. Len(disp) \in Nat /\ DOMAIN disp = 1 .. Len(disp) /\ \A k \in 1 .. Len(disp) : disp[k] \in Face
  OBVIOUS
<1>5. \A k \in 1 .. Len(disp) : \A a \in S : CrossOp(r, 0, 0, a, disp[k]) \in S
  BY <1>4, CrossKeeps DEF CrossOp
<1> HIDE DEF base, S
<1>6. Crossing!Left(r, 0, 0, base, disp) \in S
  BY <1>3, <1>4, <1>5, Crossing!LeftKeeps, Zenon
<1> QED BY <1>1, <1>6, Zenon DEF S, base
-----------------------------------------------------------------------------
(* The way of a particle through the undivided box, face by face.          *)
WayOp(d, y, z, w, f) ==
  LET g == IF Axis(f) \in w.flip THEN Opposite(f) ELSE f IN
  IF w.absorbed THEN w
  ELSE IF ~AtWall(d, w.x, g) THEN [w EXCEPT !.x = Across(d, @, g)]
  ELSE IF Wall(d, g) = reflect_particles
       THEN [w EXCEPT !.flip = (@ \ {Axis(f)}) \cup ({Axis(f)} \ @)]
       ELSE [w EXCEPT !.absorbed = TRUE]
Walking == INSTANCE Loops WITH Op <- WayOp

Way(d, x, tr) == Walking!Left(d, 0, 0, [x |-> x, flip |-> {}, absorbed |-> FALSE], tr)

(* It is the journey.                                                      *)
LEMMA JourneyIs ==
  ASSUME NEW x, NEW tr
  PROVE  Journey(x, tr) = Way(Deck, x, tr)
  BY Zenon DEF Journey, Way, WayOp, Walking!Left, FoldLeft, MapThenFoldSet, Max, Walking!Greatest

(* One face more.                                                          *)
LEMMA WayNext ==
  ASSUME NEW d, NEW x, NEW tr \in Seq(Face)
  PROVE  /\ Way(d, x, <<>>) = [x |-> x, flip |-> {}, absorbed |-> FALSE]
         /\ \A f \in Face : Way(d, x, Append(tr, f)) = WayOp(d, 0, 0, Way(d, x, tr), f)
<1> DEFINE base == [x |-> x, flip |-> {}, absorbed |-> FALSE]
<1>1. Way(d, x, <<>>) = base
  <2>1. DOMAIN <<>> = 1 .. 0
    OBVIOUS
  <2> HIDE DEF base
  <2>2. Walking!Left(d, 0, 0, base, <<>>) = base
    BY <2>1, Walking!LeftNone
  <2> QED BY <2>2, Zenon DEF Way, base
<1>2. ASSUME NEW f \in Face
      PROVE  Way(d, x, Append(tr, f)) = WayOp(d, 0, 0, Way(d, x, tr), f)
  <2> DEFINE n == Len(tr) + 1
             b == Append(tr, f)
  <2>1. /\ n \in Nat \ {0} /\ DOMAIN b = 1 .. n /\ DOMAIN tr = 1 .. n - 1
        /\ (\A k \in 1 .. n - 1 : tr[k] = b[k]) /\ b[n] = f
    BY AppendIs
  <2> HIDE DEF n, b, base
  <2>2. Walking!Left(d, 0, 0, base, b) = WayOp(d, 0, 0, Walking!Left(d, 0, 0, base, tr), f)
    BY <2>1, Walking!LeftStep
  <2> QED BY <2>2, Zenon DEF Way, base, b
<1> QED BY <1>1, <1>2

(* Likewise of what move_p does.                                           *)
LEMMA MoveNext ==
  ASSUME NEW r, NEW i, NEW tr \in Seq(Face)
  PROVE  /\ MoveP(r, i, <<>>) = [i |-> i, flip |-> {}, stuck |-> FALSE, left |-> <<>>]
         /\ \A f \in Face : MoveP(r, i, Append(tr, f)) = Cross(r, MoveP(r, i, tr), f)
<1> DEFINE base == [i |-> i, flip |-> {}, stuck |-> FALSE, left |-> <<>>]
<1>1. \A s : MoveP(r, i, s) = Crossing!Left(r, 0, 0, base, s)
  BY Zenon DEF MoveP, CrossOp, Crossing!Left, FoldLeft, MapThenFoldSet, Max, Crossing!Greatest
<1>2. MoveP(r, i, <<>>) = base
  <2>1. DOMAIN <<>> = 1 .. 0
    OBVIOUS
  <2> HIDE DEF base
  <2>2. Crossing!Left(r, 0, 0, base, <<>>) = base
    BY <2>1, Crossing!LeftNone
  <2> QED BY <1>1, <2>2, Zenon
<1>3. ASSUME NEW f \in Face
      PROVE  MoveP(r, i, Append(tr, f)) = Cross(r, MoveP(r, i, tr), f)
  <2> DEFINE n == Len(tr) + 1
             b == Append(tr, f)
  <2>1. /\ n \in Nat \ {0} /\ DOMAIN b = 1 .. n /\ DOMAIN tr = 1 .. n - 1
        /\ (\A k \in 1 .. n - 1 : tr[k] = b[k]) /\ b[n] = f
    BY AppendIs
  <2> HIDE DEF n, b, base
  <2>2. Crossing!Left(r, 0, 0, base, b) = CrossOp(r, 0, 0, Crossing!Left(r, 0, 0, base, tr), f)
    BY <2>1, Crossing!LeftStep
  <2> QED BY <1>1, <2>2, Zenon DEF CrossOp, b
<1> QED BY <1>2, <1>3

(* Sequences are built by appending.                                       *)
LEMMA ByAppending ==
  ASSUME NEW S, NEW P, <<>> \in P, \A s \in Seq(S) : s \in P => \A e \in S : Append(s, e) \in P
  PROVE  \A s \in Seq(S) : s \in P
<1> DEFINE N == {n \in Nat : \A s \in Seq(S) : Len(s) = n => s \in P}
<1>1. 0 \in N
  <2>1. \A s \in Seq(S) : Len(s) = 0 => s = <<>>
    OBVIOUS
  <2> QED BY <2>1
<1>2. ASSUME NEW n \in Nat, n \in N
      PROVE  n + 1 \in N
  <2> SUFFICES ASSUME NEW s \in Seq(S), Len(s) = n + 1
               PROVE  s \in P
    OBVIOUS
  <2> DEFINE t == SubSeq(s, 1, n)
  <2>1. t \in Seq(S) /\ Len(t) = n /\ s[n + 1] \in S
    OBVIOUS
  <2>2. s = Append(t, s[n + 1])
    OBVIOUS
  <2> HIDE DEF t
  <2>3. t \in P
    BY <1>2, <2>1
  <2> QED BY <2>1, <2>2, <2>3
<1> HIDE DEF N
<1>3. \A n \in Nat : n \in N
  BY <1>1, <1>2, Walking!Induction
<1> QED BY <1>3 DEF N
-----------------------------------------------------------------------------
(* Where a cell of a rank is in the undivided box.                         *)
Home(r, v) == GlobalCoord(Deck, r, Coord(v, Cells))
Here(r, nn) == nn >= rangel(r) /\ nn <= rangeh(r)

(* A cell by its coordinates.                                              *)
LEMMA HomeIs ==
  ASSUME Fixed, NEW q, NEW c \in [1..3 -> Int], Interior(c, Cells)
  PROVE  Home(q, VOXEL(c, Cells)) = GlobalCoord(Deck, q, c)
<1>1. Cells \in Triple
  BY FixedIs, Sizes DEF Cells
<1>2. \A a \in 1..3 : c[a] \in 0 .. Cells[a] + 1
  BY <1>1 DEF Interior, Triple
<1>3. Coord(VOXEL(c, Cells), Cells) \in [1..3 -> Int]
      /\ \A a \in 1..3 : Coord(VOXEL(c, Cells), Cells)[a] = c[a]
  BY <1>1, <1>2, Voxels
<1> DEFINE u == Coord(VOXEL(c, Cells), Cells)
<1> HIDE DEF u
<1>4. u = c
  <2>1. u \in [1..3 -> Int] /\ \A a \in 1..3 : u[a] = c[a]
    BY <1>3 DEF u
  <2> QED BY <2>1
<1> QED BY <1>4, Zenon DEF u, Home

(* What is across a face of a cell, in the rank's table and in the         *)
(* undivided box.                                                          *)
LEMMA NeighborLands ==
  ASSUME Fixed, NEW r \in Rank, NEW f \in Face, NEW v, IsCell(v)
  PROVE  LET nn == neighbor(r, v, f)
             x  == Home(r, v)
         IN /\ nn \in Int
            /\ AtWall(Deck, x, f) => nn = Wall(Deck, f) /\ nn < 0
            /\ ~AtWall(Deck, x, f) =>
                 /\ nn >= 0
                 /\ Here(r, nn) => IsCell(nn - rangel(r)) /\ Across(Deck, x, f) = Home(r, nn - rangel(r))
                 /\ ~Here(r, nn) => /\ shared(r, f) /\ IsCell(nn - rangel(bc(r, f)))
                                    /\ Across(Deck, x, f) = Home(bc(r, f), nn - rangel(bc(r, f)))
<1> DEFINE n == Cells
           c == Coord(v, n)
           On == OnFace(c, f, n)
           Out == AtOuterWall(Deck, r, f)
           q == Beside(r, f, Deck.gp)
           e1 == [c EXCEPT ![Axis(f)] = @ + Dir(f)]
           e2 == [c EXCEPT ![Axis(f)] = RemoteEdge(f, n, n[Axis(f)])]
           nn == neighbor(r, v, f)
           x == Home(r, v)
<1>1. /\ WellFormed(Deck) /\ Rank = Ranks(Deck) /\ n = LocalSize(Deck) /\ r \in Ranks(Deck)
      /\ Tables[r] = Partition(Deck, r)
  BY FixedIs DEF Cells
<1>2. n \in Triple /\ v \in 0 .. nv(n) - 1 /\ Interior(c, n) /\ c \in [1..3 -> Int]
  BY <1>1, Sizes, Coords DEF IsCell
<1>3. /\ nn = IF ~On THEN range(Deck, r) + VOXEL(e1, n)
              ELSE IF Out THEN Wall(Deck, f) ELSE range(Deck, q) + VOXEL(e2, n)
      /\ IF Out THEN bc(r, f) \in Int /\ bc(r, f) < 0 ELSE bc(r, f) = q
  BY <1>1, <1>2, TablesAre, Zenon DEF neighbor, bc, JoinedCell
<1>4. Axis(f) \in 1..3 /\ Dir(f) \in {-1, 1}
  BY FaceParts
<1>5. ~On => e1 \in [1..3 -> Int] /\ Interior(e1, n)
  <2> HIDE DEF n, c
  <2>1. ~On => c[Axis(f)] + Dir(f) \in 1 .. n[Axis(f)]
    BY <1>2, <1>4 DEF OnFace, Edge, Interior, Triple
  <2> QED BY <1>2, <1>4, <2>1 DEF Interior
<1>6. e2 \in [1..3 -> Int] /\ Interior(e2, n)
  <2> HIDE DEF n, c
  <2>1. RemoteEdge(f, n, n[Axis(f)]) \in 1 .. n[Axis(f)]
    BY <1>2, <1>4 DEF RemoteEdge, Triple
  <2> QED BY <1>2, <1>4, <2>1 DEF Interior
<1>7. q \in Ranks(Deck)
  BY <1>1, BesideIs DEF WellFormed, Ranks
<1>8. Wall(Deck, f) \in Int /\ Wall(Deck, f) < 0
  BY <1>1 DEF Wall, WellFormed, reflect_particles
<1>9. AtWall(Deck, x, f) <=> Out /\ On
  BY <1>1, <1>2, Walls, Zenon DEF Home
<1>10. Across(Deck, x, f) = IF On THEN GlobalCoord(Deck, q, e2) ELSE GlobalCoord(Deck, r, e1)
  <2>1. x = GlobalCoord(Deck, r, c)
    BY Zenon DEF Home
  <2> HIDE DEF x
  <2>2. Across(Deck, GlobalCoord(Deck, r, c), f) =
          IF OnFace(c, f, LocalSize(Deck))
          THEN GlobalCoord(Deck, Beside(r, f, Deck.gp),
                           [c EXCEPT ![Axis(f)] = RemoteEdge(f, LocalSize(Deck), LocalSize(Deck)[Axis(f)])])
          ELSE GlobalCoord(Deck, r, [c EXCEPT ![Axis(f)] = @ + Dir(f)])
    <3> HIDE DEF c
    <3> QED BY <1>1, <1>2, AcrossLands, ZenonT(60)
  <2> QED BY <1>1, <2>1, <2>2, Zenon
<1>11. /\ rangel(r) = range(Deck, r) /\ rangeh(r) = range(Deck, r + 1) - 1
       /\ rangel(q) = range(Deck, q) /\ rangeh(q) = range(Deck, q + 1) - 1
  BY <1>1, <1>7, FixedIs
<1> HIDE DEF n, c, On, Out, q, e1, e2, nn, x
<1>12. ~On => /\ VOXEL(e1, n) \in 0 .. nv(n) - 1 /\ IsCell(VOXEL(e1, n))
              /\ Home(r, VOXEL(e1, n)) = GlobalCoord(Deck, r, e1)
  BY <1>5, CellAt, HomeIs DEF n
<1>13. /\ VOXEL(e2, n) \in 0 .. nv(n) - 1 /\ IsCell(VOXEL(e2, n))
       /\ Home(q, VOXEL(e2, n)) = GlobalCoord(Deck, q, e2)
  BY <1>6, CellAt, HomeIs DEF n
<1>14. CASE ~On
  <2> DEFINE w == range(Deck, r) + VOXEL(e1, n)
  <2>1. w \in Nat /\ w - range(Deck, r) = VOXEL(e1, n) /\ w >= range(Deck, r) /\ w <= range(Deck, r + 1) - 1
    BY <1>1, <1>12, <1>14, OneWindow
  <2>2. nn = w /\ ~AtWall(Deck, x, f)
    BY <1>3, <1>9, <1>14
  <2> HIDE DEF w
  <2>3. Here(r, nn) /\ nn - rangel(r) = VOXEL(e1, n) /\ nn \in Int /\ nn >= 0
    BY <1>11, <2>1, <2>2 DEF Here
  <2>4. IsCell(nn - rangel(r)) /\ Across(Deck, x, f) = Home(r, nn - rangel(r))
    BY <1>10, <1>12, <1>14, <2>3, Zenon
  <2> QED BY <2>2, <2>3, <2>4, Zenon DEF nn, x
<1>15. CASE On /\ Out
  BY <1>3, <1>8, <1>9, <1>15 DEF nn, x
<1>16. CASE On /\ ~Out
  <2> DEFINE w == range(Deck, q) + VOXEL(e2, n)
  <2>1. /\ w \in Nat /\ w - range(Deck, q) = VOXEL(e2, n)
        /\ w >= range(Deck, q) /\ w <= range(Deck, q + 1) - 1
        /\ (w >= range(Deck, r) /\ w <= range(Deck, r + 1) - 1 => q = r)
    BY <1>1, <1>7, <1>13, OneWindow
  <2>2. nn = w /\ bc(r, f) = q /\ ~AtWall(Deck, x, f)
    BY <1>3, <1>9, <1>16
  <2> HIDE DEF w
  <2>3. nn - rangel(q) = VOXEL(e2, n) /\ nn \in Int /\ nn >= 0 /\ (Here(r, nn) <=> q = r)
    BY <1>11, <2>1, <2>2 DEF Here
  <2>4. IsCell(nn - rangel(q)) /\ Across(Deck, x, f) = Home(q, nn - rangel(q))
    BY <1>10, <1>13, <1>16, <2>3, Zenon
  <2>5. q # r => shared(r, f)
    BY <1>1, <1>7, <2>2 DEF shared
  <2> QED BY <2>2, <2>3, <2>4, <2>5, Zenon DEF nn, x
<1> QED BY <1>14, <1>15, <1>16
(* A way has a place, the axes it is mirrored in, and an end at a wall.    *)
IsWay(w) ==
  /\ w = [x |-> w.x, flip |-> w.flip, absorbed |-> w.absorbed]
  /\ w.flip \in SUBSET (1..3) /\ w.absorbed \in BOOLEAN

(* What one face of the track does to it.                                  *)
LEMMA WayOpIs ==
  ASSUME NEW d, NEW w, IsWay(w), NEW f \in Face
  PROVE  LET g == Turned(w.flip, f)
             v == WayOp(d, 0, 0, w, f)
         IN /\ IsWay(v) /\ g \in Face
            /\ w.absorbed => v = w
            /\ ~w.absorbed /\ ~AtWall(d, w.x, g) =>
                 v.x = Across(d, w.x, g) /\ v.flip = w.flip /\ ~v.absorbed
            /\ ~w.absorbed /\ AtWall(d, w.x, g) /\ Wall(d, g) = reflect_particles =>
                 /\ v.x = w.x /\ ~v.absorbed
                 /\ v.flip = (w.flip \ {Axis(f)}) \cup ({Axis(f)} \ w.flip)
            /\ ~w.absorbed /\ AtWall(d, w.x, g) /\ Wall(d, g) # reflect_particles =>
                 v.absorbed /\ v.flip = w.flip
<1> DEFINE g == Turned(w.flip, f)
           v == WayOp(d, 0, 0, w, f)
           b == Across(d, w.x, g)
           t == (w.flip \ {Axis(f)}) \cup ({Axis(f)} \ w.flip)
<1>1. g \in Face /\ Axis(f) \in 1..3
  BY FaceParts DEF Turned
<1>2. t \in SUBSET (1..3)
  BY <1>1 DEF IsWay
<1>3. v = IF w.absorbed THEN w
          ELSE IF ~AtWall(d, w.x, g) THEN [w EXCEPT !.x = b]
          ELSE IF Wall(d, g) = reflect_particles THEN [w EXCEPT !.flip = t]
          ELSE [w EXCEPT !.absorbed = TRUE]
  BY Zenon DEF WayOp, Turned
<1> HIDE DEF g, v, b, t
<1>4. CASE w.absorbed
  BY <1>1, <1>3, <1>4 DEF g, v
<1>5. CASE ~w.absorbed /\ ~AtWall(d, w.x, g)
  <2>1. v = [x |-> b, flip |-> w.flip, absorbed |-> w.absorbed]
    BY <1>3, <1>5 DEF IsWay
  <2>2. v.x = b /\ v.flip = w.flip /\ v.absorbed = FALSE /\ IsWay(v)
    BY <1>5, <2>1 DEF IsWay
  <2> QED BY <1>1, <1>5, <2>2 DEF g, v, b
<1>6. CASE ~w.absorbed /\ AtWall(d, w.x, g) /\ Wall(d, g) = reflect_particles
  <2>1. v = [x |-> w.x, flip |-> t, absorbed |-> w.absorbed]
    BY <1>3, <1>6 DEF IsWay
  <2>2. v.x = w.x /\ v.flip = t /\ v.absorbed = FALSE /\ IsWay(v)
    BY <1>2, <1>6, <2>1 DEF IsWay
  <2> QED BY <1>1, <1>6, <2>2 DEF g, v, t
<1>7. CASE ~w.absorbed /\ AtWall(d, w.x, g) /\ Wall(d, g) # reflect_particles
  <2>1. v = [x |-> w.x, flip |-> w.flip, absorbed |-> TRUE]
    BY <1>3, <1>7 DEF IsWay
  <2>2. v.absorbed /\ v.flip = w.flip /\ IsWay(v)
    BY <2>1 DEF IsWay
  <2> QED BY <1>1, <1>7, <2>2 DEF g, v
<1> QED BY <1>4, <1>5, <1>6, <1>7

(* Every way is one.                                                       *)
LEMMA WayIsWay ==
  ASSUME NEW d, NEW x, NEW tr \in Seq(Face)
  PROVE  IsWay(Way(d, x, tr))
<1> DEFINE P == {t \in Seq(Face) : IsWay(Way(d, x, t))}
<1>1. <<>> \in P
  <2> DEFINE w == Way(d, x, <<>>)
  <2>1. w = [x |-> x, flip |-> {}, absorbed |-> FALSE]
    BY WayNext
  <2> HIDE DEF w
  <2>2. IsWay(w)
    BY <2>1 DEF IsWay
  <2> QED BY <2>2 DEF w
<1>2. ASSUME NEW s \in Seq(Face), s \in P, NEW e \in Face
      PROVE  Append(s, e) \in P
  <2>1. Way(d, x, Append(s, e)) = WayOp(d, 0, 0, Way(d, x, s), e)
    BY WayNext
  <2>2. IsWay(WayOp(d, 0, 0, Way(d, x, s), e))
    BY <1>2, WayOpIs
  <2>3. Append(s, e) \in Seq(Face)
    OBVIOUS
  <2> QED BY <2>1, <2>2, <2>3
<1> HIDE DEF P
<1>3. tr \in P
  BY <1>1, <1>2, ByAppending
<1> QED BY <1>3 DEF P

-----------------------------------------------------------------------------
(* A particle that a rank moves is on its way: while it is in a cell of    *)
(* the rank, this is where the way has led; when a face stops it, the way  *)
(* goes on from the cell across with the faces that are left, if there is  *)
(* one, and else ends at the wall.                                         *)
Ongoing(r, i, left) ==
  LET g == i % 8
      q == bc(r, g)
  IN Way(Deck, Home(q, neighbor(r, i \div 8, g) - rangel(q)), left)
Apart(a, b, c) == \A x \in 1..3 : x \in a <=> ((x \in b) # (x \in c))
OnTheWay(r, w, j, n) ==
  /\ w \in Travels(r)
  /\ ~w.stuck => w.left = <<>> /\ ~j.absorbed /\ j.flip = w.flip /\ j.x = Home(r, w.i)
  /\ w.stuck /\ neighbor(r, w.i \div 8, w.i % 8) < 0 => j.absorbed
  /\ w.stuck /\ ~(neighbor(r, w.i \div 8, w.i % 8) < 0) =>
       LET l == Ongoing(r, w.i, w.left) IN
       l.absorbed = j.absorbed /\ (~j.absorbed => l.x = j.x) /\ Apart(j.flip, l.flip, w.flip)
  /\ w.stuck => Len(w.left) < n

(* Mirrored twice is not mirrored.                                         *)
LEMMA TurnedTwice ==
  ASSUME NEW a, NEW b, NEW c, Apart(a, b, c), NEW f \in Face
  PROVE  /\ Turned(b, Turned(c, f)) = Turned(a, f) /\ Axis(Turned(c, f)) = Axis(f)
         /\ LET x == Axis(f)
            IN Apart((a \ {x}) \cup ({x} \ a), (b \ {x}) \cup ({x} \ b), c)
<1>1. /\ Axis(f) \in 1..3 /\ Axis(Opposite(f)) = Axis(f) /\ Opposite(Opposite(f)) = f
  BY FaceParts
<1>2. Axis(Turned(c, f)) = Axis(f)
  BY <1>1 DEF Turned
<1>3. Turned(b, Turned(c, f)) = Turned(a, f)
  BY <1>1 DEF Turned, Apart
<1>4. LET x == Axis(f)
      IN Apart((a \ {x}) \cup ({x} \ a), (b \ {x}) \cup ({x} \ b), c)
  BY <1>1 DEF Apart
<1> QED BY <1>2, <1>3, <1>4

(* One face more, when it is stopped already ...                           *)
LEMMA StoppedGoesOn ==
  ASSUME Fixed, NEW r \in Rank, NEW w, NEW j, NEW n \in Nat, OnTheWay(r, w, j, n), w.stuck, IsWay(j),
         NEW f \in Face
  PROVE  OnTheWay(r, Cross(r, w, f), WayOp(Deck, 0, 0, j, f), n + 1)
<1> DEFINE g == Turned(w.flip, f)
           c == Cross(r, w, f)
           k == WayOp(Deck, 0, 0, j, f)
           nn == neighbor(r, w.i \div 8, w.i % 8)
           l == Ongoing(r, w.i, w.left)
           m == Ongoing(r, w.i, Append(w.left, g))
<1>1. w \in Travels(r) /\ w.left \in Seq(Face) /\ w.stuck = TRUE
  BY DEF OnTheWay, Travels
<1>2. g \in Face
  BY FaceParts DEF Turned
<1>3. c = [w EXCEPT !.left = Append(@, g)]
  BY DEF Cross
<1>4. c.stuck /\ c.i = w.i /\ c.flip = w.flip /\ c.left = Append(w.left, g)
  BY <1>1, <1>3 DEF Travels
<1>5. c \in Travels(r)
  BY <1>1, CrossKeeps
<1>6. Len(c.left) = Len(w.left) + 1 /\ Len(w.left) \in Nat
  BY <1>1, <1>2, <1>4
<1>7. Len(c.left) < n + 1
  BY <1>6 DEF OnTheWay
<1>8. j.absorbed => k = j
  BY WayOpIs
<1>9. nn < 0 => k.absorbed
  BY <1>8 DEF OnTheWay
<1>10. ASSUME ~(nn < 0)
       PROVE  m.absorbed = k.absorbed /\ (~k.absorbed => m.x = k.x) /\ Apart(k.flip, m.flip, w.flip)
  <2>1. l.absorbed = j.absorbed /\ (~j.absorbed => l.x = j.x) /\ Apart(j.flip, l.flip, w.flip)
    BY <1>10 DEF OnTheWay
  <2>2. IsWay(l)
    BY <1>1, WayIsWay DEF Ongoing
  <2>3. m = WayOp(Deck, 0, 0, l, g)
    BY <1>1, <1>2, WayNext DEF Ongoing
  <2>4. /\ Turned(l.flip, g) = Turned(j.flip, f) /\ Axis(g) = Axis(f)
        /\ LET x == Axis(f)
           IN Apart((j.flip \ {x}) \cup ({x} \ j.flip), (l.flip \ {x}) \cup ({x} \ l.flip), w.flip)
    BY <2>1, TurnedTwice
  <2> HIDE DEF g, k, l, m
  <2>5. /\ IsWay(k)
        /\ ~j.absorbed /\ ~AtWall(Deck, j.x, Turned(j.flip, f)) =>
             k.x = Across(Deck, j.x, Turned(j.flip, f)) /\ k.flip = j.flip /\ ~k.absorbed
        /\ ~j.absorbed /\ AtWall(Deck, j.x, Turned(j.flip, f))
           /\ Wall(Deck, Turned(j.flip, f)) = reflect_particles =>
             k.x = j.x /\ ~k.absorbed /\ k.flip = (j.flip \ {Axis(f)}) \cup ({Axis(f)} \ j.flip)
        /\ ~j.absorbed /\ AtWall(Deck, j.x, Turned(j.flip, f))
           /\ Wall(Deck, Turned(j.flip, f)) # reflect_particles =>
             k.absorbed /\ k.flip = j.flip
    BY WayOpIs DEF k
  <2>6. /\ IsWay(m) /\ (l.absorbed => m = l)
        /\ ~l.absorbed /\ ~AtWall(Deck, l.x, Turned(l.flip, g)) =>
             m.x = Across(Deck, l.x, Turned(l.flip, g)) /\ m.flip = l.flip /\ ~m.absorbed
        /\ ~l.absorbed /\ AtWall(Deck, l.x, Turned(l.flip, g))
           /\ Wall(Deck, Turned(l.flip, g)) = reflect_particles =>
             m.x = l.x /\ ~m.absorbed /\ m.flip = (l.flip \ {Axis(g)}) \cup ({Axis(g)} \ l.flip)
        /\ ~l.absorbed /\ AtWall(Deck, l.x, Turned(l.flip, g))
           /\ Wall(Deck, Turned(l.flip, g)) # reflect_particles =>
             m.absorbed /\ m.flip = l.flip
    BY <1>2, <2>2, <2>3, WayOpIs
  <2>7. CASE j.absorbed
    BY <1>8, <2>1, <2>6, <2>7
  <2>8. CASE ~j.absorbed /\ ~AtWall(Deck, j.x, Turned(j.flip, f))
    <3>1. ~l.absorbed /\ ~AtWall(Deck, l.x, Turned(l.flip, g))
      BY <2>1, <2>4, <2>8
    <3> QED BY <2>1, <2>4, <2>5, <2>6, <2>8, <3>1 DEF IsWay
  <2>9. CASE ~j.absorbed /\ AtWall(Deck, j.x, Turned(j.flip, f))
             /\ Wall(Deck, Turned(j.flip, f)) = reflect_particles
    <3>1. ~l.absorbed /\ AtWall(Deck, l.x, Turned(l.flip, g))
          /\ Wall(Deck, Turned(l.flip, g)) = reflect_particles
      BY <2>1, <2>4, <2>9
    <3>2. m.x = k.x /\ ~k.absorbed /\ ~m.absorbed
      BY <2>1, <2>5, <2>6, <2>9, <3>1
    <3>3. Apart(k.flip, m.flip, w.flip)
      BY <2>4, <2>5, <2>6, <2>9, <3>1
    <3> QED BY <2>5, <2>6, <3>2, <3>3 DEF IsWay
  <2>10. CASE ~j.absorbed /\ AtWall(Deck, j.x, Turned(j.flip, f))
              /\ Wall(Deck, Turned(j.flip, f)) # reflect_particles
    <3>1. ~l.absorbed /\ AtWall(Deck, l.x, Turned(l.flip, g))
          /\ Wall(Deck, Turned(l.flip, g)) # reflect_particles
      BY <2>1, <2>4, <2>10
    <3>2. k.absorbed = TRUE /\ m.absorbed = TRUE
      BY <2>5, <2>6, <2>10, <3>1 DEF IsWay
    <3> QED BY <2>1, <2>5, <2>6, <2>10, <3>1, <3>2
  <2> QED BY <2>7, <2>8, <2>9, <2>10
<1> QED BY <1>4, <1>5, <1>7, <1>9, <1>10 DEF OnTheWay

(* ... and when it still moves.                                            *)
LEMMA MovingGoesOn ==
  ASSUME Fixed, NEW r \in Rank, NEW w, NEW j, NEW n \in Nat, OnTheWay(r, w, j, n), ~w.stuck, IsWay(j),
         NEW f \in Face
  PROVE  OnTheWay(r, Cross(r, w, f), WayOp(Deck, 0, 0, j, f), n + 1)
<1> DEFINE g == Turned(w.flip, f)
           c == Cross(r, w, f)
           k == WayOp(Deck, 0, 0, j, f)
           nn == neighbor(r, w.i, g)
           q == bc(r, g)
           t == (w.flip \ {Axis(f)}) \cup ({Axis(f)} \ w.flip)
<1>1. /\ w \in [i : Nat, flip : SUBSET (1..3), stuck : BOOLEAN, left : Seq(Face)]
      /\ IsCell(w.i) /\ w.i \in Nat /\ w.left = <<>> /\ w.stuck = FALSE
      /\ ~j.absorbed /\ j.flip = w.flip /\ j.x = Home(r, w.i) /\ w \in Travels(r)
  BY DEF OnTheWay, Travels
<1>2. g \in Face
  BY FaceParts DEF Turned
<1>3. c \in Travels(r)
  BY <1>1, CrossKeeps
<1>4. /\ nn \in Int
      /\ AtWall(Deck, j.x, g) => nn = Wall(Deck, g) /\ nn < 0
      /\ ~AtWall(Deck, j.x, g) =>
           /\ nn >= 0
           /\ Here(r, nn) => IsCell(nn - rangel(r)) /\ Across(Deck, j.x, g) = Home(r, nn - rangel(r))
           /\ ~Here(r, nn) => /\ shared(r, g) /\ IsCell(nn - rangel(bc(r, g)))
                              /\ Across(Deck, j.x, g) = Home(q, nn - rangel(q))
  BY <1>1, <1>2, NeighborLands
<1>5. /\ IsWay(k)
      /\ ~AtWall(Deck, j.x, g) => k.x = Across(Deck, j.x, g) /\ k.flip = w.flip /\ ~k.absorbed
      /\ AtWall(Deck, j.x, g) /\ Wall(Deck, g) = reflect_particles =>
           k.x = j.x /\ ~k.absorbed /\ k.flip = t
      /\ AtWall(Deck, j.x, g) /\ Wall(Deck, g) # reflect_particles => k.absorbed
  <2>1. Turned(j.flip, f) = g
    BY <1>1, Zenon
  <2> HIDE DEF g, k
  <2>2. /\ IsWay(k)
        /\ ~AtWall(Deck, j.x, Turned(j.flip, f)) =>
             k.x = Across(Deck, j.x, Turned(j.flip, f)) /\ k.flip = j.flip /\ ~k.absorbed
        /\ AtWall(Deck, j.x, Turned(j.flip, f)) /\ Wall(Deck, Turned(j.flip, f)) = reflect_particles =>
             k.x = j.x /\ ~k.absorbed /\ k.flip = (j.flip \ {Axis(f)}) \cup ({Axis(f)} \ j.flip)
        /\ AtWall(Deck, j.x, Turned(j.flip, f)) /\ Wall(Deck, Turned(j.flip, f)) # reflect_particles =>
             k.absorbed
    BY <1>1, WayOpIs DEF k
  <2> QED BY <1>1, <2>1, <2>2, Zenon
<1>6. rangel(r) \in Int /\ rangeh(r) \in Int /\ 0 <= rangel(r)
  BY <1>1, <1>2, NeighborIs
<1>7. c = CASE nn = reflect_particles -> [w EXCEPT !.flip = t]
            [] nn # reflect_particles /\ (nn < rangel(r) \/ nn > rangeh(r)) ->
                 [w EXCEPT !.i = 8 * @ + g, !.stuck = TRUE]
            [] OTHER -> [w EXCEPT !.i = nn - rangel(r)]
  BY DEF Cross
<1> HIDE DEF g, c, k, nn, q, t
<1>8. CASE nn = reflect_particles
  <2>1. c = [w EXCEPT !.flip = t]
    BY <1>7, <1>8
  <2>2. ~c.stuck /\ c.left = <<>> /\ c.i = w.i /\ c.flip = t
    BY <1>1, <2>1
  <2>3. AtWall(Deck, j.x, g) /\ Wall(Deck, g) = reflect_particles
    BY <1>4, <1>8 DEF reflect_particles
  <2> QED BY <1>1, <1>3, <1>5, <2>2, <2>3 DEF OnTheWay, c, k
<1>9. CASE nn # reflect_particles /\ (nn < rangel(r) \/ nn > rangeh(r))
  <2>1. c = [w EXCEPT !.i = 8 * @ + g, !.stuck = TRUE]
    BY <1>7, <1>9
  <2>2. c.stuck /\ c.left = <<>> /\ c.i = 8 * w.i + g /\ c.flip = w.flip
    BY <1>1, <2>1
  <2>3. c.i \div 8 = w.i /\ c.i % 8 = g
    BY <1>1, <1>2, <2>2, Packed
  <2>4. ~Here(r, nn)
    BY <1>4, <1>6, <1>9 DEF Here
  <2>5. nn < 0 => k.absorbed
    BY <1>4, <1>5, <1>9
  <2>6. ASSUME ~(nn < 0)
        PROVE  LET l == Ongoing(r, c.i, c.left) IN
               l.absorbed = k.absorbed /\ (~k.absorbed => l.x = k.x) /\ Apart(k.flip, l.flip, c.flip)
    <3> DEFINE l == Ongoing(r, c.i, c.left)
    <3>1. l = [x |-> Home(q, nn - rangel(q)), flip |-> {}, absorbed |-> FALSE]
      <4>1. l = Way(Deck, Home(q, nn - rangel(q)), <<>>)
        BY <2>2, <2>3, Zenon DEF Ongoing, nn, q
      <4>2. <<>> \in Seq(Face)
        OBVIOUS
      <4> QED BY <4>1, <4>2, WayNext
    <3>2. k.x = Home(q, nn - rangel(q)) /\ k.flip = w.flip /\ k.absorbed = FALSE
      BY <1>4, <1>5, <2>4, <2>6 DEF IsWay
    <3> HIDE DEF l
    <3>3. Apart(k.flip, l.flip, c.flip)
      BY <2>2, <3>1, <3>2 DEF Apart
    <3>4. l.absorbed = k.absorbed /\ l.x = k.x
      BY <3>1, <3>2
    <3> QED BY <3>3, <3>4, Zenon DEF l
  <2>7. Len(c.left) < n + 1
    BY <2>2
  <2> QED BY <1>3, <2>2, <2>3, <2>5, <2>6, <2>7 DEF OnTheWay, c, k, nn
<1>10. CASE nn # reflect_particles /\ ~(nn < rangel(r) \/ nn > rangeh(r))
  <2>1. c = [w EXCEPT !.i = nn - rangel(r)]
    BY <1>7, <1>10
  <2>2. ~c.stuck /\ c.left = <<>> /\ c.i = nn - rangel(r) /\ c.flip = w.flip
    BY <1>1, <2>1
  <2>3. Here(r, nn) /\ ~AtWall(Deck, j.x, g)
    BY <1>4, <1>6, <1>10 DEF Here
  <2> QED BY <1>3, <1>4, <1>5, <2>2, <2>3 DEF OnTheWay, c, k
<1> QED BY <1>8, <1>9, <1>10

(* So is any track.                                                        *)
LEMMA MoveIs ==
  ASSUME Fixed, NEW r \in Rank, NEW i, IsCell(i), NEW tr \in Seq(Face)
  PROVE  OnTheWay(r, MoveP(r, i, tr), Way(Deck, Home(r, i), tr), Len(tr))
<1> DEFINE x == Home(r, i)
           P == {t \in Seq(Face) : OnTheWay(r, MoveP(r, i, t), Way(Deck, x, t), Len(t))}
<1>1. <<>> \in P
  <2> DEFINE w == MoveP(r, i, <<>>)
             j == Way(Deck, x, <<>>)
  <2>1. /\ w = [i |-> i, flip |-> {}, stuck |-> FALSE, left |-> <<>>]
        /\ j = [x |-> x, flip |-> {}, absorbed |-> FALSE]
    BY MoveNext, WayNext
  <2>2. w \in Travels(r)
    <3>1. <<>> \in Seq(Face)
      OBVIOUS
    <3> QED BY <3>1, MoveKeeps
  <2> HIDE DEF w, j
  <2>3. OnTheWay(r, w, j, 0)
    BY <2>1, <2>2 DEF OnTheWay
  <2>4. Len(<<>>) = 0
    OBVIOUS
  <2> QED BY <2>3, <2>4 DEF w, j
<1>2. ASSUME NEW s \in Seq(Face), s \in P, NEW f \in Face
      PROVE  Append(s, f) \in P
  <2> DEFINE w == MoveP(r, i, s)
             j == Way(Deck, x, s)
  <2>1. /\ MoveP(r, i, Append(s, f)) = Cross(r, w, f)
        /\ Way(Deck, x, Append(s, f)) = WayOp(Deck, 0, 0, j, f)
    BY MoveNext, WayNext
  <2>2. OnTheWay(r, w, j, Len(s)) /\ Len(s) \in Nat
    BY <1>2
  <2>3. IsWay(j)
    BY WayIsWay
  <2> HIDE DEF w, j
  <2>4. OnTheWay(r, Cross(r, w, f), WayOp(Deck, 0, 0, j, f), Len(s) + 1)
    BY <2>2, <2>3, StoppedGoesOn, MovingGoesOn
  <2>5. Append(s, f) \in Seq(Face) /\ Len(Append(s, f)) = Len(s) + 1
    OBVIOUS
  <2> QED BY <2>1, <2>4, <2>5
<1> HIDE DEF P
<1>3. tr \in P
  BY <1>1, <1>2, ByAppending
<1> QED BY <1>3 DEF P

(* Where a way ends: at a place, unless it ends at a wall.                 *)
Goal(d, x, tr) == IF Way(d, x, tr).absorbed THEN {} ELSE {Way(d, x, tr).x}
Beyond(r, i, left) ==
  IF neighbor(r, i \div 8, i % 8) < 0 THEN {}
  ELSE IF Ongoing(r, i, left).absorbed THEN {} ELSE {Ongoing(r, i, left).x}

(* A particle moved keeps its goal.                                        *)
LEMMA MoveAims ==
  ASSUME Fixed, NEW r \in Rank, NEW i, IsCell(i), NEW tr \in Seq(Face), NEW w, w = MoveP(r, i, tr)
  PROVE  /\ w \in Travels(r)
         /\ ~w.stuck => Goal(Deck, Home(r, i), tr) = {Home(r, w.i)}
         /\ w.stuck => Goal(Deck, Home(r, i), tr) = Beyond(r, w.i, w.left) /\ Len(w.left) < Len(tr)
<1> DEFINE j == Way(Deck, Home(r, i), tr)
           nn == neighbor(r, w.i \div 8, w.i % 8)
           l == Ongoing(r, w.i, w.left)
<1>1. OnTheWay(r, w, j, Len(tr))
  BY MoveIs
<1>2. /\ w \in Travels(r)
      /\ ~w.stuck => ~j.absorbed /\ j.x = Home(r, w.i)
      /\ w.stuck /\ nn < 0 => j.absorbed
      /\ w.stuck /\ ~(nn < 0) => l.absorbed = j.absorbed /\ (~j.absorbed => l.x = j.x)
      /\ w.stuck => Len(w.left) < Len(tr)
  BY <1>1, Zenon DEF OnTheWay
<1>3. Goal(Deck, Home(r, i), tr) = IF j.absorbed THEN {} ELSE {j.x}
  BY Zenon DEF Goal
<1>4. Beyond(r, w.i, w.left) = IF nn < 0 THEN {} ELSE IF l.absorbed THEN {} ELSE {l.x}
  BY Zenon DEF Beyond
<1> HIDE DEF j, nn, l
<1> QED BY <1>2, <1>3, <1>4

-----------------------------------------------------------------------------
(* A name's goal is G, which its track reaches in n faces or more; or the  *)
(* particle is one of M, those that met a custom boundary.                 *)
Aims(id, G) ==
  \A r \in Rank, s \in Species : \A k \in DOMAIN Load[r][s] :
    Load[r][s][k].id = id => Goal(Deck, GlobalCoord(Deck, r, Load[r][s][k].c), track[id]) = G
Headed(id, G, n, M) == id \in M \/ (Aims(id, G) /\ n <= Len(track[id]))

(* More particles may meet one.                                            *)
LEMMA HeadedMore ==
  ASSUME NEW id, NEW G, NEW n, NEW M, Headed(id, G, n, M), NEW N, M \subseteq N
  PROVE  Headed(id, G, n, N)
  BY DEF Headed
-----------------------------------------------------------------------------
(* The lists of one species: the movers index, in increasing order, the    *)
(* particles that stand at a face.                                         *)
Part == [id : Ids, i : Nat]
Mover == [i : Nat, disp : Seq(Face)]
Injector == [id : Ids, i : CellNo, sp : Species, disp : Seq(Face)]

Moving(m, k) == \E j \in DOMAIN m : m[j].i = k
Indexes(q, m) ==
  /\ \A k \in DOMAIN m : m[k].i \in DOMAIN q
  /\ \A j, k \in DOMAIN m : j < k => m[j].i < m[k].i
Stands(r, q, m) ==
  \A k \in DOMAIN q : IF Moving(m, k) THEN Stopped(r, q[k].i) ELSE IsCell(q[k].i)
Listed(r, q, m) == q \in Seq(Part) /\ m \in Seq(Mover) /\ Indexes(q, m) /\ Stands(r, q, m)

(* Particles of a list are where their names' goals are, or bound for them *)
(* with n faces less to cross; so are injectors.                           *)
ListHeaded(r, q, m, n, M) ==
  /\ \A k \in DOMAIN q : ~Moving(m, k) => Headed(q[k].id, {Home(r, q[k].i)}, 0, M)
  /\ \A j \in DOMAIN m :
       Headed(q[m[j].i].id, Beyond(r, q[m[j].i].i, m[j].disp), Len(m[j].disp) + 1 + n, M)
InjHeaded(r, e, n, M) ==
  Headed(e.id, Goal(Deck, Home(r, e.i), e.disp), Len(e.disp) + 1 + n, M)

(* A particle in a cell needs no mover.                                    *)
LEMMA ListedFree ==
  ASSUME NEW r, NEW q, NEW m, Listed(r, q, m), NEW e \in Part, IsCell(e.i)
  PROVE  Listed(r, Append(q, e), m)
<1> DEFINE n == Len(q)
           b == Append(q, e)
<1>1. /\ n \in Nat /\ DOMAIN q = 1 .. n /\ b \in Seq(Part) /\ DOMAIN b = 1 .. n + 1
      /\ b[n + 1] = e /\ \A k \in 1 .. n : b[k] = q[k]
  BY AppendIs DEF Listed
<1> HIDE DEF n, b
<1>2. Indexes(b, m)
  BY <1>1 DEF Listed, Indexes
<1>3. ~ Moving(m, n + 1)
  BY <1>1 DEF Listed, Indexes, Moving
<1>4. Stands(r, b, m)
  <2> SUFFICES ASSUME NEW k \in 1 .. n + 1
               PROVE  IF Moving(m, k) THEN Stopped(r, b[k].i) ELSE IsCell(b[k].i)
    BY <1>1 DEF Stands
  <2>1. CASE k = n + 1
    BY <1>1, <1>3, <2>1, Zenon
  <2>2. CASE k # n + 1
    <3>1. k \in 1 .. n
      BY <1>1, <2>2
    <3>2. IF Moving(m, k) THEN Stopped(r, q[k].i) ELSE IsCell(q[k].i)
      BY <1>1, <3>1, Zenon DEF Listed, Stands
    <3> QED BY <1>1, <3>1, <3>2, Zenon
  <2> QED BY <2>1, <2>2
<1> QED BY <1>1, <1>2, <1>4 DEF Listed, b

(* One that stands at a face comes with a mover.                           *)
LEMMA ListedStuck ==
  ASSUME NEW r, NEW q, NEW m, Listed(r, q, m), NEW e \in Part, Stopped(r, e.i),
         NEW v \in Mover, v.i = Len(q) + 1
  PROVE  Listed(r, Append(q, e), Append(m, v))
<1> DEFINE n == Len(q)
           b == Append(q, e)
           l == Len(m)
           c == Append(m, v)
<1>1. /\ n \in Nat /\ DOMAIN q = 1 .. n /\ b \in Seq(Part) /\ DOMAIN b = 1 .. n + 1
      /\ b[n + 1] = e /\ \A k \in 1 .. n : b[k] = q[k]
  BY AppendIs DEF Listed
<1>2. /\ l \in Nat /\ DOMAIN m = 1 .. l /\ c \in Seq(Mover) /\ DOMAIN c = 1 .. l + 1
      /\ c[l + 1] = v /\ \A k \in 1 .. l : c[k] = m[k]
  BY AppendIs DEF Listed
<1>3. v.i = n + 1
  OBVIOUS
<1> HIDE DEF n, b, l, c
<1>4. \A k \in 1 .. l : m[k].i \in 1 .. n
  BY <1>1, <1>2, Zenon DEF Listed, Indexes
<1>5. \A j, k \in 1 .. l : j < k => m[j].i < m[k].i
  BY <1>2, Zenon DEF Listed, Indexes
<1>6. Indexes(b, c)
  <2>1. ASSUME NEW k \in 1 .. l + 1
        PROVE  c[k].i \in 1 .. n + 1
    BY <1>1, <1>2, <1>3, <1>4
  <2>2. ASSUME NEW j \in 1 .. l + 1, NEW k \in 1 .. l + 1, j < k
        PROVE  c[j].i < c[k].i
    <3>1. j \in 1 .. l /\ c[j] = m[j] /\ m[j].i \in 1 .. n
      BY <1>2, <1>4, <2>2
    <3>2. CASE k = l + 1
      BY <1>1, <1>2, <1>3, <3>1, <3>2
    <3>3. CASE k # l + 1
      <4>1. k \in 1 .. l
        BY <1>2, <3>3
      <4> QED BY <1>2, <1>5, <2>2, <3>1, <4>1
    <3> QED BY <3>2, <3>3
  <2> QED BY <1>1, <1>2, <2>1, <2>2, Zenon DEF Indexes
<1>7. ASSUME NEW k \in 1 .. n
      PROVE  Moving(c, k) <=> Moving(m, k)
  BY <1>1, <1>2, <1>3 DEF Moving
<1>8. Moving(c, n + 1)
  BY <1>2, <1>3 DEF Moving
<1>9. Stands(r, b, c)
  <2> SUFFICES ASSUME NEW k \in 1 .. n + 1
               PROVE  IF Moving(c, k) THEN Stopped(r, b[k].i) ELSE IsCell(b[k].i)
    BY <1>1 DEF Stands
  <2>1. CASE k = n + 1
    BY <1>1, <1>8, <2>1, Zenon
  <2>2. CASE k # n + 1
    <3>1. k \in 1 .. n
      BY <1>1, <2>2
    <3>2. IF Moving(m, k) THEN Stopped(r, q[k].i) ELSE IsCell(q[k].i)
      BY <1>1, <3>1, Zenon DEF Listed, Stands
    <3> QED BY <1>1, <1>7, <3>1, <3>2, Zenon
  <2> QED BY <2>1, <2>2
<1> QED BY <1>1, <1>2, <1>6, <1>9 DEF Listed, b, c

-----------------------------------------------------------------------------
(* Injection: what the lists are after one injector, and after them all.   *)
Room == [p : [Species -> Seq(Part)], pm : [Species -> Seq(Mover)]]
RoomListed(r, a) == a \in Room /\ \A s \in Species : Listed(r, a.p[s], a.pm[s])

Grown(a, b, n) ==
  \A s \in Species : Len(b.p[s]) <= Len(a.p[s]) + n /\ Len(b.pm[s]) <= Len(a.pm[s]) + n

(* One injector puts its particle at the end of the list of its species.   *)
LEMMA InjectIs ==
  ASSUME Fixed, NEW r \in Rank, NEW a, RoomListed(r, a), NEW pi \in Injector
  PROVE  LET b == Inject(r, a, pi) IN
         /\ RoomListed(r, b) /\ Grown(a, b, 1)
         /\ \A s \in Species :
              /\ Names(b.p[s]) = Names(a.p[s]) \cup (IF s = pi.sp THEN {pi.id} ELSE {})
              /\ Distinct(a.p[s]) /\ (s = pi.sp => pi.id \notin Names(a.p[s])) => Distinct(b.p[s])
<1> DEFINE w == MoveP(r, pi.i, pi.disp)
           s == pi.sp
           q == a.p[s]
           e == [id |-> pi.id, i |-> w.i]
           v == [i |-> Len(q) + 1, disp |-> w.left]
           b == Inject(r, a, pi)
<1>1. /\ pi.id \in Ids /\ pi.i \in CellNo /\ s \in Species /\ pi.disp \in Seq(Face)
  BY DEF Injector
<1>2. w \in Travels(r)
  BY <1>1, CellNos, MoveKeeps
<1>3. /\ w.i \in Nat /\ w.stuck \in BOOLEAN /\ w.left \in Seq(Face)
      /\ w.stuck => Stopped(r, w.i)
      /\ ~w.stuck => IsCell(w.i)
  BY <1>2 DEF Travels
<1>4. /\ a.p \in [Species -> Seq(Part)] /\ a.pm \in [Species -> Seq(Mover)]
      /\ \A t \in Species : Listed(r, a.p[t], a.pm[t])
  BY DEF RoomListed, Room
<1>5. q \in Seq(Part) /\ a.pm[s] \in Seq(Mover) /\ Len(q) \in Nat
  BY <1>1, <1>4
<1>6. /\ b.p = [a.p EXCEPT ![s] = Append(q, e)]
      /\ b.pm = IF w.stuck
                 THEN [a.pm EXCEPT ![s] = Append(a.pm[s], [i |-> Len(Append(q, e)), disp |-> w.left])]
                 ELSE a.pm
      /\ b = [p |-> b.p, pm |-> b.pm]
  BY DEF Inject
<1> HIDE DEF w, s, q, b
<1>7. e \in Part /\ v \in Mover /\ e.id = pi.id /\ e.i = w.i /\ v.i = Len(q) + 1
  BY <1>1, <1>3, <1>5 DEF Part, Mover
<1>8. Append(q, e) \in Seq(Part) /\ Len(Append(q, e)) = Len(q) + 1
  BY <1>5, <1>7, AppendIs
<1>9. b.pm = IF w.stuck THEN [a.pm EXCEPT ![s] = Append(a.pm[s], v)] ELSE a.pm
  BY <1>6, <1>8
<1>10. Append(a.pm[s], v) \in Seq(Mover) /\ Len(Append(a.pm[s], v)) = Len(a.pm[s]) + 1
       /\ Len(a.pm[s]) \in Nat
  BY <1>5, <1>7, AppendIs
<1>11. /\ Names(Append(q, e)) = Names(q) \cup {pi.id}
       /\ Distinct(q) /\ pi.id \notin Names(q) => Distinct(Append(q, e))
  BY <1>5, <1>7, AppendNames
<1>12. Listed(r, q, a.pm[s])
  BY <1>1, <1>4 DEF q
<1>13. w.stuck => Listed(r, Append(q, e), Append(a.pm[s], v))
  BY <1>3, <1>7, <1>12, ListedStuck
<1>14. ~w.stuck => Listed(r, Append(q, e), a.pm[s])
  BY <1>3, <1>7, <1>12, ListedFree
<1> HIDE DEF e, v
<1>15. b \in Room
  <2>1. b.p \in [Species -> Seq(Part)]
    BY <1>1, <1>4, <1>6, <1>8
  <2>2. b.pm \in [Species -> Seq(Mover)]
    BY <1>1, <1>4, <1>9, <1>10
  <2>3. b = [p |-> b.p, pm |-> b.pm]
    BY <1>6, Zenon
  <2> QED BY <2>1, <2>2, <2>3, Zenon DEF Room
<1>16. b.p[s] = Append(q, e) /\ b.pm[s] = IF w.stuck THEN Append(a.pm[s], v) ELSE a.pm[s]
  BY <1>1, <1>4, <1>6, <1>9
<1>17. \A t \in Species : t # s => b.p[t] = a.p[t] /\ b.pm[t] = a.pm[t]
  BY <1>1, <1>4, <1>6, <1>9
<1>18. ASSUME NEW t \in Species
       PROVE  /\ Listed(r, b.p[t], b.pm[t])
              /\ Len(b.p[t]) <= Len(a.p[t]) + 1 /\ Len(b.pm[t]) <= Len(a.pm[t]) + 1
              /\ Names(b.p[t]) = Names(a.p[t]) \cup (IF t = s THEN {pi.id} ELSE {})
              /\ Distinct(a.p[t]) /\ (t = s => pi.id \notin Names(a.p[t])) => Distinct(b.p[t])
  <2>1. CASE t = s
    <3>1. a.p[t] = q
      BY <2>1 DEF q
    <3>2. Listed(r, b.p[t], b.pm[t])
      BY <1>13, <1>14, <1>16, <2>1, Zenon
    <3>3. Len(b.p[t]) <= Len(a.p[t]) + 1 /\ Len(b.pm[t]) <= Len(a.pm[t]) + 1
      <4>1. Len(b.p[s]) <= Len(q) + 1
        BY <1>5, <1>8, <1>16
      <4>2. CASE w.stuck
        BY <1>10, <1>16, <2>1, <3>1, <4>1, <4>2
      <4>3. CASE ~w.stuck
        BY <1>10, <1>16, <2>1, <3>1, <4>1, <4>3
      <4> QED BY <4>2, <4>3
    <3> QED BY <1>11, <1>16, <2>1, <3>1, <3>2, <3>3, Zenon
  <2>2. CASE t # s
    <3>1. Len(a.p[t]) \in Nat /\ Len(a.pm[t]) \in Nat
      BY <1>4
    <3> QED BY <1>4, <1>17, <2>2, <3>1
  <2> QED BY <2>1, <2>2
<1> QED BY <1>15, <1>18, Zenon DEF RoomListed, Grown, b, s

InjectOp(r, y, z, a, e) == Inject(r, a, e)
Injecting == INSTANCE Loops WITH Op <- InjectOp

(* The names of the injectors of a species after the k-th.                 *)
Addressed(inj, s, k) == {inj[j].id : j \in {i \in DOMAIN inj : i > k /\ inj[i].sp = s}}
Fresh(a, inj) ==
  Distinct(inj) /\ \A s \in Species : Distinct(a.p[s]) /\ Names(a.p[s]) \cap Names(inj) = {}

(* The lists while k injectors are left.                                   *)
Injected(r, a, inj, k, b) ==
  /\ RoomListed(r, b) /\ Grown(a, b, Len(inj) - k)
  /\ \A s \in Species : /\ Names(b.p[s]) = Names(a.p[s]) \cup Addressed(inj, s, k)
                        /\ Fresh(a, inj) => Distinct(b.p[s])

(* An injector more, from the end of the list towards its start.           *)
LEMMA InjectNext ==
  ASSUME Fixed, NEW r \in Rank, NEW a, RoomListed(r, a), NEW inj \in Seq(Injector),
         NEW k \in 1 .. Len(inj), NEW b, Injected(r, a, inj, k, b)
  PROVE  Injected(r, a, inj, k - 1, Inject(r, b, inj[k]))
<1> DEFINE pi == inj[k]
           c == Inject(r, b, pi)
           n == Len(inj)
<1>1. pi \in Injector /\ n \in Nat /\ DOMAIN inj = 1 .. n /\ k \in 1 .. n
  OBVIOUS
<1>2. RoomListed(r, b) /\ Grown(a, b, n - k)
  BY DEF Injected
<1>3. /\ RoomListed(r, c) /\ Grown(b, c, 1)
      /\ \A s \in Species :
           /\ Names(c.p[s]) = Names(b.p[s]) \cup (IF s = pi.sp THEN {pi.id} ELSE {})
           /\ Distinct(b.p[s]) /\ (s = pi.sp => pi.id \notin Names(b.p[s])) => Distinct(c.p[s])
  BY <1>1, <1>2, InjectIs, Zenon
<1> HIDE DEF c
<1>4. Grown(a, c, n - (k - 1))
  <2>1. ASSUME NEW s \in Species
        PROVE  /\ Len(a.p[s]) \in Nat /\ Len(b.p[s]) \in Nat /\ Len(c.p[s]) \in Nat
               /\ Len(a.pm[s]) \in Nat /\ Len(b.pm[s]) \in Nat /\ Len(c.pm[s]) \in Nat
    BY <1>2, <1>3 DEF RoomListed, Room
  <2>2. ASSUME NEW s \in Species
        PROVE  /\ Len(c.p[s]) <= Len(b.p[s]) + 1 /\ Len(b.p[s]) <= Len(a.p[s]) + (n - k)
               /\ Len(c.pm[s]) <= Len(b.pm[s]) + 1 /\ Len(b.pm[s]) <= Len(a.pm[s]) + (n - k)
    BY <1>2, <1>3 DEF Grown
  <2>3. n \in Int /\ k \in Int
    BY <1>1
  <2> HIDE DEF n
  <2>4. ASSUME NEW s \in Species
        PROVE  /\ Len(c.p[s]) <= Len(a.p[s]) + (n - (k - 1))
               /\ Len(c.pm[s]) <= Len(a.pm[s]) + (n - (k - 1))
    <3>1. \A x, y, z \in Nat : z <= y + 1 /\ y <= x + (n - k) => z <= x + (n - (k - 1))
      BY <2>3
    <3> QED BY <2>1, <2>2, <3>1, Zenon
  <2> QED BY <2>4 DEF Grown
<1>5. ASSUME NEW s \in Species
      PROVE  Names(c.p[s]) = Names(a.p[s]) \cup Addressed(inj, s, k - 1)
  <2>1. Addressed(inj, s, k - 1) = Addressed(inj, s, k) \cup (IF s = pi.sp THEN {pi.id} ELSE {})
    BY <1>1 DEF Addressed
  <2>2. Names(b.p[s]) = Names(a.p[s]) \cup Addressed(inj, s, k)
    BY DEF Injected
  <2> QED BY <1>3, <2>1, <2>2
<1>6. ASSUME NEW s \in Species, Fresh(a, inj)
      PROVE  Distinct(c.p[s])
  <2>1. Names(b.p[s]) = Names(a.p[s]) \cup Addressed(inj, s, k) /\ Distinct(b.p[s])
    BY <1>6 DEF Injected
  <2>2. pi.id \notin Names(a.p[s])
    BY <1>1, <1>6, Zenon DEF Fresh, Names
  <2>3. pi.id \notin Addressed(inj, s, k)
    BY <1>1, <1>6 DEF Fresh, Distinct, Addressed
  <2> QED BY <1>3, <2>1, <2>2, <2>3
<1>7. Injected(r, a, inj, k - 1, c)
  BY <1>3, <1>4, <1>5, <1>6, Zenon DEF Injected
<1> QED BY <1>7 DEF c

(* A message injected whole: every injector has been put on its list.      *)
LEMMA InjectAllIs ==
  ASSUME Fixed, NEW r \in Rank, NEW a, RoomListed(r, a), NEW inj \in Seq(Injector)
  PROVE  Injected(r, a, inj, 0, InjectAll(r, a, inj))
<1> DEFINE n == Len(inj)
           B(k) == {b \in Room : Injected(r, a, inj, k, b)}
           I == [k \in 0 .. n |-> B(k)]
<1>1. n \in Nat /\ DOMAIN inj = 1 .. n
  OBVIOUS
<1>2. InjectAll(r, a, inj) = Injecting!Right(r, 0, 0, a, inj)
  BY Zenon DEF InjectAll, InjectOp, Injecting!Right, FoldRight, MapThenFoldSet, Min,
               Injecting!Least
<1>3. a \in B(n)
  <2>1. \A s \in Species : Addressed(inj, s, n) = {}
    BY <1>1 DEF Addressed
  <2>2. Grown(a, a, n - n)
    BY <1>1 DEF Grown, RoomListed, Room
  <2>3. \A s \in Species : Fresh(a, inj) => Distinct(a.p[s])
    BY DEF Fresh
  <2>4. Injected(r, a, inj, n, a)
    BY <2>1, <2>2, <2>3 DEF Injected
  <2> QED BY <2>4 DEF RoomListed
<1>4. \A k \in 1 .. n : \A b \in B(k) : InjectOp(r, 0, 0, b, inj[k]) \in B(k - 1)
  <2> SUFFICES ASSUME NEW k \in 1 .. n, NEW b \in B(k)
               PROVE  Inject(r, b, inj[k]) \in B(k - 1)
    BY DEF InjectOp
  <2>1. Injected(r, a, inj, k - 1, Inject(r, b, inj[k]))
    BY InjectNext
  <2> QED BY <2>1 DEF Injected, RoomListed
<1>5. I[0] = B(0) /\ I[n] = B(n) /\ \A k \in 1 .. n : I[k] = B(k) /\ I[k - 1] = B(k - 1)
  BY <1>1
<1> HIDE DEF I, B, n
<1>6. a \in I[n]
  BY <1>3, <1>5
<1>7. \A k \in 1 .. n : \A b \in I[k] : InjectOp(r, 0, 0, b, inj[k]) \in I[k - 1]
  BY <1>4, <1>5, Zenon
<1>8. Injecting!Right(r, 0, 0, a, inj) \in I[0]
  BY <1>1, <1>6, <1>7, Injecting!RightRule, Zenon
<1> QED BY <1>2, <1>5, <1>8 DEF B
-----------------------------------------------------------------------------
(* The two messages of a round on one port.  The sender has loaded L and   *)
(* is at stage i of round rs: 1, it has sent the number; 2, the injectors; *)
(* 3, and these were taken.  The receiver is at stage j of round rr: 1, it *)
(* has posted the receive of the number; 2, of nr injectors; 3, has them.  *)
(* On the wire are the messages W; a receive of po bytes is outstanding.   *)
SentBy(rs, i) == 2 * rs + (CASE i = 0 -> 0 [] i = 1 -> 1 [] i = 2 -> 2 [] i = 3 -> 2)
TakenBy(rr, j) == 2 * rr + (CASE j = 0 -> 0 [] j = 1 -> 0 [] j = 2 -> 1 [] j = 3 -> 2)

IsCount(m) == m.sz = CountSize /\ m.inj = <<>>
IsData(m) == m.sz = DataSize(Len(m.inj))

Channel(rs, i, rr, j, W, L, nr, po) ==
  LET d == SentBy(rs, i) - TakenBy(rr, j) IN
  /\ Len(W) = d /\ d <= 2 /\ (i \in {0, 3} => d <= 1)
  /\ po = (CASE j = 0 -> 0 [] j = 1 -> CountSize [] j = 2 -> DataSize(nr) [] j = 3 -> 0)
  /\ i # 1 => L = <<>>
  /\ j = 2 => /\ d = 0 => nr = Len(L)
              /\ d >= 1 => IsData(W[1]) /\ Len(W[1].inj) = nr
              /\ d = 2 => IsCount(W[2]) /\ W[2].n = Len(L)
  /\ j # 2 => /\ d >= 1 => IsCount(W[1])
              /\ d = 1 => W[1].n = Len(L)
              /\ d = 2 => IsData(W[2]) /\ Len(W[2].inj) = W[1].n

Message == [sz : Nat, n : Nat, inj : Seq(Injector)]

(* The messages there are.                                                 *)
LEMMA MessagesAre ==
  /\ \A n \in Nat : CountMsg(n) \in Message /\ IsCount(CountMsg(n)) /\ CountMsg(n).n = n
  /\ \A L \in Seq(Injector) :
       DataMsg(L) \in Message /\ IsData(DataMsg(L)) /\ DataMsg(L).inj = L
  /\ CountSize # 0 /\ \A n \in Nat : DataSize(n) \in Nat /\ DataSize(n) # 0
<1>1. \A n \in Nat : DataSize(n) \in Nat /\ DataSize(n) # 0
  BY DEF DataSize
<1>2. \A L \in Seq(Injector) : Len(L) \in Nat
  OBVIOUS
<1>3. CountSize \in Nat /\ CountSize # 0 /\ <<>> \in Seq(Injector)
  BY DEF CountSize
<1>4. \A n \in Nat : CountMsg(n) \in Message /\ IsCount(CountMsg(n)) /\ CountMsg(n).n = n
  BY <1>3 DEF CountMsg, Message, IsCount
<1>5. \A L \in Seq(Injector) :
        DataMsg(L) \in Message /\ IsData(DataMsg(L)) /\ DataMsg(L).inj = L
  BY <1>1, <1>2 DEF DataMsg, Message, IsData
<1> QED BY <1>1, <1>3, <1>4, <1>5

(* Messages in flight, appended and taken.                                 *)
LEMMA WireIs ==
  ASSUME NEW W \in Seq(Message), NEW m \in Message
  PROVE  /\ Len(W) \in Nat
         /\ Append(W, m) \in Seq(Message) /\ Len(Append(W, m)) = Len(W) + 1
         /\ Append(W, m)[Len(W) + 1] = m /\ \A k \in 1 .. Len(W) : Append(W, m)[k] = W[k]
         /\ W # <<>> => /\ Head(W) = W[1] /\ W[1] \in Message /\ Len(W) >= 1
                        /\ Tail(W) \in Seq(Message) /\ Len(Tail(W)) = Len(W) - 1
                        /\ \A k \in 1 .. Len(W) - 1 : Tail(W)[k] = W[k + 1]
  OBVIOUS

(* Rounds and stages are numbers.                                          *)
LEMMA StagesAre ==
  ASSUME NEW n \in Nat
  PROVE  /\ SentBy(n, 0) = 2 * n /\ SentBy(n, 1) = 2 * n + 1
         /\ SentBy(n, 2) = 2 * n + 2 /\ SentBy(n, 3) = 2 * n + 2 /\ SentBy(n + 1, 0) = 2 * n + 2
         /\ TakenBy(n, 0) = 2 * n /\ TakenBy(n, 1) = 2 * n
         /\ TakenBy(n, 2) = 2 * n + 1 /\ TakenBy(n, 3) = 2 * n + 2 /\ TakenBy(n + 1, 0) = 2 * n + 2
  BY DEF SentBy, TakenBy

(* What was sent and what was taken are numbers.                           *)
LEMMA StagesType ==
  ASSUME NEW n \in Nat, NEW k \in 0..3
  PROVE  /\ SentBy(n, k) \in Int /\ TakenBy(n, k) \in Int
         /\ k # 2 => TakenBy(n, k) = 2 * n \/ TakenBy(n, k) = 2 * n + 2
<1>1. k = 0 \/ k = 1 \/ k = 2 \/ k = 3
  OBVIOUS
<1> QED BY <1>1, StagesAre

(* One more taken is one less on the wire.                                 *)
LEMMA OneLess ==
  ASSUME NEW s \in Int, NEW t \in Int, NEW u, u = t + 1, NEW l, l = s - t
  PROVE  s - t = l /\ s - u = l - 1
  OBVIOUS

(* The number of injectors loaded goes out.                                *)
LEMMA NumberSent ==
  ASSUME NEW rs \in Nat, NEW rr \in Nat, NEW j \in 0..3, NEW W \in Seq(Message), NEW nr, NEW po,
         NEW L, Channel(rs, 0, rr, j, W, L, nr, po), NEW M \in Seq(Injector)
  PROVE  Channel(rs, 1, rr, j, Append(W, CountMsg(Len(M))), M, nr, po)
<1> DEFINE m == CountMsg(Len(M))
           X == Append(W, m)
           n == Len(M)
<1>1. n \in Nat /\ m \in Message /\ IsCount(m) /\ m.n = n
  <2>1. n \in Nat
    OBVIOUS
  <2> QED BY <2>1, MessagesAre, Zenon
<1> HIDE DEF m, n
<1>2. Len(W) \in Nat /\ Len(X) = Len(W) + 1 /\ X[Len(W) + 1] = m /\ \A k \in 1 .. Len(W) : X[k] = W[k]
  BY <1>1, WireIs
<1> HIDE DEF X
<1>3. Channel(rs, 1, rr, j, X, M, nr, po)
  <2>1. SentBy(rs, 0) = 2 * rs /\ SentBy(rs, 1) = 2 * rs + 1
    BY StagesAre
  <2>2. CASE j = 2
    <3>1. TakenBy(rr, j) = 2 * rr + 1
      BY <2>2, StagesAre
    <3>2. Len(W) = 1 /\ Len(X) = 2 /\ X[1] = W[1] /\ X[2] = m
      BY <1>2, <2>1, <2>2, <3>1 DEF Channel
    <3>3. SentBy(rs, 1) - TakenBy(rr, j) = 2 /\ SentBy(rs, 0) - TakenBy(rr, j) = 1
      BY <2>1, <3>1, <3>2 DEF Channel
    <3> QED BY <1>1, <2>2, <3>2, <3>3 DEF Channel, n
  <2>3. CASE j # 2
    <3>1. TakenBy(rr, j) = 2 * rr \/ TakenBy(rr, j) = 2 * rr + 2
      BY <2>3, StagesType, Zenon
    <3>2. Len(W) = 0 /\ Len(X) = 1 /\ X[1] = m
      BY <1>2, <2>1, <2>3, <3>1 DEF Channel
    <3>3. SentBy(rs, 1) - TakenBy(rr, j) = 1 /\ SentBy(rs, 0) - TakenBy(rr, j) = 0
      BY <2>1, <3>1, <3>2 DEF Channel
    <3> QED BY <1>1, <2>3, <3>2, <3>3 DEF Channel, n
  <2> QED BY <2>2, <2>3
<1> QED BY <1>3 DEF X, m, n

(* The injectors follow it once the number is taken or its receive posted. *)
LEMMA InjectorsSent ==
  ASSUME NEW rs \in Nat, NEW rr \in Nat, NEW j \in 0..3, NEW W \in Seq(Message), NEW nr, NEW po,
         NEW L \in Seq(Injector), Channel(rs, 1, rr, j, W, L, nr, po),
         Len(W) - (IF po # 0 THEN 1 ELSE 0) <= 0
  PROVE  Channel(rs, 2, rr, j, Append(W, DataMsg(L)), <<>>, nr, po)
<1> DEFINE m == DataMsg(L)
           X == Append(W, m)
<1>1. m \in Message /\ IsData(m) /\ m.inj = L
  BY MessagesAre
<1> HIDE DEF m
<1>2. Len(W) \in Nat /\ Len(X) = Len(W) + 1 /\ X[Len(W) + 1] = m /\ \A k \in 1 .. Len(W) : X[k] = W[k]
  BY <1>1, WireIs
<1> HIDE DEF X
<1>3. Channel(rs, 2, rr, j, X, <<>>, nr, po)
  <2>1. SentBy(rs, 1) = 2 * rs + 1 /\ SentBy(rs, 2) = 2 * rs + 2
    BY StagesAre
  <2>2. Len(W) <= 1
    BY <1>2
  <2>3. CASE j = 2
    <3>1. TakenBy(rr, j) = 2 * rr + 1
      BY <2>3, StagesAre
    <3>0. Len(W) = SentBy(rs, 1) - TakenBy(rr, j)
      BY DEF Channel
    <3>4. Len(W) = 0
      BY <1>2, <2>1, <2>2, <3>0, <3>1
    <3>2. Len(W) = 0 /\ Len(X) = 1 /\ X[1] = m
      BY <1>2, <3>4
    <3>3. SentBy(rs, 2) - TakenBy(rr, j) = 1 /\ SentBy(rs, 1) - TakenBy(rr, j) = 0
      BY <2>1, <3>0, <3>1, <3>4
    <3> QED BY <1>1, <2>3, <3>2, <3>3 DEF Channel
  <2>4. CASE j # 2
    <3>1. TakenBy(rr, j) = 2 * rr \/ TakenBy(rr, j) = 2 * rr + 2
      BY <2>4, StagesType, Zenon
    <3>0. Len(W) = SentBy(rs, 1) - TakenBy(rr, j)
      BY DEF Channel
    <3>2. Len(W) = 1
      BY <1>2, <2>1, <2>2, <3>0, <3>1
    <3>3. Len(X) = 2 /\ X[1] = W[1] /\ X[2] = m
      BY <1>2, <3>2
    <3>4. SentBy(rs, 2) - TakenBy(rr, j) = 2 /\ SentBy(rs, 1) - TakenBy(rr, j) = 1
      BY <2>1, <3>0, <3>1, <3>2
    <3> QED BY <1>1, <2>4, <3>2, <3>3, <3>4 DEF Channel
  <2> QED BY <2>3, <2>4
<1> QED BY <1>3 DEF X, m

(* The number arrives where it is expected.                                *)
LEMMA NumberTaken ==
  ASSUME NEW rs \in Nat, NEW i \in 0..3, NEW rr \in Nat, NEW W \in Seq(Message), NEW nr, NEW po,
         NEW L, Channel(rs, i, rr, 1, W, L, nr, po), W # <<>>
  PROVE  /\ Head(W) \in Message /\ Head(W).sz = po /\ Head(W).inj = <<>>
         /\ Channel(rs, i, rr, 2, Tail(W), L, Head(W).n, DataSize(Head(W).n))
<1> DEFINE X == Tail(W)
<1>1. /\ Head(W) = W[1] /\ W[1] \in Message /\ Len(W) \in Nat /\ Len(W) >= 1
      /\ Len(X) = Len(W) - 1 /\ \A k \in 1 .. Len(W) - 1 : X[k] = W[k + 1]
  <2>1. CountMsg(0) \in Message
    BY MessagesAre
  <2> QED BY <2>1, WireIs
<1> HIDE DEF X
<1>2. TakenBy(rr, 1) = 2 * rr /\ TakenBy(rr, 2) = 2 * rr + 1
  BY StagesAre
<1>3. /\ SentBy(rs, i) - TakenBy(rr, 1) = Len(W)
      /\ SentBy(rs, i) - TakenBy(rr, 2) = Len(W) - 1
  <2>1. Len(W) = SentBy(rs, i) - TakenBy(rr, 1)
    BY DEF Channel
  <2>2. SentBy(rs, i) \in Int
    BY StagesType, Zenon
  <2>3. TakenBy(rr, 1) \in Int
    BY <1>2
  <2>4. TakenBy(rr, 2) = TakenBy(rr, 1) + 1
    BY <1>2
  <2> QED BY <2>1, <2>2, <2>3, <2>4, OneLess
<1>4. IsCount(W[1]) /\ po = CountSize
  BY <1>1, <1>2, <1>3 DEF Channel
<1>5. CASE Len(W) = 1
  <2>1. SentBy(rs, i) - TakenBy(rr, 1) = 1 /\ SentBy(rs, i) - TakenBy(rr, 2) = 0
    BY <1>3, <1>5
  <2>2. Channel(rs, i, rr, 2, X, L, W[1].n, DataSize(W[1].n))
    BY <1>1, <1>5, <2>1 DEF Channel
  <2> QED BY <1>1, <1>4, <2>2 DEF X, IsCount
<1>6. CASE Len(W) = 2
  <2>1. SentBy(rs, i) - TakenBy(rr, 1) = 2 /\ SentBy(rs, i) - TakenBy(rr, 2) = 1
    BY <1>3, <1>6
  <2>2. X[1] = W[2]
    BY <1>1, <1>6
  <2>3. Channel(rs, i, rr, 2, X, L, W[1].n, DataSize(W[1].n))
    BY <1>1, <1>6, <2>1, <2>2 DEF Channel
  <2> QED BY <1>1, <1>4, <2>3 DEF X, IsCount
<1>7. Len(W) <= 2
  BY DEF Channel
<1> QED BY <1>1, <1>5, <1>6, <1>7

(* So do the injectors, as many as that.                                   *)
LEMMA InjectorsTaken ==
  ASSUME NEW rs \in Nat, NEW i \in 0..3, NEW rr \in Nat, NEW W \in Seq(Message), NEW nr, NEW po,
         NEW L, Channel(rs, i, rr, 2, W, L, nr, po), W # <<>>
  PROVE  /\ Head(W) \in Message /\ Head(W).sz = po /\ Len(Head(W).inj) = nr
         /\ Channel(rs, i, rr, 3, Tail(W), L, nr, 0)
<1> DEFINE X == Tail(W)
<1>1. /\ Head(W) = W[1] /\ W[1] \in Message /\ Len(W) \in Nat /\ Len(W) >= 1
      /\ Len(X) = Len(W) - 1 /\ \A k \in 1 .. Len(W) - 1 : X[k] = W[k + 1]
  <2>1. CountMsg(0) \in Message
    BY MessagesAre
  <2> QED BY <2>1, WireIs
<1> HIDE DEF X
<1>2. TakenBy(rr, 2) = 2 * rr + 1 /\ TakenBy(rr, 3) = 2 * rr + 2
  BY StagesAre
<1>3. /\ SentBy(rs, i) - TakenBy(rr, 2) = Len(W)
      /\ SentBy(rs, i) - TakenBy(rr, 3) = Len(W) - 1
  <2>1. Len(W) = SentBy(rs, i) - TakenBy(rr, 2)
    BY DEF Channel
  <2>2. SentBy(rs, i) \in Int
    BY StagesType, Zenon
  <2>3. TakenBy(rr, 2) \in Int
    BY <1>2
  <2>4. TakenBy(rr, 3) = TakenBy(rr, 2) + 1
    BY <1>2
  <2> QED BY <2>1, <2>2, <2>3, <2>4, OneLess
<1>4. IsData(W[1]) /\ Len(W[1].inj) = nr /\ po = DataSize(nr)
  BY <1>1, <1>2, <1>3 DEF Channel
<1>5. W[1].sz = po
  BY <1>4 DEF IsData
<1>6. CASE Len(W) = 1
  <2>1. SentBy(rs, i) - TakenBy(rr, 2) = 1 /\ SentBy(rs, i) - TakenBy(rr, 3) = 0
    BY <1>3, <1>6
  <2>2. Channel(rs, i, rr, 3, X, L, nr, 0)
    BY <1>1, <1>6, <2>1 DEF Channel
  <2> QED BY <1>1, <1>4, <1>5, <2>2 DEF X
<1>7. CASE Len(W) = 2
  <2>1. SentBy(rs, i) - TakenBy(rr, 2) = 2 /\ SentBy(rs, i) - TakenBy(rr, 3) = 1
    BY <1>3, <1>7
  <2>2. X[1] = W[2]
    BY <1>1, <1>7
  <2>3. Channel(rs, i, rr, 3, X, L, nr, 0)
    BY <1>1, <1>7, <2>1, <2>2 DEF Channel
  <2> QED BY <1>1, <1>4, <1>5, <2>3 DEF X
<1>8. Len(W) <= 2
  BY DEF Channel
<1> QED BY <1>1, <1>6, <1>7, <1>8

(* The sender goes on when its injectors' receive is posted.               *)
LEMMA InjectorsMatched ==
  ASSUME NEW rs \in Nat, NEW rr \in Nat, NEW j \in 0..3, NEW W \in Seq(Message), NEW nr, NEW po,
         NEW L, Channel(rs, 2, rr, j, W, L, nr, po),
         Len(W) - (IF po # 0 THEN 1 ELSE 0) <= 0
  PROVE  Channel(rs, 3, rr, j, W, L, nr, po)
<1>1. SentBy(rs, 2) = SentBy(rs, 3)
  BY StagesAre
<1>2. Len(W) \in Nat
  OBVIOUS
<1>3. Len(W) <= 1
  BY <1>2
<1> QED BY <1>1, <1>3 DEF Channel

(* Both go on to the next round when they like.                            *)
LEMMA RoundsFollow ==
  ASSUME NEW rs \in Nat, NEW i \in 0..3, NEW rr \in Nat, NEW j \in 0..3, NEW W, NEW nr, NEW po, NEW L,
         Channel(rs, i, rr, j, W, L, nr, po)
  PROVE  /\ i = 3 => Channel(rs + 1, 0, rr, j, W, L, nr, po)
         /\ j = 3 => Channel(rs, i, rr + 1, 0, W, L, nr, po)
         /\ j = 0 => Channel(rs, i, rr, 1, W, L, nr, CountSize)
<1>1. SentBy(rs + 1, 0) = SentBy(rs, 3)
  BY StagesAre
<1>2. TakenBy(rr + 1, 0) = TakenBy(rr, 3) /\ TakenBy(rr, 1) = TakenBy(rr, 0)
  BY StagesAre
<1>3. i = 3 => Channel(rs + 1, 0, rr, j, W, L, nr, po)
  BY <1>1 DEF Channel
<1>4. j = 3 => Channel(rs, i, rr + 1, 0, W, L, nr, po)
  BY <1>2 DEF Channel
<1>5. j = 0 => Channel(rs, i, rr, 1, W, L, nr, CountSize)
  BY <1>2 DEF Channel
<1> QED BY <1>3, <1>4, <1>5
-----------------------------------------------------------------------------
(* Removal: the movers m of a list q0 in reverse order, each particle's    *)
(* hole filled with the last of what is left.  While k movers are left, q  *)
(* is as it was up to the next one, and what no mover is left for has had  *)
(* none.                                                                   *)
Stay(q0, m) == {q0[h] : h \in {g \in DOMAIN q0 : ~Moving(m, g)}}
Peeled(q0, m, k, q) ==
  /\ q \in Seq(Part) /\ Len(q) <= Len(q0)
  /\ k > 0 => m[k].i <= Len(q) /\ \A i \in 1 .. m[k].i : q[i] = q0[i]
  /\ \A i \in 1 .. Len(q) : (\A j \in 1 .. k : m[j].i # i) => q[i] \in Stay(q0, m)

(* Before the first removal.                                               *)
LEMMA PeelStarts ==
  ASSUME NEW r, NEW q0, NEW m, Listed(r, q0, m)
  PROVE  Peeled(q0, m, Len(m), q0)
<1>1. /\ q0 \in Seq(Part) /\ m \in Seq(Mover) /\ Len(q0) \in Nat /\ Len(m) \in Nat
      /\ DOMAIN q0 = 1 .. Len(q0) /\ DOMAIN m = 1 .. Len(m)
  BY DEF Listed
<1>2. Len(m) > 0 => m[Len(m)].i <= Len(q0)
  BY <1>1 DEF Listed, Indexes
<1>3. ASSUME NEW i \in 1 .. Len(q0), \A j \in 1 .. Len(m) : m[j].i # i
      PROVE  q0[i] \in Stay(q0, m)
  <2>1. ~ Moving(m, i)
    BY <1>1, <1>3 DEF Moving
  <2> QED BY <1>1, <2>1 DEF Stay
<1> QED BY <1>1, <1>2, <1>3 DEF Peeled

(* One removal: the particle it takes is the one the mover was for.        *)
LEMMA PeelNext ==
  ASSUME NEW r, NEW q0, NEW m, Listed(r, q0, m), NEW k \in 1 .. Len(m), NEW q, Peeled(q0, m, k, q)
  PROVE  /\ m[k] \in Mover /\ m[k].i \in DOMAIN q /\ m[k].i \in DOMAIN q0
         /\ q[m[k].i] = q0[m[k].i] /\ Stopped(r, q[m[k].i].i)
         /\ Peeled(q0, m, k - 1, Backfill(q, m[k].i))
<1> DEFINE n == Len(q)
           x == m[k].i
           b == Backfill(q, x)
<1>1. /\ q0 \in Seq(Part) /\ m \in Seq(Mover) /\ Len(q0) \in Nat /\ Len(m) \in Nat
      /\ DOMAIN q0 = 1 .. Len(q0) /\ DOMAIN m = 1 .. Len(m) /\ k \in 1 .. Len(m)
  BY DEF Listed
<1>2. m[k] \in Mover /\ x \in 1 .. Len(q0)
  BY <1>1 DEF Listed, Indexes
<1>3. /\ q \in Seq(Part) /\ n \in Nat /\ DOMAIN q = 1 .. n /\ n <= Len(q0)
      /\ x <= n /\ \A i \in 1 .. x : q[i] = q0[i]
  BY <1>1 DEF Peeled
<1>4. x \in 1 .. n
  BY <1>1, <1>2, <1>3
<1>5. q[x] = q0[x]
  BY <1>3, <1>4
<1>6. Stopped(r, q[x].i)
  <2>1. Moving(m, x)
    BY <1>1 DEF Moving
  <2> QED BY <1>1, <1>2, <1>5, <2>1, Zenon DEF Listed, Stands
<1>7. /\ b \in Seq(Part) /\ Len(b) = n - 1 /\ DOMAIN b = 1 .. n - 1
      /\ \A i \in 1 .. n - 1 : b[i] = IF i = x THEN q[n] ELSE q[i]
  <2>1. x \in DOMAIN q
    BY <1>3, <1>4
  <2> HIDE DEF x
  <2> QED BY <1>3, <2>1, BackfillIs, Zenon
<1>8. ASSUME NEW j \in 1 .. k - 1
      PROVE  m[j].i < x /\ m[j].i \in Nat
  <2>1. j \in DOMAIN m /\ k \in DOMAIN m /\ j < k
    BY <1>1
  <2>2. m[j].i < x
    BY <2>1, Zenon DEF Listed, Indexes
  <2>3. m[j] \in Mover
    BY <1>1, <2>1
  <2> QED BY <2>2, <2>3 DEF Mover
<1> HIDE DEF n, x, b
<1>9. k - 1 > 0 => m[k - 1].i <= n - 1 /\ \A i \in 1 .. m[k - 1].i : b[i] = q0[i]
  <2> SUFFICES ASSUME k - 1 > 0
               PROVE  m[k - 1].i <= n - 1 /\ \A i \in 1 .. m[k - 1].i : b[i] = q0[i]
    OBVIOUS
  <2>1. m[k - 1].i < x /\ m[k - 1].i \in Nat
    BY <1>1, <1>8
  <2>2. m[k - 1].i <= n - 1
    BY <1>3, <1>4, <2>1
  <2>3. ASSUME NEW i \in 1 .. m[k - 1].i
        PROVE  b[i] = q0[i]
    <3>1. i \in 1 .. n - 1 /\ i # x /\ i \in 1 .. x
      BY <1>3, <1>4, <2>1, <2>2
    <3> QED BY <1>3, <1>7, <3>1, Zenon
  <2> QED BY <2>2, <2>3
<1>10. ASSUME NEW i \in 1 .. n - 1, \A j \in 1 .. k - 1 : m[j].i # i
       PROVE  b[i] \in Stay(q0, m)
  <2>1. CASE i = x
    <3>1. n \in 1 .. Len(q)
      BY <1>3, <1>4 DEF n
    <3>2. \A j \in 1 .. k : m[j].i # n
      <4> TAKE j \in 1 .. k
      <4>1. CASE j = k
        BY <1>3, <2>1, <4>1 DEF x
      <4>2. CASE j # k
        <5>1. j \in 1 .. k - 1
          BY <1>1, <4>2
        <5>2. m[j].i < x /\ m[j].i \in Nat
          BY <1>8, <5>1
        <5> QED BY <1>3, <1>4, <5>2
      <4> QED BY <4>1, <4>2
    <3>3. q[n] \in Stay(q0, m)
      BY <3>1, <3>2, Zenon DEF Peeled
    <3> QED BY <1>7, <2>1, <3>3
  <2>2. CASE i # x
    <3>1. i \in 1 .. Len(q)
      BY <1>3 DEF n
    <3>2. \A j \in 1 .. k : m[j].i # i
      <4> TAKE j \in 1 .. k
      <4>1. CASE j = k
        BY <2>2, <4>1 DEF x
      <4>2. CASE j # k
        <5>1. j \in 1 .. k - 1
          BY <1>1, <4>2
        <5> QED BY <1>10, <5>1
      <4> QED BY <4>1, <4>2
    <3>3. q[i] \in Stay(q0, m)
      BY <3>1, <3>2, Zenon DEF Peeled
    <3> QED BY <1>7, <2>2, <3>3
  <2> QED BY <2>1, <2>2
<1>11. Peeled(q0, m, k - 1, b)
  <2>1. Len(b) <= Len(q0)
    BY <1>1, <1>3, <1>7
  <2> QED BY <1>7, <1>9, <1>10, <2>1 DEF Peeled
<1> QED BY <1>1, <1>2, <1>3, <1>4, <1>5, <1>6, <1>11, Zenon DEF b, x, n

(* After the last one every particle is in a cell.                         *)
LEMMA PeelEnds ==
  ASSUME NEW r, NEW q0, NEW m, Listed(r, q0, m), NEW q, Peeled(q0, m, 0, q)
  PROVE  Listed(r, q, <<>>) /\ \A i \in DOMAIN q : q[i] \in Stay(q0, m)
<1>1. q \in Seq(Part) /\ \A i \in 1 .. Len(q) : q[i] \in Stay(q0, m)
  BY DEF Peeled
<1>2. DOMAIN q = 1 .. Len(q)
  BY <1>1
<1>3. \A e \in Stay(q0, m) : IsCell(e.i)
  BY DEF Stay, Listed, Stands
<1>4. <<>> \in Seq(Mover) /\ Indexes(q, <<>>)
  BY DEF Indexes
<1>5. Stands(r, q, <<>>)
  BY <1>1, <1>2, <1>3 DEF Stands, Moving
<1> QED BY <1>1, <1>2, <1>4, <1>5 DEF Listed
-----------------------------------------------------------------------------
(* Where each particle is: w says it of every name.                        *)
OnList(r, s) == <<"list", r, s>>
InSend(r, f) == <<"send", r, f>>
OnWire(r, f) == <<"wire", r, f>>
InCi(r) == <<"ci", r, 0>>
AtRhob == <<"rhob", 0, 0>>
Gone == <<"dropped", 0, 0>>

Spots ==
  {OnList(r, s) : r \in Rank, s \in Species} \cup {InSend(r, f) : r \in Rank, f \in Face}
  \cup {OnWire(r, f) : r \in Rank, f \in Face} \cup {InCi(r) : r \in Rank} \cup {AtRhob, Gone}

(* Those that boundary_p moves particles between without a message.        *)
Near(r) ==
  {OnList(r, s) : s \in Species} \cup {InSend(r, f) : f \in Face} \cup {InCi(r), AtRhob, Gone}

(* Two names of a place are of two places.                                 *)
LEMMA SpotsDiffer ==
  ASSUME NEW r, NEW s, NEW q, NEW t
  PROVE  /\ OnList(r, s) = OnList(q, t) => r = q /\ s = t
         /\ InSend(r, s) = InSend(q, t) => r = q /\ s = t
         /\ OnWire(r, s) = OnWire(q, t) => r = q /\ s = t
         /\ InCi(r) = InCi(q) => r = q
         /\ OnList(r, s) \notin {InSend(q, t), OnWire(q, t), InCi(q), AtRhob, Gone}
         /\ InSend(r, s) \notin {OnWire(q, t), InCi(q), AtRhob, Gone}
         /\ OnWire(r, s) \notin {InCi(q), AtRhob, Gone}
         /\ InCi(r) \notin {AtRhob, Gone} /\ AtRhob # Gone
  BY DEF OnList, InSend, OnWire, InCi, AtRhob, Gone

(* A list holds the particles that are at x, each once; those accumulated  *)
(* to rhob were so once.                                                   *)
Box(w, x, seq) == Distinct(seq) /\ \A id \in Ids : id \in Names(seq) <=> w[id] = x
Ends(w, R, D) ==
  /\ R = [id \in Ids |-> IF w[id] = AtRhob THEN 1 ELSE 0]
  /\ D = {id \in Ids : w[id] = Gone}

(* Rank r's lists P, S and C hold what w says, R and D what left the grid; *)
(* since w0 particles have only moved there.                               *)
Held(w0, w, r, P, S, C, R, D) ==
  /\ w \in [Ids -> Spots]
  /\ \A s \in Species : Box(w, OnList(r, s), P[s])
  /\ \A f \in Face : Box(w, InSend(r, f), S[f])
  /\ Box(w, InCi(r), C) /\ Ends(w, R, D)
  /\ \A id \in Ids : w[id] = w0[id] \/ (w0[id] \in Near(r) /\ w[id] \in Near(r))

(* A list whose particles stay where they are.                             *)
LEMMA BoxKeeps ==
  ASSUME NEW w, NEW v, NEW x, NEW seq, Box(w, x, seq), \A id \in Ids : w[id] = x <=> v[id] = x
  PROVE  Box(v, x, seq)
  BY DEF Box

(* A particle goes from one list to another place.                         *)
LEMMA BoxLoses ==
  ASSUME NEW w \in [Ids -> Spots], NEW x, NEW y \in Spots, x # y, NEW q \in Seq(Part), Box(w, x, q),
         NEW i \in DOMAIN q
  PROVE  Box([w EXCEPT ![q[i].id] = y], x, Backfill(q, i))
<1>1. Distinct(q) /\ \A id \in Ids : id \in Names(q) <=> w[id] = x
  BY DEF Box
<1>2. q[i].id \in Ids
  <2>1. q[i] \in Part
    OBVIOUS
  <2> QED BY <2>1 DEF Part
<1>3. Names(Backfill(q, i)) = Names(q) \ {q[i].id} /\ Distinct(Backfill(q, i))
  BY <1>1, BackfillNames
<1> QED BY <1>1, <1>2, <1>3 DEF Box

(* A particle that arrives is appended to the list of its new place.       *)
LEMMA BoxGains ==
  ASSUME NEW w \in [Ids -> Spots], NEW y \in Spots, NEW q \in Seq(Injector), Box(w, y, q),
         NEW e \in Injector, w[e.id] # y
  PROVE  Box([w EXCEPT ![e.id] = y], y, Append(q, e))
<1>1. Distinct(q) /\ \A id \in Ids : id \in Names(q) <=> w[id] = y
  BY DEF Box
<1>2. e.id \in Ids
  BY DEF Injector
<1>3. e.id \notin Names(q)
  BY <1>1, <1>2
<1>4. Names(Append(q, e)) = Names(q) \cup {e.id} /\ Distinct(Append(q, e))
  BY <1>1, <1>3, AppendNames
<1> QED BY <1>1, <1>2, <1>4 DEF Box

(* One particle leaves list s of rank r for y.                             *)
Departed(w0, w, r, P, s, i, y) ==
  LET id == P[s][i].id
      v  == [w EXCEPT ![id] = y]
  IN /\ id \in Ids /\ w[id] = OnList(r, s) /\ y \in Spots /\ w[id] # y
     /\ v \in [Ids -> Spots]
     /\ \A t \in Species : Box(v, OnList(r, t), [P EXCEPT ![s] = Backfill(P[s], i)][t])
     /\ \A n \in Ids : v[n] = w0[n] \/ (w0[n] \in Near(r) /\ v[n] \in Near(r))
     /\ \A z : z # y /\ z # OnList(r, s) => \A n \in Ids : w[n] = z <=> v[n] = z

(* Only that changes.                                                      *)
LEMMA OneLeaves ==
  ASSUME NEW r \in Rank, NEW w0, NEW w, NEW P \in [Species -> Seq(Part)], NEW S, NEW C, NEW R, NEW D,
         Held(w0, w, r, P, S, C, R, D), NEW s \in Species, NEW i \in DOMAIN P[s],
         NEW y \in {InSend(r, f) : f \in Face} \cup {InCi(r), AtRhob, Gone}
  PROVE  Departed(w0, w, r, P, s, i, y)
<1> DEFINE id == P[s][i].id
           v == [w EXCEPT ![id] = y]
<1>1. P[s] \in Seq(Part)
  OBVIOUS
<1>2. id \in Ids
  <2>1. P[s][i] \in Part
    BY <1>1
  <2> QED BY <2>1 DEF Part
<1>3. id \in Names(P[s])
  BY DEF Names
<1>4. w \in [Ids -> Spots] /\ w[id] = OnList(r, s)
  BY <1>2, <1>3 DEF Held, Box
<1>5. y \in Spots /\ y # OnList(r, s)
  <2>1. CASE y \in {InSend(r, f) : f \in Face}
    BY <2>1, SpotsDiffer DEF Spots
  <2>2. CASE y \in {InCi(r), AtRhob, Gone}
    BY <2>2, SpotsDiffer DEF Spots
  <2> QED BY <2>1, <2>2
<1>6. v \in [Ids -> Spots] /\ v[id] = y /\ \A n \in Ids : n # id => v[n] = w[n]
  BY <1>2, <1>4, <1>5
<1>7. Box(v, OnList(r, s), Backfill(P[s], i))
  <2>1. Box(w, OnList(r, s), P[s])
    BY DEF Held
  <2> QED BY <1>1, <1>4, <1>5, <2>1, BoxLoses, Zenon
<1> HIDE DEF v, id
<1>8. ASSUME NEW z, z # y, z # OnList(r, s), NEW n \in Ids
      PROVE  w[n] = z <=> v[n] = z
  BY <1>2, <1>4, <1>6, <1>8
<1>9. ASSUME NEW t \in Species
      PROVE  Box(v, OnList(r, t), [P EXCEPT ![s] = Backfill(P[s], i)][t])
  <2>1. CASE t = s
    <3>1. [P EXCEPT ![s] = Backfill(P[s], i)][t] = Backfill(P[s], i)
      BY <2>1
    <3> QED BY <1>7, <2>1, <3>1
  <2>2. CASE t # s
    <3>1. [P EXCEPT ![s] = Backfill(P[s], i)][t] = P[t]
      BY <2>2
    <3>2. OnList(r, t) # OnList(r, s) /\ OnList(r, t) # y
      BY <2>2, SpotsDiffer
    <3>3. \A n \in Ids : w[n] = OnList(r, t) <=> v[n] = OnList(r, t)
      BY <1>8, <3>2, Zenon
    <3>4. Box(w, OnList(r, t), P[t])
      BY DEF Held
    <3> QED BY <3>1, <3>3, <3>4, BoxKeeps
  <2> QED BY <2>1, <2>2
<1>10. y \in Near(r) /\ OnList(r, s) \in Near(r)
  BY DEF Near
<1>11. ASSUME NEW n \in Ids
       PROVE  v[n] = w0[n] \/ (w0[n] \in Near(r) /\ v[n] \in Near(r))
  <2>1. w[n] = w0[n] \/ (w0[n] \in Near(r) /\ w[n] \in Near(r))
    BY DEF Held
  <2> QED BY <1>4, <1>6, <1>10, <2>1
<1> QED BY <1>2, <1>4, <1>5, <1>6, <1>8, <1>9, <1>11, Zenon DEF v, id, Departed
-----------------------------------------------------------------------------
(* What the loop over the movers fills.                                    *)
Buffers == [p : [Species -> Seq(Part)], send : [Face -> Seq(Injector)], ci : Seq(Injector),
            rhob : [Ids -> Nat], tally : [Species -> Nat], met : SUBSET Ids, dropped : SUBSET Ids]
Loaded(r, a) == a \in Buffers /\ \A f \in Face : ~shared(r, f) => a.send[f] = <<>>

(* Where one particle went.                                                *)
Absorbed(a, b, id) ==
  /\ b.rhob = [a.rhob EXCEPT ![id] = @ + 1]
  /\ b.send = a.send /\ b.ci = a.ci /\ b.dropped = a.dropped
Sent(a, b, id) ==
  /\ \E f \in Face, e \in Injector : e.id = id /\ b.send = [a.send EXCEPT ![f] = Append(@, e)]
  /\ b.rhob = a.rhob /\ b.ci = a.ci /\ b.dropped = a.dropped
Reinjected(a, b, id) ==
  /\ \E e \in Injector : e.id = id /\ b.ci = Append(a.ci, e)
  /\ b.rhob = a.rhob /\ b.send = a.send /\ b.dropped = a.dropped
Dropped(a, b, id) ==
  b.dropped = a.dropped \cup {id} /\ b.rhob = a.rhob /\ b.send = a.send /\ b.ci = a.ci
Went(a, b, id) == Absorbed(a, b, id) \/ Sent(a, b, id) \/ Reinjected(a, b, id) \/ Dropped(a, b, id)

(* What a refluxing wall draws for a particle that stands at one.          *)
LEMMA DrawsAre ==
  ASSUME Fixed, NEW r \in Rank, NEW back \in Draws(r), NEW s \in Species, NEW m \in ToSet(pm[r][s]),
         NEW q, q = p[r][s][m.i], NEW k, k = -neighbor(r, q.i \div 8, q.i % 8) - 2,
         k \in 1 .. nb, Pbcs[k] = "reflux", q.i % 8 \in Face
  PROVE  back[[id |-> q.id, f |-> q.i % 8]] \in Seq(Face)
<1> DEFINE x == [id |-> q.id, f |-> q.i % 8]
           Hit(t) == {[id |-> p[r][t][u.i].id, f |-> p[r][t][u.i].i % 8] :
                      u \in {mm \in ToSet(pm[r][t]) :
                               LET i == p[r][t][mm.i].i
                                   j == -neighbor(r, i \div 8, i % 8) - 2
                               IN j \in 1..nb /\ Pbcs[j] = "reflux"}}
<1>1. x \in Hit(s)
  <2>1. m \in {mm \in ToSet(pm[r][s]) : LET i == p[r][s][mm.i].i
                                             j == -neighbor(r, i \div 8, i % 8) - 2
                                         IN j \in 1..nb /\ Pbcs[j] = "reflux"}
    BY Zenon
  <2> QED BY <2>1, Zenon
<1>2. x \in AtReflux(r)
  <2>1. AtReflux(r) = UNION {Hit(t) : t \in Species}
    BY Zenon DEF AtReflux
  <2> HIDE DEF Hit, x
  <2> QED BY <1>1, <2>1, Zenon
<1>3. back[x] \in Refluxed[x.f]
  BY <1>2, Zenon DEF Draws
<1>4. Refluxed[q.i % 8] \subseteq Seq(Face)
  BY FixedIs, BoundaryPAssumption, Zenon DEF Refluxed
<1> QED BY <1>3, <1>4, Zenon

(* A particle whose face is another rank's is bound for a cell of it.      *)
LEMMA AnotherRank ==
  ASSUME Fixed, NEW r \in Rank, NEW i, Stopped(r, i), OnAnotherRank(r, neighbor(r, i \div 8, i % 8))
  PROVE  LET f == i % 8
             nn == neighbor(r, i \div 8, f)
         IN shared(r, f) /\ ~(nn < 0) /\ RemoteCell(r, f, nn) \in CellNo
<1> DEFINE f == i % 8
           voxel == i \div 8
           nn == neighbor(r, voxel, f)
<1>1. IsCell(voxel) /\ f \in Face /\ (nn < rangel(r) \/ nn > rangeh(r)) /\ OnAnotherRank(r, nn)
  BY DEF Stopped
<1>2. /\ nn \in Int /\ rangel(r) \in Int /\ rangeh(r) \in Int /\ 0 <= rangel(r)
      /\ nn >= 0 => \/ nn >= rangel(r) /\ nn <= rangeh(r)
                    \/ shared(r, f) /\ IsCell(nn - rangel(bc(r, f)))
  <2> HIDE DEF f, voxel
  <2> QED BY <1>1, NeighborIs
<1> HIDE DEF nn
<1>3. \/ nn >= 0 /\ nn < rangel(r)
      \/ nn > rangeh(r)
  BY <1>1 DEF OnAnotherRank
<1>4. rangel(r) <= rangeh(r) + 1
  <2>1. rangel(r) = range(Deck, r) /\ rangeh(r) = range(Deck, r + 1) - 1
    BY FixedIs
  <2>2. /\ nv(LocalSize(Deck)) \in Nat /\ range(Deck, r) \in Int
        /\ range(Deck, r + 1) = range(Deck, r) + nv(LocalSize(Deck))
    <3>1. WellFormed(Deck) /\ r \in Int
      <4>1. WellFormed(Deck) /\ Rank = Ranks(Deck)
        BY FixedIs
      <4> QED BY <4>1, RanksAre
    <3> QED BY <3>1, Sizes
  <2> QED BY <2>1, <2>2
<1>5. nn >= 0
  BY <1>2, <1>3, <1>4
<1>6. shared(r, f) /\ IsCell(nn - rangel(bc(r, f)))
  BY <1>1, <1>2, <1>5
<1>7. RemoteCell(r, f, nn) \in CellNo
  BY <1>6, CellNos DEF RemoteCell
<1> QED BY <1>2, <1>5, <1>6, <1>7 DEF nn, f, voxel

(* One mover: its particle leaves the list for one other place.            *)
LEMMA Load1Is ==
  ASSUME Fixed, NEW r \in Rank, NEW back \in Draws(r), NEW s \in Species, NEW m \in ToSet(pm[r][s]),
         m \in Mover, NEW a, Loaded(r, a), m.i \in DOMAIN a.p[s], a.p[s][m.i] = p[r][s][m.i],
         Stopped(r, a.p[s][m.i].i)
  PROVE  LET b  == Load1(r, s, m, back, a)
             id == a.p[s][m.i].id
         IN /\ Loaded(r, b) /\ b.p = [a.p EXCEPT ![s] = Backfill(a.p[s], m.i)]
            /\ Went(a, b, id)
<1> DEFINE q == a.p[s][m.i]
           f == q.i % 8
           voxel == q.i \div 8
           nn == neighbor(r, voxel, f)
           k == -nn - 2
           P == [a.p EXCEPT ![s] = Backfill(a.p[s], m.i)]
           gone == [a EXCEPT !.p = P]
           injector(i, disp) == [id |-> q.id, i |-> i, sp |-> s, disp |-> disp]
           b == Load1(r, s, m, back, a)
<1>1. a \in Buffers /\ \A g \in Face : ~shared(r, g) => a.send[g] = <<>>
  BY DEF Loaded
<1>2. a.p \in [Species -> Seq(Part)] /\ a.p[s] \in Seq(Part)
  BY <1>1 DEF Buffers
<1>3. q \in Part /\ m.disp \in Seq(Face)
  <2>1. m.disp \in Seq(Face)
    BY DEF Mover
  <2> QED BY <1>2, <2>1
<1>4. q.id \in Ids /\ q.i \in Nat
  BY <1>3, Zenon DEF Part
<1>5. IsCell(voxel) /\ f \in Face /\ (nn < rangel(r) \/ nn > rangeh(r))
  BY Zenon DEF Stopped
<1>6. voxel \in CellNo
  BY <1>5, CellNos
<1>7. P \in [Species -> Seq(Part)]
  <2>1. Backfill(a.p[s], m.i) \in Seq(Part)
    BY <1>2, BackfillIs
  <2> QED BY <1>2, <2>1
<1>8. b = CASE nn = absorb_particles -> [gone EXCEPT !.rhob[q.id] = @ + 1]
            [] OnAnotherRank(r, nn) ->
                 [gone EXCEPT !.send[f] = Append(@, injector(RemoteCell(r, f, nn), m.disp))]
            [] k \in 1..nb /\ Pbcs[k] = "reflux" ->
                 [gone EXCEPT !.ci = Append(@, injector(voxel, back[[id |-> q.id, f |-> f]])),
                              !.met = @ \cup {q.id}]
            [] k \in 1..nb /\ Pbcs[k] = "tally" ->
                 [gone EXCEPT !.rhob[q.id] = @ + 1, !.tally[s] = @ + 1, !.met = @ \cup {q.id}]
            [] OTHER -> [gone EXCEPT !.dropped = @ \cup {q.id}]
  BY DEF Load1
<1>9. /\ gone \in Buffers /\ gone.p = P /\ gone.send = a.send /\ gone.ci = a.ci /\ gone.rhob = a.rhob
      /\ gone.dropped = a.dropped
  BY <1>1, <1>7, Zenon DEF Buffers
<1> DEFINE Fine(c) ==
      /\ Loaded(r, c) /\ c.p = P
      /\ Went(a, c, q.id)
<1>10. Fine([gone EXCEPT !.rhob[q.id] = @ + 1])
  <2> DEFINE R == [gone.rhob EXCEPT ![q.id] = @ + 1]
             c == [gone EXCEPT !.rhob = R]
  <2> HIDE DEF gone, q, P
  <2>1. R \in [Ids -> Nat] /\ R = [a.rhob EXCEPT ![q.id] = @ + 1]
    BY <1>4, <1>9 DEF Buffers
  <2> HIDE DEF R
  <2>2. c \in Buffers /\ c.p = P /\ c.send = a.send
    BY <1>9, <2>1, Zenon DEF Buffers
  <2>3. c.rhob = R /\ c.ci = a.ci /\ c.dropped = a.dropped
    BY <1>9 DEF Buffers
  <2>4. Absorbed(a, c, q.id)
    BY <2>1, <2>2, <2>3 DEF Absorbed
  <2>5. c = [gone EXCEPT !.rhob[q.id] = @ + 1]
    BY <1>9 DEF Buffers, R
  <2> QED BY <1>1, <2>2, <2>4, <2>5 DEF Loaded, Went
<1>11. Fine([gone EXCEPT !.rhob[q.id] = @ + 1, !.tally[s] = @ + 1, !.met = @ \cup {q.id}])
  <2> DEFINE R == [gone.rhob EXCEPT ![q.id] = @ + 1]
             T == [gone.tally EXCEPT ![s] = @ + 1]
             c == [gone EXCEPT !.rhob = R, !.tally = T, !.met = @ \cup {q.id}]
  <2> HIDE DEF gone, q, P
  <2>1. R \in [Ids -> Nat] /\ R = [a.rhob EXCEPT ![q.id] = @ + 1] /\ T \in [Species -> Nat]
    BY <1>4, <1>9 DEF Buffers
  <2> HIDE DEF R, T
  <2>2. c \in Buffers /\ c.p = P /\ c.send = a.send
    BY <1>4, <1>9, <2>1, Zenon DEF Buffers
  <2>3. c.rhob = R /\ c.ci = a.ci /\ c.dropped = a.dropped
    BY <1>9 DEF Buffers
  <2>4. Absorbed(a, c, q.id)
    BY <2>1, <2>2, <2>3 DEF Absorbed
  <2>5. c = [gone EXCEPT !.rhob[q.id] = @ + 1, !.tally[s] = @ + 1, !.met = @ \cup {q.id}]
    BY <1>9 DEF Buffers, R, T
  <2> QED BY <1>1, <2>2, <2>4, <2>5 DEF Loaded, Went
<1>12. Fine([gone EXCEPT !.dropped = @ \cup {q.id}])
  <2> DEFINE c == [gone EXCEPT !.dropped = @ \cup {q.id}]
  <2> HIDE DEF gone, q, P
  <2>1. c \in Buffers /\ c.p = P /\ c.send = a.send
    BY <1>4, <1>9, Zenon DEF Buffers
  <2>2. Dropped(a, c, q.id)
    BY <1>4, <1>9 DEF Dropped, Buffers
  <2> QED BY <1>1, <2>1, <2>2 DEF Loaded, Went
<1>13. ASSUME NEW e \in Injector, e.id = q.id, shared(r, f)
       PROVE  Fine([gone EXCEPT !.send[f] = Append(@, e)])
  <2> DEFINE c == [gone EXCEPT !.send[f] = Append(@, e)]
  <2> HIDE DEF gone, q, P, f
  <2>1. a.send \in [Face -> Seq(Injector)]
    BY <1>1 DEF Buffers
  <2>2. Append(a.send[f], e) \in Seq(Injector)
    BY <1>5, <2>1
  <2>3. c.send = [a.send EXCEPT ![f] = Append(@, e)] /\ c.send \in [Face -> Seq(Injector)]
    BY <1>5, <1>9, <2>1, <2>2 DEF Buffers
  <2>4. c \in Buffers /\ c.p = P /\ c.rhob = a.rhob /\ c.ci = a.ci /\ c.dropped = a.dropped
    BY <1>9, <2>3, Zenon DEF Buffers
  <2> HIDE DEF c
  <2>5. Sent(a, c, q.id)
    BY <1>5, <1>13, <2>3, <2>4, Zenon DEF Sent
  <2>6. \A g \in Face : ~shared(r, g) => c.send[g] = <<>>
    BY <1>1, <1>13, <2>1, <2>3
  <2> QED BY <2>4, <2>5, <2>6 DEF Loaded, Went, c
<1>14. ASSUME NEW e \in Injector, e.id = q.id
       PROVE  Fine([gone EXCEPT !.ci = Append(@, e), !.met = @ \cup {q.id}])
  <2> DEFINE c == [gone EXCEPT !.ci = Append(@, e), !.met = @ \cup {q.id}]
  <2> HIDE DEF gone, q, P
  <2>1. Append(a.ci, e) \in Seq(Injector)
    BY <1>1 DEF Buffers
  <2>2. c \in Buffers /\ c.p = P /\ c.send = a.send /\ c.ci = Append(a.ci, e)
    BY <1>4, <1>9, <2>1, Zenon DEF Buffers
  <2>3. c.rhob = a.rhob /\ c.dropped = a.dropped
    BY <1>9 DEF Buffers
  <2>4. Reinjected(a, c, q.id)
    BY <1>14, <2>2, <2>3, Zenon DEF Reinjected
  <2> QED BY <1>1, <2>2, <2>4 DEF Loaded, Went
<1>15. OnAnotherRank(r, nn) =>
         injector(RemoteCell(r, f, nn), m.disp) \in Injector /\ shared(r, f)
  <2> SUFFICES ASSUME OnAnotherRank(r, nn)
               PROVE  injector(RemoteCell(r, f, nn), m.disp) \in Injector /\ shared(r, f)
    BY Zenon
  <2>1. shared(r, f) /\ RemoteCell(r, f, nn) \in CellNo
    <3>1. q.i = a.p[s][m.i].i
      BY Zenon
    <3> HIDE DEF q
    <3> QED BY <3>1, AnotherRank
  <2> QED BY <1>3, <1>4, <2>1, Zenon DEF Injector
<1>16. k \in 1..nb /\ Pbcs[k] = "reflux" =>
         injector(voxel, back[[id |-> q.id, f |-> f]]) \in Injector
  <2> SUFFICES ASSUME k \in 1..nb, Pbcs[k] = "reflux"
               PROVE  injector(voxel, back[[id |-> q.id, f |-> f]]) \in Injector
    OBVIOUS
  <2>1. back[[id |-> q.id, f |-> f]] \in Seq(Face)
    <3>1. q = p[r][s][m.i]
      OBVIOUS
    <3> HIDE DEF q
    <3> QED BY <1>5, <3>1, DrawsAre, Zenon
  <2> QED BY <1>4, <1>6, <2>1, Zenon DEF Injector
<1>17. Fine(b)
  <2>1. injector(RemoteCell(r, f, nn), m.disp).id = q.id
    OBVIOUS
  <2>2. injector(voxel, back[[id |-> q.id, f |-> f]]).id = q.id
    OBVIOUS
  <2> DEFINE e1 == injector(RemoteCell(r, f, nn), m.disp)
             e2 == injector(voxel, back[[id |-> q.id, f |-> f]])
  <2>3. OnAnotherRank(r, nn) => Fine([gone EXCEPT !.send[f] = Append(@, e1)])
    <3> HIDE DEF e1, Fine, gone, f, nn, q
    <3> QED BY <1>13, <1>15, <2>1 DEF e1
  <2>4. k \in 1..nb /\ Pbcs[k] = "reflux" => Fine([gone EXCEPT !.ci = Append(@, e2), !.met = @ \cup {q.id}])
    <3> HIDE DEF e2, Fine, gone, f, nn, q
    <3> QED BY <1>14, <1>16, <2>2, Zenon DEF e2
  <2> HIDE DEF Fine, gone, f, nn, q, k, voxel, b
  <2> QED BY <1>8, <1>10, <1>11, <1>12, <2>3, <2>4
<1> QED BY <1>17
-----------------------------------------------------------------------------
(* Where a particle that leaves its list goes, w follows it: to rhob ...   *)
LEMMA HeldAbsorbed ==
  ASSUME NEW r \in Rank, NEW w0, NEW w, NEW P \in [Species -> Seq(Part)], NEW S, NEW C, NEW R, NEW D,
         Held(w0, w, r, P, S, C, R, D), NEW s \in Species, NEW i \in DOMAIN P[s]
  PROVE  \E v : Held(w0, v, r, [P EXCEPT ![s] = Backfill(P[s], i)], S, C,
                     [R EXCEPT ![P[s][i].id] = @ + 1], D)
<1> DEFINE id == P[s][i].id
           y == AtRhob
           v == [w EXCEPT ![id] = y]
           P1 == [P EXCEPT ![s] = Backfill(P[s], i)]
           R1 == [R EXCEPT ![id] = @ + 1]
<1>1. y \in {InSend(r, f) : f \in Face} \cup {InCi(r), AtRhob, Gone}
  OBVIOUS
<1>2. /\ id \in Ids /\ w[id] = OnList(r, s) /\ v \in [Ids -> Spots]
      /\ \A t \in Species : Box(v, OnList(r, t), P1[t])
      /\ \A n \in Ids : v[n] = w0[n] \/ (w0[n] \in Near(r) /\ v[n] \in Near(r))
      /\ \A z : z # y /\ z # OnList(r, s) => \A n \in Ids : w[n] = z <=> v[n] = z
  <2>1. Departed(w0, w, r, P, s, i, y)
    BY <1>1, OneLeaves, Zenon
  <2> QED BY <2>1, Zenon DEF Departed
<1>3. w \in [Ids -> Spots] /\ Ends(w, R, D)
  BY DEF Held
<1> HIDE DEF id, P1
<1>4. v[id] = y /\ \A n \in Ids : n # id => v[n] = w[n]
  BY <1>2, <1>3
<1> HIDE DEF v
<1>5. \A f \in Face : Box(v, InSend(r, f), S[f])
  <2> TAKE f \in Face
  <2>1. InSend(r, f) # y /\ InSend(r, f) # OnList(r, s)
    BY SpotsDiffer, Zenon
  <2> QED BY <1>2, <2>1, BoxKeeps, Zenon DEF Held
<1>6. Box(v, InCi(r), C)
  <2>1. InCi(r) # y /\ InCi(r) # OnList(r, s)
    BY SpotsDiffer, Zenon
  <2> QED BY <1>2, <2>1, BoxKeeps, Zenon DEF Held
<1>7. Ends(v, R1, D)
  <2>1. AtRhob # OnList(r, s) /\ Gone # OnList(r, s) /\ Gone # AtRhob
    BY SpotsDiffer, Zenon
  <2>2. R1 = [n \in Ids |-> IF v[n] = AtRhob THEN 1 ELSE 0]
    <3>1. R = [n \in Ids |-> IF w[n] = AtRhob THEN 1 ELSE 0]
      BY <1>3 DEF Ends
    <3> QED BY <1>2, <1>4, <2>1, <3>1
  <2>3. D = {n \in Ids : v[n] = Gone}
    <3>1. D = {n \in Ids : w[n] = Gone}
      BY <1>3 DEF Ends
    <3> QED BY <1>2, <1>4, <2>1, <3>1
  <2> QED BY <2>2, <2>3 DEF Ends
<1>8. Held(w0, v, r, P1, S, C, R1, D)
  BY <1>2, <1>5, <1>6, <1>7 DEF Held
<1> QED BY <1>8 DEF P1, id

(* ... dropped ...                                                         *)
LEMMA HeldDropped ==
  ASSUME NEW r \in Rank, NEW w0, NEW w, NEW P \in [Species -> Seq(Part)], NEW S, NEW C, NEW R, NEW D,
         Held(w0, w, r, P, S, C, R, D), NEW s \in Species, NEW i \in DOMAIN P[s]
  PROVE  \E v : Held(w0, v, r, [P EXCEPT ![s] = Backfill(P[s], i)], S, C, R, D \cup {P[s][i].id})
<1> DEFINE id == P[s][i].id
           y == Gone
           v == [w EXCEPT ![id] = y]
           P1 == [P EXCEPT ![s] = Backfill(P[s], i)]
<1>1. y \in {InSend(r, f) : f \in Face} \cup {InCi(r), AtRhob, Gone}
  OBVIOUS
<1>2. /\ id \in Ids /\ w[id] = OnList(r, s) /\ v \in [Ids -> Spots]
      /\ \A t \in Species : Box(v, OnList(r, t), P1[t])
      /\ \A n \in Ids : v[n] = w0[n] \/ (w0[n] \in Near(r) /\ v[n] \in Near(r))
      /\ \A z : z # y /\ z # OnList(r, s) => \A n \in Ids : w[n] = z <=> v[n] = z
  <2>1. Departed(w0, w, r, P, s, i, y)
    BY <1>1, OneLeaves, Zenon
  <2> QED BY <2>1, Zenon DEF Departed
<1>3. w \in [Ids -> Spots] /\ Ends(w, R, D)
  BY DEF Held
<1> HIDE DEF id, P1
<1>4. v[id] = y /\ \A n \in Ids : n # id => v[n] = w[n]
  BY <1>2, <1>3
<1> HIDE DEF v
<1>5. \A f \in Face : Box(v, InSend(r, f), S[f])
  <2> TAKE f \in Face
  <2>1. InSend(r, f) # y /\ InSend(r, f) # OnList(r, s)
    BY SpotsDiffer, Zenon
  <2> QED BY <1>2, <2>1, BoxKeeps, Zenon DEF Held
<1>6. Box(v, InCi(r), C)
  <2>1. InCi(r) # y /\ InCi(r) # OnList(r, s)
    BY SpotsDiffer, Zenon
  <2> QED BY <1>2, <2>1, BoxKeeps, Zenon DEF Held
<1>7. Ends(v, R, D \cup {id})
  <2>1. AtRhob # OnList(r, s) /\ Gone # OnList(r, s) /\ Gone # AtRhob
    BY SpotsDiffer, Zenon
  <2>2. R = [n \in Ids |-> IF v[n] = AtRhob THEN 1 ELSE 0]
    <3>1. R = [n \in Ids |-> IF w[n] = AtRhob THEN 1 ELSE 0]
      BY <1>3 DEF Ends
    <3> QED BY <1>2, <1>4, <2>1, <3>1
  <2>3. D \cup {id} = {n \in Ids : v[n] = Gone}
    <3>1. D = {n \in Ids : w[n] = Gone}
      BY <1>3 DEF Ends
    <3> QED BY <1>2, <1>4, <2>1, <3>1
  <2> QED BY <2>2, <2>3 DEF Ends
<1>8. Held(w0, v, r, P1, S, C, R, D \cup {id})
  BY <1>2, <1>5, <1>6, <1>7 DEF Held
<1> QED BY <1>8 DEF P1, id

(* ... loaded for a face ...                                               *)
LEMMA HeldSent ==
  ASSUME NEW r \in Rank, NEW w0, NEW w, NEW P \in [Species -> Seq(Part)],
         NEW S \in [Face -> Seq(Injector)], NEW C, NEW R, NEW D,
         Held(w0, w, r, P, S, C, R, D), NEW s \in Species, NEW i \in DOMAIN P[s],
         NEW g \in Face, NEW e \in Injector, e.id = P[s][i].id
  PROVE  \E v : Held(w0, v, r, [P EXCEPT ![s] = Backfill(P[s], i)],
                     [S EXCEPT ![g] = Append(@, e)], C, R, D)
<1> DEFINE id == P[s][i].id
           y == InSend(r, g)
           v == [w EXCEPT ![id] = y]
           P1 == [P EXCEPT ![s] = Backfill(P[s], i)]
           S1 == [S EXCEPT ![g] = Append(@, e)]
<1>1. y \in {InSend(r, f) : f \in Face} \cup {InCi(r), AtRhob, Gone}
  OBVIOUS
<1>2. /\ id \in Ids /\ w[id] = OnList(r, s) /\ y \in Spots /\ w[id] # y /\ v \in [Ids -> Spots]
      /\ \A t \in Species : Box(v, OnList(r, t), P1[t])
      /\ \A n \in Ids : v[n] = w0[n] \/ (w0[n] \in Near(r) /\ v[n] \in Near(r))
      /\ \A z : z # y /\ z # OnList(r, s) => \A n \in Ids : w[n] = z <=> v[n] = z
  <2>1. Departed(w0, w, r, P, s, i, y)
    BY <1>1, OneLeaves, Zenon
  <2> QED BY <2>1, Zenon DEF Departed
<1>3. w \in [Ids -> Spots] /\ Ends(w, R, D)
  BY DEF Held
<1> HIDE DEF P1
<1>4. Box(v, y, Append(S[g], e))
  <2>1. Box(w, y, S[g]) /\ S[g] \in Seq(Injector)
    BY DEF Held
  <2>2. w[e.id] # y /\ v = [w EXCEPT ![e.id] = y]
    BY <1>2
  <2> HIDE DEF y, v
  <2> QED BY <1>2, <1>3, <2>1, <2>2, BoxGains, Zenon
<1> HIDE DEF v, id
<1>5. \A f \in Face : Box(v, InSend(r, f), S1[f])
  <2> TAKE f \in Face
  <2>1. CASE f = g
    <3>1. S1[f] = Append(S[g], e)
      BY <2>1
    <3> QED BY <1>4, <2>1, <3>1
  <2>2. CASE f # g
    <3>1. InSend(r, f) # y /\ InSend(r, f) # OnList(r, s)
      BY <2>2, SpotsDiffer, Zenon
    <3>2. S1[f] = S[f]
      BY <2>2
    <3>3. Box(v, InSend(r, f), S[f])
      BY <1>2, <3>1, BoxKeeps, Zenon DEF Held
    <3> QED BY <3>2, <3>3
  <2> QED BY <2>1, <2>2
<1>6. Box(v, InCi(r), C)
  <2>1. InCi(r) # y /\ InCi(r) # OnList(r, s)
    BY SpotsDiffer, Zenon
  <2> QED BY <1>2, <2>1, BoxKeeps, Zenon DEF Held
<1>7. Ends(v, R, D)
  <2>1. /\ AtRhob # y /\ AtRhob # OnList(r, s)
        /\ Gone # y /\ Gone # OnList(r, s)
    BY SpotsDiffer, Zenon
  <2>2. \A n \in Ids : (w[n] = AtRhob <=> v[n] = AtRhob) /\ (w[n] = Gone <=> v[n] = Gone)
    BY <1>2, <2>1, Zenon
  <2> QED BY <1>3, <2>2 DEF Ends
<1> HIDE DEF S1, y
<1>8. Held(w0, v, r, P1, S1, C, R, D)
  BY <1>2, <1>5, <1>6, <1>7 DEF Held
<1> QED BY <1>8 DEF P1, S1

(* ... or kept to be injected on this rank.                                *)
LEMMA HeldReinjected ==
  ASSUME NEW r \in Rank, NEW w0, NEW w, NEW P \in [Species -> Seq(Part)],
         NEW S, NEW C \in Seq(Injector), NEW R, NEW D,
         Held(w0, w, r, P, S, C, R, D), NEW s \in Species, NEW i \in DOMAIN P[s],
         NEW e \in Injector, e.id = P[s][i].id
  PROVE  \E v : Held(w0, v, r, [P EXCEPT ![s] = Backfill(P[s], i)], S, Append(C, e), R, D)
<1> DEFINE id == P[s][i].id
           y == InCi(r)
           v == [w EXCEPT ![id] = y]
           P1 == [P EXCEPT ![s] = Backfill(P[s], i)]
<1>1. y \in {InSend(r, f) : f \in Face} \cup {InCi(r), AtRhob, Gone}
  OBVIOUS
<1>2. /\ id \in Ids /\ w[id] = OnList(r, s) /\ y \in Spots /\ w[id] # y /\ v \in [Ids -> Spots]
      /\ \A t \in Species : Box(v, OnList(r, t), P1[t])
      /\ \A n \in Ids : v[n] = w0[n] \/ (w0[n] \in Near(r) /\ v[n] \in Near(r))
      /\ \A z : z # y /\ z # OnList(r, s) => \A n \in Ids : w[n] = z <=> v[n] = z
  <2>1. Departed(w0, w, r, P, s, i, y)
    BY <1>1, OneLeaves, Zenon
  <2> QED BY <2>1, Zenon DEF Departed
<1>3. w \in [Ids -> Spots] /\ Ends(w, R, D)
  BY DEF Held
<1> HIDE DEF P1
<1>4. Box(v, y, Append(C, e))
  <2>1. Box(w, y, C)
    BY DEF Held
  <2>2. w[e.id] # y /\ v = [w EXCEPT ![e.id] = y]
    BY <1>2
  <2> HIDE DEF y, v
  <2> QED BY <1>2, <1>3, <2>1, <2>2, BoxGains, Zenon
<1> HIDE DEF v, id
<1>5. \A f \in Face : Box(v, InSend(r, f), S[f])
  <2> TAKE f \in Face
  <2>1. InSend(r, f) # y /\ InSend(r, f) # OnList(r, s)
    BY SpotsDiffer, Zenon
  <2> QED BY <1>2, <2>1, BoxKeeps, Zenon DEF Held
<1>7. Ends(v, R, D)
  <2>1. /\ AtRhob # y /\ AtRhob # OnList(r, s)
        /\ Gone # y /\ Gone # OnList(r, s)
    BY SpotsDiffer, Zenon
  <2>2. \A n \in Ids : (w[n] = AtRhob <=> v[n] = AtRhob) /\ (w[n] = Gone <=> v[n] = Gone)
    BY <1>2, <2>1, Zenon
  <2> QED BY <1>3, <2>2 DEF Ends
<1>8. Held(w0, v, r, P1, S, Append(C, e), R, D)
  BY <1>2, <1>4, <1>5, <1>7 DEF Held
<1> QED BY <1>8 DEF P1
(* Wherever it went, w follows.                                            *)
LEMMA HeldNext ==
  ASSUME NEW r \in Rank, NEW a, Loaded(r, a), NEW s \in Species, NEW i \in DOMAIN a.p[s],
         NEW b, b.p = [a.p EXCEPT ![s] = Backfill(a.p[s], i)], Went(a, b, a.p[s][i].id),
         NEW w0, NEW w, Held(w0, w, r, a.p, a.send, a.ci, a.rhob, a.dropped)
  PROVE  \E v : Held(w0, v, r, b.p, b.send, b.ci, b.rhob, b.dropped)
<1> DEFINE id == a.p[s][i].id
<1>1. /\ a.p \in [Species -> Seq(Part)] /\ a.send \in [Face -> Seq(Injector)] /\ a.ci \in Seq(Injector)
  BY DEF Loaded, Buffers
<1>2. CASE Absorbed(a, b, id)
  <2>1. b.rhob = [a.rhob EXCEPT ![a.p[s][i].id] = @ + 1]
    BY <1>2 DEF Absorbed
  <2>2. b.send = a.send /\ b.ci = a.ci /\ b.dropped = a.dropped
    BY <1>2 DEF Absorbed
  <2>3. \E v : Held(w0, v, r, [a.p EXCEPT ![s] = Backfill(a.p[s], i)], a.send, a.ci,
                    [a.rhob EXCEPT ![a.p[s][i].id] = @ + 1], a.dropped)
    BY <1>1, HeldAbsorbed, Zenon
  <2> QED BY <2>1, <2>2, <2>3, Zenon
<1>3. CASE Dropped(a, b, id)
  <2>1. /\ b.dropped = a.dropped \cup {a.p[s][i].id} /\ b.rhob = a.rhob
        /\ b.send = a.send /\ b.ci = a.ci
    BY <1>3 DEF Dropped
  <2>2. \E v : Held(w0, v, r, [a.p EXCEPT ![s] = Backfill(a.p[s], i)], a.send, a.ci, a.rhob,
                    a.dropped \cup {a.p[s][i].id})
    BY <1>1, HeldDropped, Zenon
  <2> QED BY <2>1, <2>2, Zenon
<1>4. CASE Sent(a, b, id)
  <2>1. PICK g \in Face, e \in Injector : e.id = id /\ b.send = [a.send EXCEPT ![g] = Append(@, e)]
    BY <1>4, Zenon DEF Sent
  <2>2. b.rhob = a.rhob /\ b.ci = a.ci /\ b.dropped = a.dropped
    BY <1>4 DEF Sent
  <2>3. e.id = a.p[s][i].id
    BY <2>1
  <2>4. \E v : Held(w0, v, r, [a.p EXCEPT ![s] = Backfill(a.p[s], i)],
                    [a.send EXCEPT ![g] = Append(@, e)], a.ci, a.rhob, a.dropped)
    BY <1>1, <2>3, HeldSent, Zenon
  <2> QED BY <2>1, <2>2, <2>4, Zenon
<1>5. CASE Reinjected(a, b, id)
  <2>1. PICK e \in Injector : e.id = id /\ b.ci = Append(a.ci, e)
    BY <1>5 DEF Reinjected
  <2>2. b.rhob = a.rhob /\ b.send = a.send /\ b.dropped = a.dropped
    BY <1>5 DEF Reinjected
  <2>3. e.id = a.p[s][i].id
    BY <2>1
  <2>4. \E v : Held(w0, v, r, [a.p EXCEPT ![s] = Backfill(a.p[s], i)],
                    a.send, Append(a.ci, e), a.rhob, a.dropped)
    BY <1>1, <2>3, HeldReinjected, Zenon
  <2> QED BY <2>1, <2>2, <2>4, Zenon
<1> QED BY <1>2, <1>3, <1>4, <1>5 DEF Went
-----------------------------------------------------------------------------
(* The loop over the movers of one species, and over the species.          *)
LoadOp(r, s, back, a, m) == Load1(r, s, m, back, a)
Loading == INSTANCE Loops WITH Op <- LoadOp

LoadRow(r, back, z, acc, s) == FoldRight(LAMBDA m, a : Load1(r, s, m, back, a), pm[r][s], acc)
LoadingAll == INSTANCE Loops WITH Op <- LoadRow

(* If the particles of a rank are headed for their goals, those it loads   *)
(* are, and those it absorbs have come to the wall where their way ends.   *)
Setoff(r) ==
  /\ round[r] \in Nat /\ track \in [Ids -> Seq(Face)]
  /\ \A s \in Species : ListHeaded(r, p[r][s], pm[r][s], round[r], met)
  /\ \A id \in Ids : rhob[id] # 0 => Headed(id, {}, 0, met)
Ahead(r, a) ==
  /\ met \subseteq a.met
  /\ \A f \in Face : \A k \in DOMAIN a.send[f] : InjHeaded(bc(r, f), a.send[f][k], round[r], a.met)
  /\ \A k \in DOMAIN a.ci : a.ci[k].id \in a.met
  /\ \A id \in Ids : a.rhob[id] # 0 => Headed(id, {}, 0, a.met)

(* So it is with one mover.                                                *)
LEMMA Load1Ahead ==
  ASSUME Fixed, NEW r \in Rank, NEW back \in Draws(r), NEW s \in Species, NEW m \in ToSet(pm[r][s]),
         m \in Mover, NEW a, Loaded(r, a), m.i \in DOMAIN a.p[s], a.p[s][m.i] = p[r][s][m.i],
         Stopped(r, a.p[s][m.i].i), Setoff(r), Ahead(r, a)
  PROVE  Ahead(r, Load1(r, s, m, back, a))
<1> DEFINE q == a.p[s][m.i]
           f == q.i % 8
           voxel == q.i \div 8
           nn == neighbor(r, voxel, f)
           k == -nn - 2
           P == [a.p EXCEPT ![s] = Backfill(a.p[s], m.i)]
           gone == [a EXCEPT !.p = P]
           injector(i, disp) == [id |-> q.id, i |-> i, sp |-> s, disp |-> disp]
           b == Load1(r, s, m, back, a)
           N == a.met \cup {q.id}
<1>1. a \in Buffers
  BY Zenon DEF Loaded
<1>2. q.id \in Ids /\ f \in Face
  <2>1. a.p[s] \in Seq(Part)
    BY <1>1 DEF Buffers
  <2>2. q \in Part
    BY <2>1
  <2> QED BY <2>2 DEF Part, Stopped
<1>3. b = CASE nn = absorb_particles -> [gone EXCEPT !.rhob[q.id] = @ + 1]
            [] OnAnotherRank(r, nn) ->
                 [gone EXCEPT !.send[f] = Append(@, injector(RemoteCell(r, f, nn), m.disp))]
            [] k \in 1..nb /\ Pbcs[k] = "reflux" ->
                 [gone EXCEPT !.ci = Append(@, injector(voxel, back[[id |-> q.id, f |-> f]])),
                              !.met = @ \cup {q.id}]
            [] k \in 1..nb /\ Pbcs[k] = "tally" ->
                 [gone EXCEPT !.rhob[q.id] = @ + 1, !.tally[s] = @ + 1, !.met = @ \cup {q.id}]
            [] OTHER -> [gone EXCEPT !.dropped = @ \cup {q.id}]
  BY DEF Load1
<1>4. /\ gone \in Buffers /\ gone.send = a.send /\ gone.ci = a.ci /\ gone.rhob = a.rhob
      /\ gone.met = a.met
  <2>1. P \in [Species -> Seq(Part)]
    <3>1. a.p \in [Species -> Seq(Part)]
      BY <1>1 DEF Buffers
    <3>2. Backfill(a.p[s], m.i) \in Seq(Part)
      BY <3>1, BackfillIs
    <3> QED BY <3>1, <3>2
  <2> HIDE DEF P
  <2> QED BY <1>1, <2>1, Zenon DEF Buffers
<1>5. /\ met \subseteq a.met
      /\ \A g \in Face : \A j \in DOMAIN a.send[g] : InjHeaded(bc(r, g), a.send[g][j], round[r], a.met)
      /\ \A j \in DOMAIN a.ci : a.ci[j].id \in a.met
      /\ \A id \in Ids : a.rhob[id] # 0 => Headed(id, {}, 0, a.met)
  BY DEF Ahead
<1>6. Headed(q.id, Beyond(r, q.i, m.disp), Len(m.disp) + 1 + round[r], a.met)
  <2>1. PICK j \in DOMAIN pm[r][s] : pm[r][s][j] = m
    BY DEF ToSet
  <2>2. Headed(q.id, Beyond(r, q.i, m.disp), Len(m.disp) + 1 + round[r], met)
    <3>1. ListHeaded(r, p[r][s], pm[r][s], round[r], met)
      BY Zenon DEF Setoff
    <3> QED BY <2>1, <3>1, Zenon DEF ListHeaded
  <2> HIDE DEF q
  <2> QED BY <1>5, <2>2, HeadedMore, Zenon
<1>7. a.send \in [Face -> Seq(Injector)] /\ a.ci \in Seq(Injector) /\ a.rhob \in [Ids -> Nat]
  BY <1>1 DEF Buffers
<1>8. /\ a.met \subseteq N /\ q.id \in N
      /\ \A id, G, n : Headed(id, G, n, a.met) => Headed(id, G, n, N)
      /\ \A G, n : Headed(q.id, G, n, N)
  BY DEF Headed
<1>9. ASSUME NEW c, c.send = a.send, c.ci = a.ci, c.met = a.met,
             c.rhob = a.rhob \/ (c.rhob = [a.rhob EXCEPT ![q.id] = @ + 1] /\ Headed(q.id, {}, 0, a.met))
      PROVE  Ahead(r, c)
  <2> HIDE DEF q
  <2>1. \A id \in Ids : c.rhob[id] # 0 => Headed(id, {}, 0, a.met)
    BY <1>2, <1>5, <1>7, <1>9
  <2> QED BY <1>5, <1>9, <2>1, Zenon DEF Ahead
<1>10. ASSUME NEW c, c.send = a.send, c.met = N,
              \/ c.ci = a.ci /\ c.rhob = [a.rhob EXCEPT ![q.id] = @ + 1]
              \/ c.rhob = a.rhob /\ \E e \in Injector : e.id = q.id /\ c.ci = Append(a.ci, e)
       PROVE  Ahead(r, c)
  <2> HIDE DEF q, N
  <2>1. \A id \in Ids : c.rhob[id] # 0 => Headed(id, {}, 0, N)
    BY <1>2, <1>5, <1>7, <1>8, <1>10
  <2>2. \A j \in DOMAIN c.ci : c.ci[j].id \in N
    <3>1. CASE c.ci = a.ci
      BY <1>5, <1>8, <3>1
    <3>2. ASSUME NEW e \in Injector, e.id = q.id, c.ci = Append(a.ci, e)
          PROVE  \A j \in DOMAIN c.ci : c.ci[j].id \in N
      <4>1. /\ Len(a.ci) \in Nat /\ DOMAIN a.ci = 1 .. Len(a.ci) /\ DOMAIN c.ci = 1 .. Len(a.ci) + 1
            /\ c.ci[Len(a.ci) + 1] = e /\ \A j \in 1 .. Len(a.ci) : c.ci[j] = a.ci[j]
        BY <1>7, <3>2, AppendIs
      <4> QED BY <1>5, <1>8, <3>2, <4>1
    <3> QED BY <1>10, <3>1, <3>2
  <2>3. \A g \in Face : \A j \in DOMAIN c.send[g] : InjHeaded(bc(r, g), c.send[g][j], round[r], N)
    BY <1>5, <1>8, <1>10, Zenon DEF InjHeaded
  <2> QED BY <1>5, <1>8, <1>10, <2>1, <2>2, <2>3 DEF Ahead
<1>11. ASSUME NEW c, NEW e \in Injector, c.send = [a.send EXCEPT ![f] = Append(@, e)], c.ci = a.ci,
              c.met = a.met, c.rhob = a.rhob, InjHeaded(bc(r, f), e, round[r], a.met)
       PROVE  Ahead(r, c)
  <2> HIDE DEF q, f
  <2>1. ASSUME NEW g \in Face, NEW j \in DOMAIN c.send[g]
        PROVE  InjHeaded(bc(r, g), c.send[g][j], round[r], a.met)
    <3>1. CASE g # f
      BY <1>5, <1>7, <1>11, <2>1, <3>1
    <3>2. CASE g = f
      <4>1. c.send[f] = Append(a.send[f], e) /\ a.send[f] \in Seq(Injector)
        BY <1>2, <1>7, <1>11
      <4>2. j \in 1 .. Len(a.send[f]) + 1 /\ Len(a.send[f]) \in Nat /\ DOMAIN a.send[f] = 1 .. Len(a.send[f])
        BY <2>1, <3>2, <4>1
      <4>3. CASE j = Len(a.send[f]) + 1
        BY <1>11, <3>2, <4>1, <4>3
      <4>4. CASE j # Len(a.send[f]) + 1
        <5>1. j \in DOMAIN a.send[f] /\ c.send[f][j] = a.send[f][j]
          BY <4>1, <4>2, <4>4
        <5> QED BY <1>2, <1>5, <3>2, <5>1
      <4> QED BY <4>3, <4>4
    <3> QED BY <3>1, <3>2
  <2>2. /\ met \subseteq c.met
        /\ \A g \in Face : \A j \in DOMAIN c.send[g] : InjHeaded(bc(r, g), c.send[g][j], round[r], c.met)
    BY <1>5, <1>11, <2>1
  <2>3. /\ \A j \in DOMAIN c.ci : c.ci[j].id \in c.met
        /\ \A id \in Ids : c.rhob[id] # 0 => Headed(id, {}, 0, c.met)
    BY <1>5, <1>11
  <2> QED BY <2>2, <2>3 DEF Ahead
<1>12. nn = absorb_particles => Ahead(r, [gone EXCEPT !.rhob[q.id] = @ + 1])
  <2> SUFFICES ASSUME nn = absorb_particles
               PROVE  Ahead(r, [gone EXCEPT !.rhob[q.id] = @ + 1])
    OBVIOUS
  <2>1. nn < 0
    BY DEF absorb_particles
  <2>2. Beyond(r, q.i, m.disp) = {}
    BY <2>1, Zenon DEF Beyond
  <2>3. Len(track[q.id]) \in Nat
    <3> HIDE DEF q
    <3> QED BY <1>2 DEF Setoff
  <2>4. Headed(q.id, {}, 0, a.met)
    <3> HIDE DEF q
    <3> QED BY <1>6, <2>2, <2>3 DEF Headed
  <2> DEFINE c == [gone EXCEPT !.rhob[q.id] = @ + 1]
  <2> HIDE DEF gone, q, nn
  <2>5. /\ c.send = a.send /\ c.ci = a.ci /\ c.met = a.met
        /\ c.rhob = [a.rhob EXCEPT ![q.id] = @ + 1]
    BY <1>4 DEF Buffers
  <2> HIDE DEF c
  <2>6. Ahead(r, c)
    BY <1>9, <2>4, <2>5, Zenon
  <2> QED BY <2>6, Zenon DEF c
<1>13. OnAnotherRank(r, nn) =>
         Ahead(r, [gone EXCEPT !.send[f] = Append(@, injector(RemoteCell(r, f, nn), m.disp))])
  <2> SUFFICES ASSUME OnAnotherRank(r, nn)
               PROVE  Ahead(r, [gone EXCEPT !.send[f] = Append(@, injector(RemoteCell(r, f, nn), m.disp))])
    BY ZenonT(40)
  <2> DEFINE e == injector(RemoteCell(r, f, nn), m.disp)
             c == [gone EXCEPT !.send[f] = Append(@, e)]
  <2>1. ~(nn < 0) /\ RemoteCell(r, f, nn) \in CellNo
    <3>1. q.i = a.p[s][m.i].i
      OBVIOUS
    <3> HIDE DEF q
    <3> QED BY <3>1, AnotherRank, Zenon
  <2>2. Beyond(r, q.i, m.disp) = Goal(Deck, Home(bc(r, f), RemoteCell(r, f, nn)), m.disp)
    BY <2>1, Zenon DEF Beyond, Ongoing, Goal, RemoteCell
  <2> HIDE DEF q, f, nn
  <2>3. /\ e \in Injector /\ e.id = q.id /\ e.i = RemoteCell(r, f, nn) /\ e.disp = m.disp
    BY <1>2, <2>1 DEF Injector, Mover
  <2> HIDE DEF e
  <2>4. InjHeaded(bc(r, f), e, round[r], a.met)
    BY <1>6, <2>2, <2>3, Zenon DEF InjHeaded
  <2> HIDE DEF gone
  <2>5. /\ c.ci = a.ci /\ c.met = a.met /\ c.rhob = a.rhob /\ c.send = [a.send EXCEPT ![f] = Append(@, e)]
    BY <1>4 DEF Buffers
  <2> HIDE DEF c
  <2>6. Ahead(r, c)
    BY <1>11, <2>3, <2>4, <2>5, Zenon
  <2> QED BY <2>6 DEF c, e
<1>14. k \in 1..nb /\ Pbcs[k] = "reflux" =>
         Ahead(r, [gone EXCEPT !.ci = Append(@, injector(voxel, back[[id |-> q.id, f |-> f]])),
                               !.met = @ \cup {q.id}])
  <2> SUFFICES ASSUME k \in 1..nb, Pbcs[k] = "reflux"
               PROVE  Ahead(r, [gone EXCEPT !.ci = Append(@, injector(voxel, back[[id |-> q.id, f |-> f]])),
                                            !.met = @ \cup {q.id}])
    BY Zenon
  <2> DEFINE e == injector(voxel, back[[id |-> q.id, f |-> f]])
             c == [gone EXCEPT !.ci = Append(@, e), !.met = @ \cup {q.id}]
  <2>1. back[[id |-> q.id, f |-> f]] \in Seq(Face)
    <3>1. q = p[r][s][m.i]
      BY Zenon
    <3> HIDE DEF q
    <3> QED BY <1>2, <3>1, DrawsAre, ZenonT(40)
  <2>2. voxel \in CellNo
    BY CellNos, Zenon DEF Stopped
  <2> HIDE DEF q, f, nn, k, voxel
  <2>3. e \in Injector /\ e.id = q.id
    BY <1>2, <2>1, <2>2 DEF Injector
  <2> HIDE DEF e, gone
  <2>4. c.send = a.send /\ c.rhob = a.rhob /\ c.ci = Append(a.ci, e) /\ c.met = N
    BY <1>4 DEF Buffers
  <2> HIDE DEF c
  <2>5. Ahead(r, c)
    BY <1>10, <2>3, <2>4, Zenon
  <2> QED BY <2>5 DEF c, e
<1>15. Ahead(r, [gone EXCEPT !.rhob[q.id] = @ + 1, !.tally[s] = @ + 1, !.met = @ \cup {q.id}])
  <2> DEFINE c == [gone EXCEPT !.rhob[q.id] = @ + 1, !.tally[s] = @ + 1, !.met = @ \cup {q.id}]
  <2> HIDE DEF gone, q
  <2>1. /\ c.send = a.send /\ c.ci = a.ci /\ c.met = N /\ c.rhob = [a.rhob EXCEPT ![q.id] = @ + 1]
    BY <1>4 DEF Buffers
  <2> HIDE DEF c
  <2>2. Ahead(r, c)
    BY <1>10, <2>1, Zenon
  <2> QED BY <2>2 DEF c
<1>16. Ahead(r, [gone EXCEPT !.dropped = @ \cup {q.id}])
  <2> DEFINE c == [gone EXCEPT !.dropped = @ \cup {q.id}]
  <2> HIDE DEF gone, q
  <2>1. c.send = a.send /\ c.ci = a.ci /\ c.met = a.met /\ c.rhob = a.rhob
    BY <1>4 DEF Buffers
  <2> HIDE DEF c
  <2>2. Ahead(r, c)
    BY <1>9, <2>1, Zenon
  <2> QED BY <2>2 DEF c
<1>17. Ahead(r, b)
  <2> DEFINE e1 == injector(RemoteCell(r, f, nn), m.disp)
             e2 == injector(voxel, back[[id |-> q.id, f |-> f]])
  <2>1. OnAnotherRank(r, nn) => Ahead(r, [gone EXCEPT !.send[f] = Append(@, e1)])
    BY <1>13, Zenon
  <2>2. k \in 1..nb /\ Pbcs[k] = "reflux" =>
        Ahead(r, [gone EXCEPT !.ci = Append(@, e2), !.met = @ \cup {q.id}])
    BY <1>14, Zenon
  <2>3. b = CASE nn = absorb_particles -> [gone EXCEPT !.rhob[q.id] = @ + 1]
              [] OnAnotherRank(r, nn) -> [gone EXCEPT !.send[f] = Append(@, e1)]
              [] k \in 1..nb /\ Pbcs[k] = "reflux" ->
                   [gone EXCEPT !.ci = Append(@, e2), !.met = @ \cup {q.id}]
              [] k \in 1..nb /\ Pbcs[k] = "tally" ->
                   [gone EXCEPT !.rhob[q.id] = @ + 1, !.tally[s] = @ + 1, !.met = @ \cup {q.id}]
              [] OTHER -> [gone EXCEPT !.dropped = @ \cup {q.id}]
    BY <1>3, Zenon
  <2> HIDE DEF gone, f, nn, q, k, voxel, b, e1, e2
  <2> QED BY <1>12, <1>15, <1>16, <2>1, <2>2, <2>3
<1> QED BY <1>17

(* If w0 says where the particles were, some w says where they are.        *)
Follows(r, P, S, C, R, D) ==
  \A w0 : Held(w0, w0, r, p[r], [f \in Face |-> <<>>], <<>>, rhob, dropped)
            => \E w : Held(w0, w, r, P, S, C, R, D)
Kept(r, a) == Follows(r, a.p, a.send, a.ci, a.rhob, a.dropped) /\ (Setoff(r) => Ahead(r, a))

(* With k movers of species s left, after a0.                              *)
RowLeft(r, s, a0, k, a) ==
  /\ Loaded(r, a) /\ Kept(r, a) /\ Peeled(p[r][s], pm[r][s], k, a.p[s])
  /\ \A t \in Species : t # s => a.p[t] = a0.p[t]

(* One mover less.                                                         *)
LEMMA RowNext ==
  ASSUME Fixed, NEW r \in Rank, NEW back \in Draws(r), NEW s \in Species,
         Listed(r, p[r][s], pm[r][s]), NEW a0, NEW k \in 1 .. Len(pm[r][s]), NEW a,
         RowLeft(r, s, a0, k, a)
  PROVE  RowLeft(r, s, a0, k - 1, Load1(r, s, pm[r][s][k], back, a))
<1> DEFINE m == pm[r][s][k]
           b == Load1(r, s, m, back, a)
<1>1. /\ Loaded(r, a) /\ Kept(r, a) /\ Peeled(p[r][s], pm[r][s], k, a.p[s])
      /\ \A t \in Species : t # s => a.p[t] = a0.p[t]
  BY DEF RowLeft
<1>2. /\ m \in Mover /\ m.i \in DOMAIN a.p[s] /\ a.p[s][m.i] = p[r][s][m.i]
      /\ Stopped(r, a.p[s][m.i].i)
      /\ Peeled(p[r][s], pm[r][s], k - 1, Backfill(a.p[s], m.i))
  BY <1>1, PeelNext
<1>3. m \in ToSet(pm[r][s])
  <2>1. k \in DOMAIN pm[r][s]
    BY DEF Listed
  <2> QED BY <2>1 DEF ToSet
<1> HIDE DEF m
<1>4. /\ Loaded(r, b) /\ b.p = [a.p EXCEPT ![s] = Backfill(a.p[s], m.i)]
      /\ Went(a, b, a.p[s][m.i].id)
  BY <1>1, <1>2, <1>3, Load1Is
<1> HIDE DEF b
<1>5. Kept(r, b)
  <2>5. Setoff(r) => Ahead(r, b)
    <3> SUFFICES ASSUME Setoff(r)
                 PROVE  Ahead(r, b)
      OBVIOUS
    <3>1. Ahead(r, a)
      BY <1>1 DEF Kept
    <3> QED BY <1>1, <1>2, <1>3, <3>1, Load1Ahead DEF b
  <2> SUFFICES ASSUME NEW w0, Held(w0, w0, r, p[r], [f \in Face |-> <<>>], <<>>, rhob, dropped)
               PROVE  \E w : Held(w0, w, r, b.p, b.send, b.ci, b.rhob, b.dropped)
    BY <2>5, Zenon DEF Kept, Follows
  <2>1. PICK w : Held(w0, w, r, a.p, a.send, a.ci, a.rhob, a.dropped)
    BY <1>1, Zenon DEF Kept, Follows
  <2>2. m.i \in DOMAIN a.p[s] /\ b.p = [a.p EXCEPT ![s] = Backfill(a.p[s], m.i)]
    BY <1>2, <1>4
  <2>3. Went(a, b, a.p[s][m.i].id) /\ Loaded(r, a)
    BY <1>1, <1>4
  <2> QED BY <2>1, <2>2, <2>3, HeldNext, Zenon
<1>6. a.p \in [Species -> Seq(Part)]
  BY <1>1 DEF Loaded, Buffers
<1>7. b.p[s] = Backfill(a.p[s], m.i) /\ \A t \in Species : t # s => b.p[t] = a.p[t]
  BY <1>4, <1>6
<1>8. RowLeft(r, s, a0, k - 1, b)
  BY <1>1, <1>2, <1>4, <1>5, <1>7 DEF RowLeft
<1> QED BY <1>8 DEF b, m

(* All the movers of a species.                                            *)
LEMMA LoadRowIs ==
  ASSUME Fixed, NEW r \in Rank, NEW back \in Draws(r), NEW s \in Species,
         Listed(r, p[r][s], pm[r][s]), NEW a0, Loaded(r, a0), Kept(r, a0), a0.p[s] = p[r][s]
  PROVE  RowLeft(r, s, a0, 0, LoadRow(r, back, 0, a0, s))
<1> DEFINE M == pm[r][s]
           n == Len(M)
           B(k) == {a \in Buffers : RowLeft(r, s, a0, k, a)}
           I == [k \in 0 .. n |-> B(k)]
<1>1. n \in Nat /\ DOMAIN M = 1 .. n
  BY DEF Listed
<1>2. LoadRow(r, back, 0, a0, s) = Loading!Right(r, s, back, a0, M)
  BY Zenon DEF LoadRow, LoadOp, Loading!Right, FoldRight, MapThenFoldSet, Min,
               Loading!Least
<1>3. a0 \in B(n)
  <2>1. Peeled(p[r][s], M, n, p[r][s])
    BY PeelStarts
  <2> QED BY <2>1 DEF RowLeft, Loaded
<1>4. \A k \in 1 .. n : \A a \in B(k) : LoadOp(r, s, back, a, M[k]) \in B(k - 1)
  <2> SUFFICES ASSUME NEW k \in 1 .. n, NEW a \in B(k)
               PROVE  Load1(r, s, M[k], back, a) \in B(k - 1)
    BY DEF LoadOp
  <2>1. RowLeft(r, s, a0, k - 1, Load1(r, s, M[k], back, a))
    BY RowNext
  <2> QED BY <2>1 DEF RowLeft, Loaded
<1>5. I[0] = B(0) /\ I[n] = B(n) /\ \A k \in 1 .. n : I[k] = B(k) /\ I[k - 1] = B(k - 1)
  BY <1>1
<1> HIDE DEF I, B, n, M
<1>6. a0 \in I[n]
  BY <1>3, <1>5
<1>7. \A k \in 1 .. n : \A a \in I[k] : LoadOp(r, s, back, a, M[k]) \in I[k - 1]
  BY <1>4, <1>5, Zenon
<1>8. Loading!Right(r, s, back, a0, M) \in I[0]
  BY <1>1, <1>6, <1>7, Loading!RightRule, Zenon
<1> QED BY <1>2, <1>5, <1>8 DEF B

(* What is left of a list: those that had no mover.                        *)
Stayed(r, s, q) ==
  /\ Listed(r, q, <<>>) /\ Len(q) <= Len(p[r][s])
  /\ \A i \in DOMAIN q : q[i] \in Stay(p[r][s], pm[r][s])
(* After the first k species.                                              *)
RowsDone(r, k, P) ==
  \A j \in DOMAIN SpList :
    LET s == SpList[j] IN
    IF j <= k THEN Stayed(r, s, P[s]) ELSE P[s] = p[r][s]

(* The species are those of the list, each once.                           *)
LEMMA SpListIs ==
  ASSUME Fixed
  PROVE  /\ Len(SpList) \in Nat /\ DOMAIN SpList = 1 .. Len(SpList)
         /\ \A j \in DOMAIN SpList : SpList[j] \in Species
         /\ \A s \in Species : \E j \in DOMAIN SpList : SpList[j] = s
         /\ \A j, k \in DOMAIN SpList : SpList[j] = SpList[k] => j = k
<1>1. setting \in Settings /\ Species = SpeciesOf(setting)
  BY FixedIs
<1>2. /\ SpList \in Seq(SpeciesOf(setting))
      /\ \A j, k \in DOMAIN SpList : SpList[j] = SpList[k] => j = k
  BY <1>1, BoundaryPAssumption DEF SpList
<1>3. SpeciesOf(setting) = {SpList[k] : k \in DOMAIN SpList}
  BY DEF SpeciesOf, SpList
<1>4. Len(SpList) \in Nat /\ DOMAIN SpList = 1 .. Len(SpList)
  BY <1>2
<1> QED BY <1>1, <1>2, <1>3, <1>4

(* One more species is done.                                               *)
LEMMA RowsNext ==
  ASSUME Fixed, NEW r \in Rank, NEW k \in 1 .. Len(SpList), NEW P, RowsDone(r, k - 1, P), NEW Q,
         Listed(r, p[r][SpList[k]], pm[r][SpList[k]]),
         Peeled(p[r][SpList[k]], pm[r][SpList[k]], 0, Q[SpList[k]]),
         \A t \in Species : t # SpList[k] => Q[t] = P[t]
  PROVE  RowsDone(r, k, Q)
<1>1. /\ DOMAIN SpList = 1 .. Len(SpList) /\ Len(SpList) \in Nat
      /\ \A j \in DOMAIN SpList : SpList[j] \in Species
      /\ \A i, j \in DOMAIN SpList : SpList[i] = SpList[j] => i = j
  BY SpListIs
<1> SUFFICES ASSUME NEW j \in 1 .. Len(SpList)
             PROVE  LET s == SpList[j] IN
                    IF j <= k THEN Stayed(r, s, Q[s]) ELSE Q[s] = p[r][s]
  BY <1>1 DEF RowsDone
<1>2. LET s == SpList[j] IN
      IF j <= k - 1 THEN Stayed(r, s, P[s]) ELSE P[s] = p[r][s]
  BY <1>1, Zenon DEF RowsDone
<1>3. CASE j = k
  <2>1. /\ Listed(r, Q[SpList[k]], <<>>)
        /\ \A i \in DOMAIN Q[SpList[k]] : Q[SpList[k]][i] \in Stay(p[r][SpList[k]], pm[r][SpList[k]])
    BY PeelEnds
  <2>2. Len(Q[SpList[k]]) <= Len(p[r][SpList[k]])
    BY DEF Peeled
  <2>3. j <= k
    BY <1>3
  <2> QED BY <1>3, <2>1, <2>2, <2>3 DEF Stayed
<1>4. CASE j # k
  <2>1. Q[SpList[j]] = P[SpList[j]]
    BY <1>1, <1>4
  <2>2. j <= k - 1 <=> j <= k
    BY <1>1, <1>4
  <2> QED BY <1>2, <2>1, <2>2
<1> QED BY <1>3, <1>4

(* Loading takes every mover off the lists and leaves the rest in cells.   *)
LEMMA LoadAllIs ==
  ASSUME Fixed, NEW r \in Rank, NEW back \in Draws(r), p[r] \in [Species -> Seq(Part)],
         \A s \in Species : Listed(r, p[r][s], pm[r][s]),
         rhob \in [Ids -> Nat], tally[r] \in [Species -> Nat], met \in SUBSET Ids, dropped \in SUBSET Ids
  PROVE  LET out == LoadAll(r, back) IN
         /\ Loaded(r, out) /\ Kept(r, out)
         /\ \A s \in Species : Stayed(r, s, out.p[s])
<1> DEFINE base == [p |-> p[r], send |-> [f \in Face |-> <<>>], ci |-> <<>>, rhob |-> rhob,
                    tally |-> tally[r], met |-> met, dropped |-> dropped]
           n == Len(SpList)
           B(k) == {a \in Buffers : Loaded(r, a) /\ Kept(r, a) /\ RowsDone(r, k, a.p)}
           I == [k \in 0 .. n |-> B(k)]
<1>1. /\ n \in Nat /\ DOMAIN SpList = 1 .. n
      /\ \A j \in DOMAIN SpList : SpList[j] \in Species
      /\ \A s \in Species : \E j \in DOMAIN SpList : SpList[j] = s
      /\ \A j, k \in DOMAIN SpList : SpList[j] = SpList[k] => j = k
  BY SpListIs
<1>2. LoadAll(r, back) = LoadingAll!Left(r, back, 0, base, SpList)
  BY Zenon DEF LoadAll, LoadRow, LoadingAll!Left, FoldLeft, MapThenFoldSet, Max,
               LoadingAll!Greatest
<1>3. base \in B(0)
  <2>1. base \in Buffers /\ base.p = p[r] /\ \A f \in Face : base.send[f] = <<>>
    BY DEF Buffers
  <2>2. Kept(r, base)
    <3>1. Follows(r, base.p, base.send, base.ci, base.rhob, base.dropped)
      BY Zenon DEF Follows
    <3>2. ASSUME Setoff(r)
          PROVE  Ahead(r, base)
      <4>1. /\ base.met = met /\ base.rhob = rhob /\ DOMAIN base.ci = {}
            /\ \A f \in Face : DOMAIN base.send[f] = {}
        OBVIOUS
      <4> HIDE DEF base
      <4> QED BY <3>2, <4>1 DEF Setoff, Ahead
    <3> HIDE DEF base
    <3> QED BY <3>1, <3>2 DEF Kept
  <2>3. RowsDone(r, 0, p[r])
    BY <1>1 DEF RowsDone
  <2> QED BY <2>1, <2>2, <2>3 DEF Loaded
<1>4. \A k \in 1 .. n : \A a \in B(k - 1) : LoadRow(r, back, 0, a, SpList[k]) \in B(k)
  <2> SUFFICES ASSUME NEW k \in 1 .. n, NEW a \in B(k - 1)
               PROVE  LoadRow(r, back, 0, a, SpList[k]) \in B(k)
    OBVIOUS
  <2> DEFINE s == SpList[k]
             b == LoadRow(r, back, 0, a, s)
  <2>1. s \in Species /\ k \in DOMAIN SpList
    BY <1>1
  <2>2. Loaded(r, a) /\ Kept(r, a) /\ RowsDone(r, k - 1, a.p)
    OBVIOUS
  <2>3. a.p[s] = p[r][s]
    <3>1. ~ (k <= k - 1)
      BY <1>1
    <3> QED BY <2>1, <2>2, <3>1 DEF RowsDone
  <2> HIDE DEF b
  <2>4. RowLeft(r, s, a, 0, b)
    BY <2>1, <2>2, <2>3, LoadRowIs DEF b
  <2>5. Loaded(r, b) /\ Kept(r, b)
    BY <2>4 DEF RowLeft
  <2>6. RowsDone(r, k, b.p)
    BY <2>1, <2>2, <2>4, RowsNext, Zenon DEF RowLeft
  <2>7. b \in Buffers
    BY <2>5 DEF Loaded
  <2> QED BY <2>5, <2>6, <2>7 DEF b
<1>5. I[0] = B(0) /\ I[n] = B(n) /\ \A k \in 1 .. n : I[k] = B(k) /\ I[k - 1] = B(k - 1)
  BY <1>1
<1> HIDE DEF I, B, n, base
<1>6. base \in I[0]
  BY <1>3, <1>5
<1>7. \A k \in 1 .. n : \A a \in I[k - 1] : LoadRow(r, back, 0, a, SpList[k]) \in I[k]
  BY <1>4, <1>5, Zenon
<1>8. LoadingAll!Left(r, back, 0, base, SpList) \in I[n]
  BY <1>1, <1>6, <1>7, LoadingAll!LeftRule, Zenon
<1>9. Loaded(r, LoadAll(r, back)) /\ Kept(r, LoadAll(r, back)) /\ RowsDone(r, n, LoadAll(r, back).p)
  BY <1>2, <1>5, <1>8 DEF B
<1>10. ASSUME NEW s \in Species
       PROVE  Stayed(r, s, LoadAll(r, back).p[s])
  <2>1. PICK j \in DOMAIN SpList : SpList[j] = s
    BY <1>1
  <2>2. j <= n
    BY <1>1
  <2> QED BY <1>9, <2>1, <2>2 DEF RowsDone
<1> QED BY <1>9, <1>10
-----------------------------------------------------------------------------
(* The lists the species of a rank may have.                               *)
ListsOf == [r \in Rank |-> {x \in Seq(Part) \X Seq(Mover) : Listed(r, x[1], x[2])}]

(* What follows from the deck stays what it is.                            *)
LEMMA GivenKeeps ==
  ASSUME UNCHANGED <<setting, derived>>
  PROVE  /\ Rank' = Rank /\ Species' = Species /\ Ids' = Ids /\ SpList' = SpList
         /\ Part' = Part /\ Injector' = Injector /\ Message' = Message /\ ListsOf' = ListsOf
         /\ Fixed <=> Fixed'
<1>1. setting' = setting /\ derived' = derived
  OBVIOUS
<1>2. Rank' = Rank /\ Species' = Species /\ Ids' = Ids /\ SpList' = SpList /\ Cells' = Cells
  BY <1>1 DEF Rank, Species, Ids, SpList, Cells, Deck
<1>3. Part' = Part
  BY <1>2 DEF Part
<1>4. CellNo' = CellNo
  BY <1>2 DEF CellNo, IsCell
<1>5. Injector' = Injector
  BY <1>2, <1>4 DEF Injector
<1>6. Message' = Message
  BY <1>5 DEF Message
<1>7. ListsOf' = ListsOf
  BY <1>1, <1>2, <1>3 DEF ListsOf, Listed, Stands, Stopped, IsCell, neighbor, Tables, rangel, rangeh
<1>8. Fixed <=> Fixed'
  BY <1>1 DEF Fixed
<1> QED BY <1>2, <1>3, <1>5, <1>6, <1>7, <1>8
-----------------------------------------------------------------------------
(* First invariant: every variable has its range, and the movers of every  *)
(* list are in order.                                                      *)
Phase == DOMAIN Follow \cup {"begin", "resize", "return", "leftover", "done", "error"}

Controls ==
  /\ pc \in [Rank -> Phase] /\ face \in [Rank -> 0..6] /\ round \in [Rank -> Nat]
  /\ \A r \in Rank : pc[r] \in DOMAIN Follow /\ face[r] # 6 => shared(r, face[r])
Ranges ==
  /\ p \in [Rank -> [Species -> Seq(Part)]] /\ pm \in [Rank -> [Species -> Seq(Mover)]]
  /\ max_np \in [Rank -> [Species -> Nat]] /\ max_nm \in [Rank -> [Species -> Nat]]
  /\ ci \in [Rank -> Seq(Injector)] /\ send \in [Rank -> [Face -> Seq(Injector)]]
  /\ n_recv \in [Rank -> [Face -> Nat]] /\ posted \in [Rank -> [Face -> Nat]]
  /\ wire \in [Rank -> [Face -> Seq(Message)]]
  /\ rhob \in [Ids -> Nat] /\ tally \in [Rank -> [Species -> Nat]]
  /\ met \in SUBSET Ids /\ dropped \in SUBSET Ids
InOrder == \A r \in Rank, s \in Species : <<p[r][s], pm[r][s]>> \in ListsOf[r]
Lists == Fixed /\ Controls /\ Ranges /\ InOrder

(* The next face shared from f on.                                         *)
LEMMA NextSharedIs ==
  ASSUME NEW r, NEW f \in 0..6
  PROVE  LET g == NextShared(r, f) IN
         /\ g \in 0..6 /\ g >= f /\ (g # 6 => g \in Face /\ shared(r, g))
         /\ \A h \in Face : h >= f /\ shared(r, h) => g <= h
<1> DEFINE S == {g \in f..5 : shared(r, g)}
           g == NextShared(r, f)
<1>1. S \subseteq Nat /\ S \subseteq Face
  BY DEF Face
<1>2. CASE S = {}
  <2>1. g = 6
    BY <1>2 DEF NextShared
  <2>2. \A h \in Face : h >= f => h \in f..5
    BY DEF Face
  <2> QED BY <1>2, <2>1, <2>2
<1>3. CASE S # {}
  <2>1. g = CHOOSE h \in S : \A k \in S : h <= k
    BY <1>3 DEF NextShared
  <2>2. \E h \in S : \A k \in S : h <= k
    <3> HIDE DEF S
    <3> QED BY <1>1, <1>3, Crossing!LeastNumber, Zenon
  <2>3. g \in S /\ \A k \in S : g <= k
    <3> HIDE DEF S, g
    <3> QED BY <2>1, <2>2
  <2>4. \A h \in Face : h >= f => h \in f..5
    BY DEF Face
  <2>5. g \in 0..6 /\ g >= f /\ g \in Face /\ shared(r, g)
    BY <1>1, <2>3
  <2> QED BY <2>3, <2>4, <2>5
<1> QED BY <1>2, <1>3

(* The loops go from one shared face to the next.                          *)
LEMMA ControlsKeep ==
  ASSUME Controls, UNCHANGED given, round' \in [Rank -> Nat], NEW r \in Rank,
         \/ UNCHANGED pc /\ NextFace(r) /\ face[r] < 6
         \/ \E phase \in Phase : Goto(r, phase)
         \/ pc' = [pc EXCEPT ![r] = "error"] /\ UNCHANGED face
  PROVE  Controls'
<1>1. Rank' = Rank /\ \A q, f : shared(q, f)' <=> shared(q, f)
  BY DEF given, Rank, shared, bc, Tables
<1>2. pc \in [Rank -> Phase] /\ face \in [Rank -> 0..6]
  BY DEF Controls
<1>3. \A f \in 0..6 : NextShared(r, f) \in 0..6 /\ (NextShared(r, f) # 6 => shared(r, NextShared(r, f)))
  BY NextSharedIs
<1>4. CASE UNCHANGED pc /\ NextFace(r) /\ face[r] < 6
  <2>1. face[r] + 1 \in 0..6
    BY <1>2, <1>4
  <2>2. face' = [face EXCEPT ![r] = NextShared(r, face[r] + 1)]
    BY <1>4 DEF NextFace
  <2> DEFINE g == NextShared(r, face[r] + 1)
  <2>3. g \in 0..6 /\ (g # 6 => shared(r, g))
    BY <1>3, <2>1
  <2> HIDE DEF g
  <2>4. face' = [face EXCEPT ![r] = g]
    BY <2>2 DEF g
  <2> QED BY <1>1, <1>2, <1>4, <2>3, <2>4 DEF Controls, shared, bc, Tables
<1>5. CASE \E phase \in Phase : Goto(r, phase)
  <2>1. PICK phase \in Phase : Goto(r, phase)
    BY <1>5
  <2> DEFINE g == NextShared(r, 0)
  <2>2. g \in 0..6 /\ (g # 6 => shared(r, g))
    BY <1>3
  <2> HIDE DEF g
  <2>3. face' = [face EXCEPT ![r] = g] /\ pc' = [pc EXCEPT ![r] = phase]
    BY <2>1 DEF Goto, g
  <2> QED BY <1>1, <1>2, <2>2, <2>3 DEF Controls, shared, bc, Tables
<1>6. CASE pc' = [pc EXCEPT ![r] = "error"] /\ UNCHANGED face
  <2>1. "error" \in Phase /\ "error" \notin DOMAIN Follow
    BY DEF Phase, Follow
  <2> QED BY <1>1, <1>2, <1>6, <2>1 DEF Controls, shared, bc, Tables
<1> QED BY <1>4, <1>5, <1>6
(* What Lists says of a rank's lists, and what makes it true again.        *)
LEMMA ListsAre ==
  ASSUME Lists, NEW r \in Rank
  PROVE  /\ p[r] \in [Species -> Seq(Part)] /\ pm[r] \in [Species -> Seq(Mover)]
         /\ RoomListed(r, [p |-> p[r], pm |-> pm[r]])
         /\ \A s \in Species : Listed(r, p[r][s], pm[r][s])
<1>1. p[r] \in [Species -> Seq(Part)] /\ pm[r] \in [Species -> Seq(Mover)]
  BY DEF Lists, Ranges
<1>2. \A s \in Species : Listed(r, p[r][s], pm[r][s])
  BY Zenon DEF Lists, InOrder, ListsOf
<1> QED BY <1>1, <1>2 DEF RoomListed, Room

(* One rank's lists change.                                                *)
LEMMA OrderKeeps ==
  ASSUME Lists, UNCHANGED given, NEW r \in Rank, NEW P, NEW M, RoomListed(r, [p |-> P, pm |-> M]),
         p' = [p EXCEPT ![r] = P], pm' = [pm EXCEPT ![r] = M]
  PROVE  /\ InOrder'
         /\ p' \in [Rank -> [Species -> Seq(Part)]] /\ pm' \in [Rank -> [Species -> Seq(Mover)]]
<1>1. /\ P \in [Species -> Seq(Part)] /\ M \in [Species -> Seq(Mover)]
      /\ \A s \in Species : Listed(r, P[s], M[s])
  BY DEF RoomListed, Room
<1>2. p \in [Rank -> [Species -> Seq(Part)]] /\ pm \in [Rank -> [Species -> Seq(Mover)]]
  BY DEF Lists, Ranges
<1>3. p' \in [Rank -> [Species -> Seq(Part)]] /\ pm' \in [Rank -> [Species -> Seq(Mover)]]
  BY <1>1, <1>2
<1>4. \A s \in Species : <<P[s], M[s]>> \in ListsOf[r]
  BY <1>1 DEF ListsOf
<1>5. \A q \in Rank, s \in Species : <<p[q][s], pm[q][s]>> \in ListsOf[q]
  BY DEF Lists, InOrder
<1>6. ASSUME NEW q \in Rank, NEW s \in Species
      PROVE  <<p'[q][s], pm'[q][s]>> \in ListsOf[q]
  <2>1. CASE q = r
    BY <1>2, <1>4, <2>1
  <2>2. CASE q # r
    BY <1>2, <1>5, <2>2
  <2> QED BY <2>1, <2>2
<1>7. Rank' = Rank /\ Species' = Species /\ ListsOf' = ListsOf
  BY GivenKeeps DEF given
<1> QED BY <1>3, <1>6, <1>7 DEF InOrder

(* No list changes.                                                        *)
LEMMA OrderStays ==
  ASSUME Lists, UNCHANGED given, UNCHANGED <<p, pm>>
  PROVE  InOrder'
<1>1. Rank' = Rank /\ Species' = Species /\ ListsOf' = ListsOf
  BY GivenKeeps DEF given
<1> QED BY <1>1 DEF Lists, InOrder

(* What a message brings.                                                  *)
LEMMA ArrivedIs ==
  ASSUME Lists, NEW r \in Rank, NEW f \in Face, shared(r, f)
  PROVE  /\ bc(r, f) \in Rank /\ Port(f) \in Face /\ Arrived(r, f) = wire[bc(r, f)][Port(f)]
         /\ Arrived(r, f) \in Seq(Message)
         /\ Arrived(r, f) # <<>> => /\ Head(Arrived(r, f)) \in Message
                                    /\ Tail(Arrived(r, f)) \in Seq(Message)
                                    /\ Received(r, f) \in [Rank -> [Face -> Seq(Message)]]
<1>1. bc(r, f) \in Rank /\ Port(f) \in Face
  BY SharedIs DEF Lists
<1>2. wire \in [Rank -> [Face -> Seq(Message)]]
  BY DEF Lists, Ranges
<1>3. Arrived(r, f) = wire[bc(r, f)][Port(f)]
  BY DEF Arrived
<1> DEFINE W == Arrived(r, f)
           n == bc(r, f)
           g == Port(f)
<1>4. W \in Seq(Message)
  BY <1>1, <1>2, <1>3
<1> HIDE DEF W
<1>5. W # <<>> => Head(W) \in Message /\ Tail(W) \in Seq(Message)
  BY <1>4
<1>6. Received(r, f) = [wire EXCEPT ![n][g] = Tail(wire[n][g])]
  BY DEF Received
<1> HIDE DEF n, g
<1>7. W # <<>> => Received(r, f) \in [Rank -> [Face -> Seq(Message)]]
  <2> SUFFICES ASSUME W # <<>>
               PROVE  Received(r, f) \in [Rank -> [Face -> Seq(Message)]]
    OBVIOUS
  <2>1. Tail(wire[n][g]) \in Seq(Message)
    BY <1>3, <1>5 DEF n, g, W
  <2> QED BY <1>1, <1>2, <1>6, <2>1 DEF n, g
<1> QED BY <1>1, <1>3, <1>4, <1>5, <1>7 DEF W

(* A round begins.                                                         *)
LEMMA BeginLists ==
  ASSUME Lists, NEW r \in Rank, Begin(r)
  PROVE  Lists'
<1> PICK back \in Draws(r) :
      LET out == LoadAll(r, back) IN
      /\ p' = [p EXCEPT ![r] = out.p]
      /\ pm' = [pm EXCEPT ![r] = [s \in Species |-> <<>>]]
      /\ ci' = [ci EXCEPT ![r] = out.ci]
      /\ send' = [send EXCEPT ![r] = out.send]
      /\ rhob' = out.rhob
      /\ tally' = [tally EXCEPT ![r] = out.tally]
      /\ met' = out.met
      /\ dropped' = out.dropped
      /\ wire' = [wire EXCEPT ![r] = [f \in Face |->
           IF shared(r, f) THEN Append(@[f], CountMsg(Len(out.send[f]))) ELSE @[f]]]
  BY Zenon DEF Begin
<1> DEFINE out == LoadAll(r, back)
           M == [s \in Species |-> <<>>]
           W == [f \in Face |-> IF shared(r, f) THEN Append(wire[r][f], CountMsg(Len(out.send[f])))
                                ELSE wire[r][f]]
           po == [f \in Face |-> IF shared(r, f) THEN CountSize ELSE 0]
<1>1. /\ UNCHANGED given /\ UNCHANGED <<round, max_np, max_nm, n_recv>> /\ Goto(r, "count")
      /\ posted' = [posted EXCEPT ![r] = po]
  BY DEF Begin
<1>2. /\ Fixed /\ p \in [Rank -> [Species -> Seq(Part)]] /\ pm \in [Rank -> [Species -> Seq(Mover)]]
      /\ ci \in [Rank -> Seq(Injector)] /\ send \in [Rank -> [Face -> Seq(Injector)]]
      /\ wire \in [Rank -> [Face -> Seq(Message)]] /\ rhob \in [Ids -> Nat]
      /\ tally \in [Rank -> [Species -> Nat]] /\ met \in SUBSET Ids /\ dropped \in SUBSET Ids
      /\ posted \in [Rank -> [Face -> Nat]]
  BY DEF Lists, Ranges
<1>3. /\ Loaded(r, out)
      /\ \A s \in Species : Listed(r, out.p[s], <<>>)
  BY <1>2, ListsAre, LoadAllIs, Zenon DEF Stayed
<1>4. out \in Buffers
  BY <1>3 DEF Loaded
<1> HIDE DEF out
<1>5. RoomListed(r, [p |-> out.p, pm |-> M])
  <2>1. out.p \in [Species -> Seq(Part)] /\ M \in [Species -> Seq(Mover)]
    BY <1>4 DEF Buffers
  <2> QED BY <1>3, <2>1 DEF RoomListed, Room
<1> HIDE DEF M
<1>6. p' = [p EXCEPT ![r] = out.p] /\ pm' = [pm EXCEPT ![r] = M]
  BY DEF out, M
<1>7. InOrder' /\ p' \in [Rank -> [Species -> Seq(Part)]] /\ pm' \in [Rank -> [Species -> Seq(Mover)]]
  BY <1>1, <1>5, <1>6, OrderKeeps, Zenon
<1>8. Controls'
  <2>1. "count" \in Phase
    BY DEF Phase, Follow
  <2> QED BY <1>1, <2>1, ControlsKeep DEF Lists, Controls
<1>9. W \in [Face -> Seq(Message)]
  <2>1. ASSUME NEW f \in Face
        PROVE  W[f] \in Seq(Message)
    <3>1. Len(out.send[f]) \in Nat
      BY <1>4 DEF Buffers
    <3>2. CountMsg(Len(out.send[f])) \in Message
      BY <3>1, MessagesAre, Zenon
    <3> QED BY <1>2, <3>2
  <2> QED BY <2>1
<1>10. po \in [Face -> Nat]
  BY DEF CountSize
<1>11. wire' = [wire EXCEPT ![r] = W]
  BY <1>2 DEF out
<1> HIDE DEF W, po
<1>12. /\ ci' = [ci EXCEPT ![r] = out.ci] /\ send' = [send EXCEPT ![r] = out.send]
       /\ rhob' = out.rhob /\ tally' = [tally EXCEPT ![r] = out.tally]
       /\ met' = out.met /\ dropped' = out.dropped
  BY DEF out
<1>13. /\ ci' \in [Rank -> Seq(Injector)] /\ send' \in [Rank -> [Face -> Seq(Injector)]]
       /\ posted' \in [Rank -> [Face -> Nat]] /\ wire' \in [Rank -> [Face -> Seq(Message)]]
       /\ rhob' \in [Ids -> Nat] /\ tally' \in [Rank -> [Species -> Nat]]
       /\ met' \in SUBSET Ids /\ dropped' \in SUBSET Ids
  <2>1. /\ ci' \in [Rank -> Seq(Injector)] /\ send' \in [Rank -> [Face -> Seq(Injector)]]
        /\ rhob' \in [Ids -> Nat] /\ tally' \in [Rank -> [Species -> Nat]]
        /\ met' \in SUBSET Ids /\ dropped' \in SUBSET Ids
    <3>1. /\ out.ci \in Seq(Injector) /\ out.send \in [Face -> Seq(Injector)]
          /\ out.rhob \in [Ids -> Nat] /\ out.tally \in [Species -> Nat]
          /\ out.met \in SUBSET Ids /\ out.dropped \in SUBSET Ids
      BY <1>4, Zenon DEF Buffers
    <3>2. /\ ci \in [Rank -> Seq(Injector)] /\ send \in [Rank -> [Face -> Seq(Injector)]]
          /\ tally \in [Rank -> [Species -> Nat]]
      BY <1>2, Zenon
    <3>3. ci' \in [Rank -> Seq(Injector)] /\ tally' \in [Rank -> [Species -> Nat]]
      BY <1>12, <3>1, <3>2
    <3>4. send' \in [Rank -> [Face -> Seq(Injector)]]
      BY <1>12, <3>1, <3>2
    <3> QED BY <1>12, <3>1, <3>3, <3>4, Zenon
  <2>2. posted' \in [Rank -> [Face -> Nat]] /\ wire' \in [Rank -> [Face -> Seq(Message)]]
    BY <1>1, <1>2, <1>9, <1>10, <1>11
  <2> QED BY <2>1, <2>2
<1>14. Ranges'
  <2>1. /\ Rank' = Rank /\ Species' = Species /\ Ids' = Ids /\ Part' = Part
        /\ Injector' = Injector /\ Message' = Message
    BY <1>1, GivenKeeps DEF given
  <2>2. Mover' = Mover
    BY DEF Mover
  <2> QED BY <1>1, <1>7, <1>13, <2>1, <2>2, Zenon DEF Lists, Ranges
<1> QED BY <1>1, <1>7, <1>8, <1>14, GivenKeeps DEF Lists, given
(* The other steps.  The number of a neighbor's injectors is taken ...     *)
LEMMA EndRecvCountLists ==
  ASSUME Lists, NEW r \in Rank, EndRecvCount(r)
  PROVE  Lists'
<1> DEFINE f == face[r]
           m == Head(Arrived(r, f))
<1>1. /\ At(r, "count") /\ Arrived(r, f) # <<>> /\ wire' = Received(r, f)
      /\ UNCHANGED given /\ UNCHANGED round /\ UNCHANGED local /\ UNCHANGED send
      /\ \/ pc' = [pc EXCEPT ![r] = "error"] /\ UNCHANGED <<face, n_recv, posted>>
         \/ /\ n_recv' = [n_recv EXCEPT ![r][f] = m.n]
            /\ posted' = [posted EXCEPT ![r][f] = DataSize(m.n)]
            /\ NextFace(r) /\ UNCHANGED pc
  BY DEF EndRecvCount
<1>2. f \in Face /\ shared(r, f) /\ f < 6
  <2>1. pc[r] = "count" /\ f < 6 /\ f \in 0..6
    BY <1>1 DEF At, Lists, Controls
  <2> QED BY <2>1 DEF Lists, Controls, Follow, Face
<1> HIDE DEF f
<1>3. m \in Message /\ wire' \in [Rank -> [Face -> Seq(Message)]]
  BY <1>1, <1>2, ArrivedIs
<1> HIDE DEF m
<1>4. m.n \in Nat /\ DataSize(m.n) \in Nat
  <2>1. m.n \in Nat
    BY <1>3 DEF Message
  <2> QED BY <2>1, MessagesAre, Zenon
<1>5. n_recv \in [Rank -> [Face -> Nat]] /\ posted \in [Rank -> [Face -> Nat]]
  BY DEF Lists, Ranges
<1>6. n_recv' \in [Rank -> [Face -> Nat]] /\ posted' \in [Rank -> [Face -> Nat]]
  <2> DEFINE z == DataSize(m.n)
  <2>1. z \in Nat /\ m.n \in Nat
    BY <1>4
  <2>2. \/ UNCHANGED <<n_recv, posted>>
        \/ n_recv' = [n_recv EXCEPT ![r][f] = m.n] /\ posted' = [posted EXCEPT ![r][f] = z]
    BY <1>1
  <2> HIDE DEF z
  <2>3. ASSUME NEW x \in Nat
        PROVE  /\ [n_recv EXCEPT ![r][f] = x] \in [Rank -> [Face -> Nat]]
               /\ [posted EXCEPT ![r][f] = x] \in [Rank -> [Face -> Nat]]
    BY <1>2, <1>5
  <2> QED BY <1>5, <2>1, <2>2, <2>3, Zenon
<1>7. Controls'
  BY <1>1, <1>2, ControlsKeep DEF Lists, Controls, f
<1>8. InOrder'
  BY <1>1, OrderStays DEF local
<1>9. Ranges'
  BY <1>1, <1>3, <1>6, GivenKeeps, Zenon DEF Lists, Ranges, local, given, Mover
<1> QED BY <1>1, <1>7, <1>8, <1>9, GivenKeeps DEF Lists, given

(* ... and the injectors sent when that of one's own was;                  *)
LEMMA EndSendCountLists ==
  ASSUME Lists, NEW r \in Rank, EndSendCount(r)
  PROVE  Lists'
<1> DEFINE f == face[r]
           m == DataMsg(send[r][f])
<1>1. /\ At(r, "data") /\ wire' = [wire EXCEPT ![r][f] = Append(@, m)]
      /\ send' = [send EXCEPT ![r][f] = <<>>] /\ NextFace(r) /\ UNCHANGED pc
      /\ UNCHANGED given /\ UNCHANGED round /\ UNCHANGED local /\ UNCHANGED <<n_recv, posted>>
  BY DEF EndSendCount
<1>2. f \in Face /\ f < 6
  <2>1. f < 6 /\ f \in 0..6
    BY <1>1 DEF At, Lists, Controls
  <2> QED BY <2>1 DEF Face
<1> HIDE DEF f
<1>3. send \in [Rank -> [Face -> Seq(Injector)]] /\ wire \in [Rank -> [Face -> Seq(Message)]]
  BY DEF Lists, Ranges
<1>4. m \in Message
  <2>1. send[r][f] \in Seq(Injector)
    BY <1>2, <1>3
  <2> QED BY <2>1, MessagesAre
<1> HIDE DEF m
<1>5. Append(wire[r][f], m) \in Seq(Message)
  BY <1>2, <1>3, <1>4
<1>6. send' \in [Rank -> [Face -> Seq(Injector)]] /\ wire' \in [Rank -> [Face -> Seq(Message)]]
  BY <1>1, <1>2, <1>3, <1>5
<1>7. Controls'
  BY <1>1, <1>2, ControlsKeep DEF Lists, Controls, f
<1>8. InOrder'
  BY <1>1, OrderStays DEF local
<1>9. Ranges'
  BY <1>1, <1>6, GivenKeeps, Zenon DEF Lists, Ranges, local, given, Mover
<1> QED BY <1>1, <1>7, <1>8, <1>9, GivenKeeps DEF Lists, given

(* the lists are resized and take the local injectors ...                  *)
LEMMA ResizeLists ==
  ASSUME Lists, NEW r \in Rank, ResizeInjectLocal(r), MaxInj(r) \in Nat
  PROVE  Lists'
<1> DEFINE a == [p |-> p[r], pm |-> pm[r]]
           out == InjectAll(r, a, ci[r])
           np == [s \in Species |-> RoomNp(Len(p[r][s]) + MaxInj(r), max_np[r][s])]
           nm == [s \in Species |-> RoomNm(Len(pm[r][s]) + MaxInj(r), max_nm[r][s])]
<1>1. /\ p' = [p EXCEPT ![r] = out.p] /\ pm' = [pm EXCEPT ![r] = out.pm]
      /\ ci' = [ci EXCEPT ![r] = <<>>] /\ Goto(r, "inject")
      /\ UNCHANGED given /\ UNCHANGED <<round, rhob, tally, met, dropped>> /\ UNCHANGED ports
  BY DEF ResizeInjectLocal
<1>2. max_np \in [Rank -> [Species -> Nat]] /\ max_nm \in [Rank -> [Species -> Nat]]
  BY DEF Lists, Ranges
<1>3. max_np' = [max_np EXCEPT ![r] = np] /\ max_nm' = [max_nm EXCEPT ![r] = nm]
  BY <1>2 DEF ResizeInjectLocal
<1>4. ci[r] \in Seq(Injector) /\ ci \in [Rank -> Seq(Injector)]
  BY DEF Lists, Ranges
<1>5. RoomListed(r, a)
  BY ListsAre
<1> HIDE DEF a
<1>6. RoomListed(r, out)
  BY <1>4, <1>5, InjectAllIs DEF Injected, Lists
<1> HIDE DEF out
<1>7. InOrder' /\ p' \in [Rank -> [Species -> Seq(Part)]] /\ pm' \in [Rank -> [Species -> Seq(Mover)]]
  <2>1. RoomListed(r, [p |-> out.p, pm |-> out.pm])
    BY <1>6 DEF RoomListed, Room
  <2> QED BY <1>1, <2>1, OrderKeeps, Zenon
<1>8. Controls'
  <2>1. "inject" \in Phase
    BY DEF Phase, Follow
  <2> QED BY <1>1, <2>1, ControlsKeep DEF Lists, Controls
<1>9. np \in [Species -> Nat] /\ nm \in [Species -> Nat]
  <2>1. MIN_NP \in Nat
    BY FixedIs, BoundaryPAssumption DEF Lists, MIN_NP
  <2>2. \A n, x \in Nat : RoomNp(n, x) \in Nat /\ RoomNm(n, x) \in Nat
    BY <2>1 DEF RoomNp, RoomNm
  <2>3. \A x, y \in Nat : x + y \in Nat
    OBVIOUS
  <2>4. ASSUME NEW s \in Species
        PROVE  np[s] \in Nat /\ nm[s] \in Nat
    <3>1. Len(p[r][s]) \in Nat /\ Len(pm[r][s]) \in Nat /\ max_np[r][s] \in Nat /\ max_nm[r][s] \in Nat
      BY <1>2, ListsAre
    <3>2. Len(p[r][s]) + MaxInj(r) \in Nat /\ Len(pm[r][s]) + MaxInj(r) \in Nat
      BY <2>3, <3>1, Zenon
    <3>3. RoomNp(Len(p[r][s]) + MaxInj(r), max_np[r][s]) \in Nat
      BY <2>2, <3>1, <3>2, Zenon
    <3>4. RoomNm(Len(pm[r][s]) + MaxInj(r), max_nm[r][s]) \in Nat
      BY <2>2, <3>1, <3>2, Zenon
    <3> QED BY <3>3, <3>4
  <2> HIDE DEF np, nm
  <2>5. np = [s \in Species |-> np[s]] /\ nm = [s \in Species |-> nm[s]]
    BY DEF np, nm
  <2> QED BY <2>4, <2>5
<1> HIDE DEF np, nm
<1>10. max_np' \in [Rank -> [Species -> Nat]] /\ max_nm' \in [Rank -> [Species -> Nat]]
       /\ ci' \in [Rank -> Seq(Injector)]
  BY <1>1, <1>2, <1>3, <1>4, <1>9
<1>11. Ranges'
  BY <1>1, <1>7, <1>10, GivenKeeps, Zenon DEF Lists, Ranges, ports, given, Mover
<1> QED BY <1>1, <1>7, <1>8, <1>11, GivenKeeps DEF Lists, given

(* ... and those of every neighbor;                                        *)
LEMMA EndRecvDataLists ==
  ASSUME Lists, NEW r \in Rank, EndRecvData(r)
  PROVE  Lists'
<1> DEFINE f == face[r]
           m == Head(Arrived(r, f))
           a == [p |-> p[r], pm |-> pm[r]]
           out == InjectAll(r, a, m.inj)
<1>1. /\ At(r, "inject") /\ Arrived(r, f) # <<>> /\ wire' = Received(r, f)
      /\ posted' = [posted EXCEPT ![r][f] = 0]
      /\ UNCHANGED given /\ UNCHANGED round
      /\ UNCHANGED <<max_np, max_nm, ci, rhob, tally, met, dropped, send, n_recv>>
      /\ \/ pc' = [pc EXCEPT ![r] = "error"] /\ UNCHANGED <<face, p, pm>>
         \/ /\ p' = [p EXCEPT ![r] = out.p] /\ pm' = [pm EXCEPT ![r] = out.pm]
            /\ NextFace(r) /\ UNCHANGED pc
  BY DEF EndRecvData
<1>2. f \in Face /\ shared(r, f) /\ f < 6
  <2>1. pc[r] = "inject" /\ f < 6 /\ f \in 0..6
    BY <1>1 DEF At, Lists, Controls
  <2> QED BY <2>1 DEF Lists, Controls, Follow, Face
<1> HIDE DEF f
<1>3. m \in Message /\ wire' \in [Rank -> [Face -> Seq(Message)]]
  BY <1>1, <1>2, ArrivedIs
<1>4. m.inj \in Seq(Injector)
  BY <1>3 DEF Message
<1> HIDE DEF m
<1>5. RoomListed(r, a)
  BY ListsAre
<1> HIDE DEF a
<1>6. RoomListed(r, out)
  BY <1>4, <1>5, InjectAllIs DEF Injected, Lists
<1> HIDE DEF out
<1>7. InOrder' /\ p' \in [Rank -> [Species -> Seq(Part)]] /\ pm' \in [Rank -> [Species -> Seq(Mover)]]
  <2>1. CASE UNCHANGED <<p, pm>>
    BY <1>1, <2>1, OrderStays DEF Lists, Ranges
  <2>2. CASE p' = [p EXCEPT ![r] = out.p] /\ pm' = [pm EXCEPT ![r] = out.pm]
    <3>1. RoomListed(r, [p |-> out.p, pm |-> out.pm])
      BY <1>6 DEF RoomListed, Room
    <3> QED BY <1>1, <2>2, <3>1, OrderKeeps, Zenon
  <2> QED BY <1>1, <2>1, <2>2
<1>8. Controls'
  BY <1>1, <1>2, ControlsKeep DEF Lists, Controls, f
<1>9. posted' \in [Rank -> [Face -> Nat]]
  BY <1>1, <1>2 DEF Lists, Ranges
<1>10. Ranges'
  BY <1>1, <1>3, <1>7, <1>9, GivenKeeps, Zenon DEF Lists, Ranges, given, Mover
<1> QED BY <1>1, <1>7, <1>8, <1>10, GivenKeeps DEF Lists, given

(* a loop goes on, ends, or the round does.                                *)
LEMMA LoopLists ==
  ASSUME Lists, NEW r \in Rank, EndSendData(r) \/ EndLoop(r) \/ Return(r)
  PROVE  Lists'
<1>1. UNCHANGED given /\ UNCHANGED local /\ UNCHANGED ports
  BY DEF EndSendData, EndLoop, Return
<1>2. round \in [Rank -> Nat] /\ face[r] \in 0..6
  BY DEF Lists, Controls
<1>3. Controls'
  <2>1. CASE EndSendData(r)
    BY <1>1, <1>2, <2>1, ControlsKeep DEF Lists, EndSendData, At
  <2>2. CASE EndLoop(r)
    <3>1. Follow[pc[r]] \in Phase
      BY <2>2 DEF EndLoop, Follow, Phase
    <3> QED BY <1>1, <1>2, <2>2, <3>1, ControlsKeep DEF Lists, EndLoop
  <2>3. CASE Return(r)
    <3>1. \E phase \in Phase : Goto(r, phase)
      BY <2>3 DEF Return, Phase
    <3>2. round' \in [Rank -> Nat]
      BY <1>2, <2>3 DEF Return
    <3> QED BY <1>1, <3>1, <3>2, ControlsKeep DEF Lists
  <2> QED BY <2>1, <2>2, <2>3
<1>4. InOrder'
  BY <1>1, OrderStays DEF local
<1>5. Ranges'
  BY <1>1, GivenKeeps, Zenon DEF Lists, Ranges, given, local, ports, Mover
<1> QED BY <1>1, <1>3, <1>4, <1>5, GivenKeeps DEF Lists, given
-----------------------------------------------------------------------------
(* The loops that drop the particles whose movers are left.                *)
DropOp(s, y, z, a, m) == Drop1(s, m, a)
Dropping == INSTANCE Loops WITH Op <- DropOp

DropRow(r, y, z, acc, s) == FoldRight(LAMBDA m, a : Drop1(s, m, a), pm[r][s], acc)
DroppingAll == INSTANCE Loops WITH Op <- DropRow

Rest == [p : [Species -> Seq(Part)], rhob : [Ids -> Nat]]

(* No track has more faces than rounds were made; none is absorbed then on *)
(* its way, but those that met a custom boundary.                          *)
Few(r) == \A id \in Ids : Len(track[id]) <= round[r]
RestKept(r, a) ==
  /\ Follows(r, a.p, [f \in Face |-> <<>>], <<>>, a.rhob, dropped)
  /\ Setoff(r) /\ Few(r) => \A id \in Ids : a.rhob[id] # 0 => Headed(id, {}, 0, met)

(* With k movers of species s left, after a0.                              *)
DropsLeft(r, s, a0, k, a) ==
  /\ a \in Rest /\ RestKept(r, a) /\ Peeled(p[r][s], pm[r][s], k, a.p[s])
  /\ \A t \in Species : t # s => a.p[t] = a0.p[t]

(* One mover less.                                                         *)
LEMMA DropNext ==
  ASSUME NEW r \in Rank, NEW s \in Species, Listed(r, p[r][s], pm[r][s]), NEW a0,
         NEW k \in 1 .. Len(pm[r][s]), NEW a, DropsLeft(r, s, a0, k, a)
  PROVE  DropsLeft(r, s, a0, k - 1, Drop1(s, pm[r][s][k], a))
<1> DEFINE m == pm[r][s][k]
           b == Drop1(s, m, a)
           S == [f \in Face |-> <<>>]
<1>1. /\ a \in Rest /\ RestKept(r, a) /\ Peeled(p[r][s], pm[r][s], k, a.p[s])
      /\ \A t \in Species : t # s => a.p[t] = a0.p[t]
  BY DEF DropsLeft
<1>2. /\ m \in Mover /\ m.i \in DOMAIN a.p[s] /\ a.p[s][m.i] = p[r][s][m.i]
      /\ Peeled(p[r][s], pm[r][s], k - 1, Backfill(a.p[s], m.i))
  BY <1>1, PeelNext
<1>12. Setoff(r) => Headed(a.p[s][m.i].id, Beyond(r, a.p[s][m.i].i, m.disp), Len(m.disp) + 1 + round[r], met)
  <2>1. k \in DOMAIN pm[r][s]
    BY DEF Listed
  <2> QED BY <1>2, <2>1, Zenon DEF Setoff, ListHeaded
<1> HIDE DEF m
<1>3. a.p \in [Species -> Seq(Part)] /\ a.rhob \in [Ids -> Nat]
  BY <1>1 DEF Rest
<1>4. /\ b.p = [a.p EXCEPT ![s] = Backfill(a.p[s], m.i)]
      /\ b.rhob = [a.rhob EXCEPT ![a.p[s][m.i].id] = @ + 1]
      /\ b = [p |-> b.p, rhob |-> b.rhob]
  BY DEF Drop1
<1> HIDE DEF b
<1>5. Backfill(a.p[s], m.i) \in Seq(Part) /\ a.p[s][m.i].id \in Ids
  <2>1. a.p[s] \in Seq(Part)
    BY <1>3
  <2>2. Backfill(a.p[s], m.i) \in Seq(Part)
    BY <1>2, <2>1, BackfillIs
  <2>3. a.p[s][m.i] \in Part
    BY <1>2, <2>1
  <2> QED BY <2>2, <2>3 DEF Part
<1>6. b.p \in [Species -> Seq(Part)]
  BY <1>3, <1>4, <1>5, ZenonT(40)
<1>7. b.rhob \in [Ids -> Nat]
  <2> DEFINE id == a.p[s][m.i].id
  <2>1. id \in Ids
    BY <1>5, Zenon
  <2>2. b.rhob = [a.rhob EXCEPT ![id] = @ + 1]
    BY <1>4, Zenon
  <2> HIDE DEF id
  <2>3. a.rhob \in [Ids -> Nat]
    BY <1>3, Zenon
  <2> QED BY ONLY <2>1, <2>2, <2>3
<1>8. b \in Rest
  BY <1>4, <1>6, <1>7, Zenon DEF Rest
<1>9. RestKept(r, b)
  <2>3. ASSUME Setoff(r), Few(r), NEW id \in Ids, b.rhob[id] # 0
        PROVE  Headed(id, {}, 0, met)
    <3>1. \A n \in Ids : a.rhob[n] # 0 => Headed(n, {}, 0, met)
      BY <1>1, <2>3, ZenonT(40) DEF RestKept
    <3>2. CASE id # a.p[s][m.i].id
      BY <1>3, <1>4, <2>3, <3>1, <3>2
    <3>3. CASE id = a.p[s][m.i].id
      <4>1. Len(track[id]) \in Nat /\ round[r] \in Nat /\ Len(track[id]) <= round[r]
        BY <2>3 DEF Setoff, Few
      <4>2. Len(m.disp) \in Nat
        BY <1>2 DEF Mover
      <4>3. ~ (Len(m.disp) + 1 + round[r] <= Len(track[id]))
        BY <4>1, <4>2
      <4> QED BY <1>12, <2>3, <3>3, <4>3, Zenon DEF Headed
    <3> QED BY <3>2, <3>3
  <2> SUFFICES ASSUME NEW w0, Held(w0, w0, r, p[r], S, <<>>, rhob, dropped)
               PROVE  \E w : Held(w0, w, r, b.p, S, <<>>, b.rhob, dropped)
    BY <2>3, Zenon DEF RestKept, Follows
  <2>1. PICK w : Held(w0, w, r, a.p, S, <<>>, a.rhob, dropped)
    BY <1>1, Zenon DEF RestKept, Follows
  <2> HIDE DEF S
  <2>2. \E v : Held(w0, v, r, [a.p EXCEPT ![s] = Backfill(a.p[s], m.i)], S, <<>>,
                    [a.rhob EXCEPT ![a.p[s][m.i].id] = @ + 1], dropped)
    BY <1>2, <1>3, <2>1, HeldAbsorbed, Zenon
  <2> QED BY <1>4, <2>2, Zenon
<1>10. b.p[s] = Backfill(a.p[s], m.i) /\ \A t \in Species : t # s => b.p[t] = a.p[t]
  BY <1>3, <1>4
<1>11. DropsLeft(r, s, a0, k - 1, b)
  BY <1>1, <1>2, <1>8, <1>9, <1>10 DEF DropsLeft
<1> QED BY <1>11 DEF b, m

(* All the movers of a species.                                            *)
LEMMA DropRowIs ==
  ASSUME NEW r \in Rank, NEW s \in Species, Listed(r, p[r][s], pm[r][s]),
         NEW a0 \in Rest, RestKept(r, a0), a0.p[s] = p[r][s]
  PROVE  DropsLeft(r, s, a0, 0, DropRow(r, 0, 0, a0, s))
<1> DEFINE M == pm[r][s]
           n == Len(M)
           B(k) == {a \in Rest : DropsLeft(r, s, a0, k, a)}
           I == [k \in 0 .. n |-> B(k)]
<1>1. n \in Nat /\ DOMAIN M = 1 .. n
  BY DEF Listed
<1>2. DropRow(r, 0, 0, a0, s) = Dropping!Right(s, 0, 0, a0, M)
  BY Zenon DEF DropRow, DropOp, Dropping!Right, FoldRight, MapThenFoldSet, Min,
               Dropping!Least
<1>3. a0 \in B(n)
  <2>1. Peeled(p[r][s], M, n, p[r][s])
    BY PeelStarts
  <2> QED BY <2>1 DEF DropsLeft
<1>4. \A k \in 1 .. n : \A a \in B(k) : DropOp(s, 0, 0, a, M[k]) \in B(k - 1)
  <2> SUFFICES ASSUME NEW k \in 1 .. n, NEW a \in B(k)
               PROVE  Drop1(s, M[k], a) \in B(k - 1)
    BY DEF DropOp
  <2>1. DropsLeft(r, s, a0, k - 1, Drop1(s, M[k], a))
    BY DropNext
  <2> QED BY <2>1 DEF DropsLeft
<1>5. I[0] = B(0) /\ I[n] = B(n) /\ \A k \in 1 .. n : I[k] = B(k) /\ I[k - 1] = B(k - 1)
  BY <1>1
<1> HIDE DEF I, B, n, M
<1>6. a0 \in I[n]
  BY <1>3, <1>5
<1>7. \A k \in 1 .. n : \A a \in I[k] : DropOp(s, 0, 0, a, M[k]) \in I[k - 1]
  BY <1>4, <1>5, Zenon
<1>8. Dropping!Right(s, 0, 0, a0, M) \in I[0]
  BY <1>1, <1>6, <1>7, Dropping!RightRule, Zenon
<1> QED BY <1>2, <1>5, <1>8 DEF B

(* Every mover is gone, and with it its particle.                          *)
LEMMA DropAllIs ==
  ASSUME Fixed, NEW r \in Rank, p[r] \in [Species -> Seq(Part)],
         \A s \in Species : Listed(r, p[r][s], pm[r][s]), rhob \in [Ids -> Nat]
  PROVE  /\ DropAll(r) \in Rest /\ RestKept(r, DropAll(r))
         /\ \A s \in Species : Stayed(r, s, DropAll(r).p[s])
<1> DEFINE base == [p |-> p[r], rhob |-> rhob]
           n == Len(SpList)
           B(k) == {a \in Rest : RestKept(r, a) /\ RowsDone(r, k, a.p)}
           I == [k \in 0 .. n |-> B(k)]
<1>1. /\ n \in Nat /\ DOMAIN SpList = 1 .. n
      /\ \A j \in DOMAIN SpList : SpList[j] \in Species
      /\ \A s \in Species : \E j \in DOMAIN SpList : SpList[j] = s
      /\ \A j, k \in DOMAIN SpList : SpList[j] = SpList[k] => j = k
  BY SpListIs
<1>2. DropAll(r) = DroppingAll!Left(r, 0, 0, base, SpList)
  BY Zenon DEF DropAll, DropRow, DroppingAll!Left, FoldLeft, MapThenFoldSet, Max,
               DroppingAll!Greatest
<1>3. base \in B(0)
  <2>1. base \in Rest
    BY DEF Rest
  <2>2. RestKept(r, base)
    <3>1. Follows(r, base.p, [f \in Face |-> <<>>], <<>>, base.rhob, dropped)
      BY Zenon DEF Follows
    <3> QED BY <3>1, Zenon DEF RestKept, Setoff
  <2>3. RowsDone(r, 0, p[r])
    BY <1>1 DEF RowsDone
  <2> QED BY <2>1, <2>2, <2>3
<1>4. \A k \in 1 .. n : \A a \in B(k - 1) : DropRow(r, 0, 0, a, SpList[k]) \in B(k)
  <2> SUFFICES ASSUME NEW k \in 1 .. n, NEW a \in B(k - 1)
               PROVE  DropRow(r, 0, 0, a, SpList[k]) \in B(k)
    OBVIOUS
  <2> DEFINE s == SpList[k]
             b == DropRow(r, 0, 0, a, s)
  <2>1. s \in Species /\ k \in DOMAIN SpList
    BY <1>1
  <2>2. a \in Rest /\ RestKept(r, a) /\ RowsDone(r, k - 1, a.p)
    OBVIOUS
  <2>3. a.p[s] = p[r][s]
    <3>1. ~ (k <= k - 1)
      BY <1>1
    <3> QED BY <2>1, <2>2, <3>1 DEF RowsDone
  <2> HIDE DEF b
  <2>4. DropsLeft(r, s, a, 0, b)
    BY <2>1, <2>2, <2>3, DropRowIs DEF b
  <2>5. b \in Rest /\ RestKept(r, b)
    BY <2>4 DEF DropsLeft
  <2>6. RowsDone(r, k, b.p)
    BY <2>1, <2>2, <2>4, RowsNext, Zenon DEF DropsLeft
  <2> QED BY <2>5, <2>6 DEF b
<1>5. I[0] = B(0) /\ I[n] = B(n) /\ \A k \in 1 .. n : I[k] = B(k) /\ I[k - 1] = B(k - 1)
  BY <1>1
<1> HIDE DEF I, B, n, base
<1>6. base \in I[0]
  BY <1>3, <1>5
<1>7. \A k \in 1 .. n : \A a \in I[k - 1] : DropRow(r, 0, 0, a, SpList[k]) \in I[k]
  BY <1>4, <1>5, Zenon
<1>8. DroppingAll!Left(r, 0, 0, base, SpList) \in I[n]
  BY <1>1, <1>6, <1>7, DroppingAll!LeftRule, Zenon
<1>9. DropAll(r) \in Rest /\ RestKept(r, DropAll(r)) /\ RowsDone(r, n, DropAll(r).p)
  BY <1>2, <1>5, <1>8 DEF B
<1>10. ASSUME NEW s \in Species
       PROVE  Stayed(r, s, DropAll(r).p[s])
  <2>1. PICK j \in DOMAIN SpList : SpList[j] = s
    BY <1>1
  <2>2. j <= n
    BY <1>1
  <2> QED BY <1>9, <2>1, <2>2 DEF RowsDone
<1> QED BY <1>9, <1>10

(* The particles left at a face are dropped.                               *)
LEMMA RemoveLists ==
  ASSUME Lists, NEW r \in Rank, RemoveUnprocessed(r)
  PROVE  Lists'
<1> DEFINE out == DropAll(r)
           M == [s \in Species |-> <<>>]
<1>1. /\ p' = [p EXCEPT ![r] = out.p] /\ rhob' = out.rhob /\ pm' = [pm EXCEPT ![r] = M]
      /\ Goto(r, "done") /\ UNCHANGED given
      /\ UNCHANGED <<round, max_np, max_nm, ci, tally, met, dropped>> /\ UNCHANGED ports
  BY DEF RemoveUnprocessed
<1>2. Fixed /\ p[r] \in [Species -> Seq(Part)] /\ rhob \in [Ids -> Nat]
  BY DEF Lists, Ranges
<1>3. out \in Rest /\ \A s \in Species : Listed(r, out.p[s], <<>>)
  BY <1>2, ListsAre, DropAllIs, Zenon DEF Stayed
<1> HIDE DEF out
<1>4. out.p \in [Species -> Seq(Part)] /\ out.rhob \in [Ids -> Nat]
  BY <1>3 DEF Rest
<1>5. RoomListed(r, [p |-> out.p, pm |-> M])
  BY <1>3, <1>4 DEF RoomListed, Room
<1> HIDE DEF M
<1>6. InOrder' /\ p' \in [Rank -> [Species -> Seq(Part)]] /\ pm' \in [Rank -> [Species -> Seq(Mover)]]
  BY <1>1, <1>5, OrderKeeps, Zenon
<1>7. Controls'
  <2>1. "done" \in Phase
    BY DEF Phase, Follow
  <2> QED BY <1>1, <2>1, ControlsKeep DEF Lists, Controls
<1>8. Ranges'
  BY <1>1, <1>4, <1>6, GivenKeeps, Zenon DEF Lists, Ranges, ports, given, Mover
<1> QED BY <1>1, <1>6, <1>7, <1>8, GivenKeeps DEF Lists, given

-----------------------------------------------------------------------------
(* The room asked for: the local injectors and those of every neighbor.    *)
MaxOp(r, y, z, n, f) == IF shared(r, f) THEN n + n_recv[r][f] ELSE n
Counting == INSTANCE Loops WITH Op <- MaxOp

From(r, g) == IF shared(r, g) THEN n_recv[r][g] ELSE 0
(* Those of the first k faces.                                             *)
Upto(r, k) ==
  CASE k = 0 -> 0
    [] k = 1 -> From(r, 0)
    [] k = 2 -> From(r, 0) + From(r, 1)
    [] k = 3 -> From(r, 0) + From(r, 1) + From(r, 2)
    [] k = 4 -> From(r, 0) + From(r, 1) + From(r, 2) + From(r, 3)
    [] k = 5 -> From(r, 0) + From(r, 1) + From(r, 2) + From(r, 3) + From(r, 4)
    [] k = 6 -> From(r, 0) + From(r, 1) + From(r, 2) + From(r, 3) + From(r, 4) + From(r, 5)

(* It is their sum.                                                        *)
LEMMA MaxInjIs ==
  ASSUME NEW r \in Rank, ci[r] \in Seq(Injector), n_recv[r] \in [Face -> Nat]
  PROVE  MaxInj(r) = Len(ci[r]) + Upto(r, 6) /\ MaxInj(r) \in Nat
<1> DEFINE seq == <<0, 1, 2, 3, 4, 5>>
           base == Len(ci[r])
           B(k) == {base + Upto(r, k)}
           I == [k \in 0 .. 6 |-> B(k)]
<1>1. MaxInj(r) = Counting!Left(r, 0, 0, base, seq)
  BY Zenon DEF MaxInj, MaxOp, Counting!Left, FoldLeft, MapThenFoldSet, Max,
               Counting!Greatest
<1>2. DOMAIN seq = 1 .. 6 /\ \A k \in 1 .. 6 : seq[k] = k - 1
  OBVIOUS
<1>3. \A g \in Face : From(r, g) \in Nat
  BY DEF From
<1>4. From(r, 0) \in Nat /\ From(r, 1) \in Nat /\ From(r, 2) \in Nat /\ From(r, 3) \in Nat
      /\ From(r, 4) \in Nat /\ From(r, 5) \in Nat
  BY <1>3 DEF Face
<1>5. base \in Nat
  OBVIOUS
<1> HIDE DEF base, seq
<1> DEFINE a0 == From(r, 0)
           a1 == From(r, 1)
           a2 == From(r, 2)
           a3 == From(r, 3)
           a4 == From(r, 4)
           a5 == From(r, 5)
<1>20. a0 \in Nat /\ a1 \in Nat /\ a2 \in Nat /\ a3 \in Nat /\ a4 \in Nat /\ a5 \in Nat
  BY <1>4
<1>22. /\ Upto(r, 0) = 0 /\ Upto(r, 1) = a0 /\ Upto(r, 2) = a0 + a1 /\ Upto(r, 3) = a0 + a1 + a2
       /\ Upto(r, 4) = a0 + a1 + a2 + a3 /\ Upto(r, 5) = a0 + a1 + a2 + a3 + a4
       /\ Upto(r, 6) = a0 + a1 + a2 + a3 + a4 + a5
  BY DEF Upto, a0, a1, a2, a3, a4, a5
<1> HIDE DEF a0, a1, a2, a3, a4, a5
<1>23. /\ Upto(r, 0) \in Nat /\ Upto(r, 1) \in Nat /\ Upto(r, 2) \in Nat /\ Upto(r, 3) \in Nat
       /\ Upto(r, 4) \in Nat /\ Upto(r, 5) \in Nat /\ Upto(r, 6) \in Nat
  BY <1>20, <1>22
<1>24. /\ Upto(r, 1) = Upto(r, 0) + a0 /\ Upto(r, 2) = Upto(r, 1) + a1 /\ Upto(r, 3) = Upto(r, 2) + a2
       /\ Upto(r, 4) = Upto(r, 3) + a3 /\ Upto(r, 5) = Upto(r, 4) + a4 /\ Upto(r, 6) = Upto(r, 5) + a5
  <2>1. Upto(r, 1) = Upto(r, 0) + a0
    BY <1>20, <1>22
  <2>2. /\ Upto(r, 2) = Upto(r, 1) + a1 /\ Upto(r, 3) = Upto(r, 2) + a2 /\ Upto(r, 4) = Upto(r, 3) + a3
        /\ Upto(r, 5) = Upto(r, 4) + a4 /\ Upto(r, 6) = Upto(r, 5) + a5
    BY <1>22, Zenon
  <2> QED BY <2>1, <2>2, Zenon
<1>6. \A k \in 0 .. 6 : Upto(r, k) \in Nat
  <2> TAKE k \in 0 .. 6
  <2>1. k = 0 \/ k = 1 \/ k = 2 \/ k = 3 \/ k = 4 \/ k = 5 \/ k = 6
    OBVIOUS
  <2> QED BY <1>23, <2>1, Zenon
<1>7. \A k \in 1 .. 6 : Upto(r, k) = Upto(r, k - 1) + From(r, k - 1)
  <2> TAKE k \in 1 .. 6
  <2>1. k = 1 \/ k = 2 \/ k = 3 \/ k = 4 \/ k = 5 \/ k = 6
    OBVIOUS
  <2>2. 1 - 1 = 0 /\ 2 - 1 = 1 /\ 3 - 1 = 2 /\ 4 - 1 = 3 /\ 5 - 1 = 4 /\ 6 - 1 = 5
    OBVIOUS
  <2> QED BY <1>24, <2>1, <2>2, Zenon DEF a0, a1, a2, a3, a4, a5
<1>8. base \in B(0)
  BY <1>5, <1>22
<1>9. ASSUME NEW k \in 1 .. 6, NEW a \in B(k - 1)
      PROVE  MaxOp(r, 0, 0, a, seq[k]) \in B(k)
  <2>1. k - 1 \in 0 .. 6 /\ k - 1 \in Face /\ seq[k] = k - 1
    BY <1>2 DEF Face
  <2>2. MaxOp(r, 0, 0, a, k - 1) = a + From(r, k - 1)
    <3>1. a = base + Upto(r, k - 1) /\ Upto(r, k - 1) \in Nat
      BY <1>6, <2>1, Zenon
    <3>2. a \in Nat
      BY <1>5, <3>1
    <3> QED BY <3>2 DEF MaxOp, From
  <2>3. a = base + Upto(r, k - 1) /\ Upto(r, k - 1) \in Nat /\ From(r, k - 1) \in Nat
    BY <1>3, <1>6, <2>1, Zenon
  <2>4. Upto(r, k) = Upto(r, k - 1) + From(r, k - 1)
    BY <1>7, Zenon
  <2>5. a + From(r, k - 1) = base + Upto(r, k)
    BY <1>5, <2>3, <2>4
  <2> QED BY <2>1, <2>2, <2>5, Zenon
<1>10. I[0] = B(0) /\ I[6] = B(6) /\ \A k \in 1 .. 6 : I[k] = B(k) /\ I[k - 1] = B(k - 1)
  OBVIOUS
<1> HIDE DEF I, B
<1>11. base \in I[0]
  BY <1>8, <1>10
<1>12. \A k \in 1 .. 6 : \A a \in I[k - 1] : MaxOp(r, 0, 0, a, seq[k]) \in I[k]
  BY <1>9, <1>10, Zenon
<1>13. Counting!Left(r, 0, 0, base, seq) \in I[6]
  <2>1. 6 \in Nat
    OBVIOUS
  <2> QED BY <1>2, <1>11, <1>12, <2>1, Counting!LeftRule, Zenon
<1>14. MaxInj(r) = base + Upto(r, 6)
  BY <1>1, <1>10, <1>13 DEF B
<1>15. Upto(r, 6) \in Nat
  BY <1>6
<1> QED BY <1>5, <1>14, <1>15 DEF base
-----------------------------------------------------------------------------
(* At first: what advance_p leaves.                                        *)
InitOp(w, y, z, m, k) == IF w[k].stuck THEN Append(m, [i |-> k, disp |-> w[k].left]) ELSE m
Starting == INSTANCE Loops WITH Op <- InitOp

(* The movers of the first n particles.                                    *)
Started(w, n, m) ==
  /\ m \in Seq(Mover) /\ Len(m) <= n /\ \A j \in DOMAIN m : m[j].i \in 1 .. n
  /\ \A j, k \in DOMAIN m : j < k => m[j].i < m[k].i
  /\ \A i \in 1 .. n : w[i].stuck <=> Moving(m, i)
  /\ \A j \in DOMAIN m : m[j].disp = w[m[j].i].left

(* One particle more.                                                      *)
LEMMA StartNext ==
  ASSUME NEW r, NEW w \in Seq(Travels(r)), NEW n \in 1 .. Len(w), NEW m, Started(w, n - 1, m)
  PROVE  Started(w, n, InitOp(w, 0, 0, m, n))
<1> DEFINE v == [i |-> n, disp |-> w[n].left]
           l == Len(m)
           c == Append(m, v)
<1>1. n \in Nat /\ w[n] \in Travels(r)
  OBVIOUS
<1>2. v \in Mover /\ v.i = n /\ v.disp = w[n].left /\ w[n].stuck \in BOOLEAN
  BY <1>1 DEF Travels, Mover
<1> HIDE DEF v
<1>3. /\ m \in Seq(Mover) /\ l \in Nat /\ l <= n - 1 /\ DOMAIN m = 1 .. l
      /\ \A j \in 1 .. l : m[j].i \in 1 .. n - 1
      /\ \A j, k \in 1 .. l : j < k => m[j].i < m[k].i
      /\ \A i \in 1 .. n - 1 : w[i].stuck <=> Moving(m, i)
      /\ \A j \in 1 .. l : m[j].disp = w[m[j].i].left
  <2>1. m \in Seq(Mover) /\ l <= n - 1
    BY Zenon DEF Started
  <2>2. l \in Nat /\ DOMAIN m = 1 .. l
    <3> HIDE DEF Mover
    <3> QED BY <2>1
  <2> QED BY <2>1, <2>2, Zenon DEF Started
<1>4. CASE w[n].stuck
  <2>1. /\ c \in Seq(Mover) /\ Len(c) = l + 1 /\ DOMAIN c = 1 .. l + 1 /\ c[l + 1] = v
        /\ \A k \in 1 .. l : c[k] = m[k]
    BY <1>2, <1>3, AppendIs
  <2> HIDE DEF c, l
  <2>2. Len(c) <= n
    BY <1>1, <1>3, <2>1
  <2>3. ASSUME NEW j \in 1 .. l + 1
        PROVE  c[j].i \in 1 .. n
    BY <1>1, <1>2, <1>3, <2>1
  <2>4. ASSUME NEW j \in 1 .. l + 1, NEW k \in 1 .. l + 1, j < k
        PROVE  c[j].i < c[k].i
    <3>1. j \in 1 .. l /\ c[j] = m[j] /\ m[j].i \in 1 .. n - 1
      BY <1>3, <2>1, <2>4
    <3>2. CASE k = l + 1
      BY <1>1, <1>2, <2>1, <3>1, <3>2
    <3>3. CASE k # l + 1
      <4>1. k \in 1 .. l /\ c[k] = m[k]
        BY <1>3, <2>1, <3>3
      <4> QED BY <1>3, <2>4, <3>1, <4>1
    <3> QED BY <3>2, <3>3
  <2>5. ASSUME NEW i \in 1 .. n
        PROVE  w[i].stuck <=> Moving(c, i)
    <3>1. CASE i = n
      <4>1. Moving(c, n)
        BY <1>2, <1>3, <2>1 DEF Moving
      <4> QED BY <1>4, <3>1, <4>1
    <3>2. CASE i # n
      <4>1. i \in 1 .. n - 1
        BY <1>1, <3>2
      <4>2. Moving(c, i) => Moving(m, i)
        <5> SUFFICES ASSUME NEW j \in 1 .. l + 1, c[j].i = i
                     PROVE  Moving(m, i)
          BY <2>1 DEF Moving
        <5>1. j # l + 1
          BY <1>2, <2>1, <3>2
        <5>2. j \in 1 .. l
          BY <1>3, <5>1
        <5> QED BY <1>3, <2>1, <5>2, Zenon DEF Moving
      <4>3. Moving(m, i) => Moving(c, i)
        <5> SUFFICES ASSUME NEW j \in 1 .. l, m[j].i = i
                     PROVE  Moving(c, i)
          BY <1>3 DEF Moving
        <5>1. j \in 1 .. l + 1 /\ c[j] = m[j]
          BY <1>3, <2>1
        <5> QED BY <2>1, <5>1 DEF Moving
      <4> QED BY <1>3, <4>1, <4>2, <4>3
    <3> QED BY <3>1, <3>2
  <2>6. ASSUME NEW j \in 1 .. l + 1
        PROVE  c[j].disp = w[c[j].i].left
    <3>1. CASE j = l + 1
      BY <1>2, <2>1, <3>1
    <3>2. CASE j # l + 1
      <4>1. j \in 1 .. l
        BY <1>3, <3>2
      <4> QED BY <1>3, <2>1, <4>1
    <3> QED BY <3>1, <3>2
  <2>7. Started(w, n, c)
    BY <2>1, <2>2, <2>3, <2>4, <2>5, <2>6, Zenon DEF Started
  <2>8. InitOp(w, 0, 0, m, n) = c
    BY <1>4 DEF InitOp, c, v
  <2> QED BY <2>7, <2>8
<1>5. CASE ~ w[n].stuck
  <2>1. Len(m) <= n /\ \A j \in 1 .. l : m[j].i \in 1 .. n
    BY <1>1, <1>3
  <2>2. ~ Moving(m, n)
    BY <1>1, <1>3 DEF Moving
  <2>3. ASSUME NEW i \in 1 .. n
        PROVE  w[i].stuck <=> Moving(m, i)
    <3>1. CASE i = n
      BY <1>5, <2>2, <3>1
    <3>2. CASE i # n
      <4>1. i \in 1 .. n - 1
        BY <1>1, <3>2
      <4> QED BY <1>3, <4>1
    <3> QED BY <3>1, <3>2
  <2>4. InitOp(w, 0, 0, m, n) = m
    BY <1>5 DEF InitOp
  <2> QED BY <1>3, <2>1, <2>3, <2>4, Zenon DEF Started
<1> QED BY <1>2, <1>4, <1>5

(* All of them.                                                            *)
LEMMA StartIs ==
  ASSUME NEW r, NEW w \in Seq(Travels(r))
  PROVE  Started(w, Len(w),
           FoldLeft(LAMBDA m, k : IF w[k].stuck THEN Append(m, [i |-> k, disp |-> w[k].left]) ELSE m,
                    <<>>, [k \in DOMAIN w |-> k]))
<1> DEFINE n == Len(w)
           seq == [k \in DOMAIN w |-> k]
           M == FoldLeft(LAMBDA m, k : IF w[k].stuck THEN Append(m, [i |-> k, disp |-> w[k].left])
                                       ELSE m, <<>>, seq)
           B(k) == {m \in Seq(Mover) : Started(w, k, m)}
           I == [k \in 0 .. n |-> B(k)]
<1>1. n \in Nat /\ DOMAIN seq = 1 .. n /\ \A k \in 1 .. n : seq[k] = k
  OBVIOUS
<1>2. M = Starting!Left(w, 0, 0, <<>>, seq)
  <2> HIDE DEF seq
  <2> QED BY Zenon DEF InitOp, Starting!Left, FoldLeft, MapThenFoldSet, Max,
                       Starting!Greatest
<1>3. <<>> \in B(0)
  BY DEF Started
<1>4. \A k \in 1 .. n : \A m \in B(k - 1) : InitOp(w, 0, 0, m, seq[k]) \in B(k)
  <2> SUFFICES ASSUME NEW k \in 1 .. n, NEW m \in B(k - 1)
               PROVE  InitOp(w, 0, 0, m, k) \in B(k)
    BY <1>1
  <2>1. Started(w, k, InitOp(w, 0, 0, m, k))
    BY StartNext
  <2> QED BY <2>1 DEF Started
<1>5. I[0] = B(0) /\ I[n] = B(n) /\ \A k \in 1 .. n : I[k] = B(k) /\ I[k - 1] = B(k - 1)
  BY <1>1
<1> HIDE DEF I, B, n, seq
<1>6. <<>> \in I[0]
  BY <1>3, <1>5
<1>7. \A k \in 1 .. n : \A m \in I[k - 1] : InitOp(w, 0, 0, m, seq[k]) \in I[k]
  BY <1>4, <1>5, Zenon
<1>8. Starting!Left(w, 0, 0, <<>>, seq) \in I[n]
  BY <1>1, <1>6, <1>7, Starting!LeftRule, Zenon
<1>9. Started(w, n, M)
  <2>1. M \in B(n)
    BY <1>2, <1>5, <1>8, Zenon
  <2> HIDE DEF M
  <2> QED BY <2>1 DEF B
<1> QED BY <1>9, Zenon DEF n, M, seq

(* What the deck loads, moved.                                             *)
LEMMA MovedIs ==
  ASSUME Fixed, NEW r \in Rank, NEW s \in Species, NEW tr \in [Ids -> Seq(Face)]
  PROVE  /\ Moved(r, s, tr) \in Seq(Travels(r)) /\ DOMAIN Moved(r, s, tr) = 1 .. Len(Moved(r, s, tr))
         /\ DOMAIN Moved(r, s, tr) = DOMAIN Load[r][s]
         /\ Len(Moved(r, s, tr)) = Len(Load[r][s]) /\ Len(Load[r][s]) \in Nat
         /\ \A k \in DOMAIN Load[r][s] : Load[r][s][k].id \in Ids
         /\ Len(Load[r][s]) <= setting.max_np /\ Len(Load[r][s]) <= setting.max_nm
<1> DEFINE L == Load[r][s]
           w == Moved(r, s, tr)
<1>1. /\ r \in Ranks(setting.deck) /\ s \in SpeciesOf(setting) /\ Ids = NamesOf(setting)
      /\ LoadIsLegal(setting)
  BY FixedIs DEF Deck
<1>2. /\ L \in Seq([id : Ids, c : CellsOf(Deck)])
      /\ Len(L) <= setting.max_np /\ Len(L) <= setting.max_nm
  BY <1>1, Zenon DEF LoadIsLegal, Load, Deck
<1> HIDE DEF L
<1>3. /\ Len(L) \in Nat /\ DOMAIN L = 1 .. Len(L)
      /\ \A k \in DOMAIN L : L[k].id \in Ids /\ L[k].c \in CellsOf(Deck)
  <2> DEFINE S == [id : Ids, c : CellsOf(Deck)]
  <2>1. L \in Seq(S)
    BY <1>2
  <2> HIDE DEF S
  <2>2. Len(L) \in Nat /\ DOMAIN L = 1 .. Len(L) /\ \A k \in DOMAIN L : L[k] \in S
    BY <2>1
  <2> QED BY <2>2 DEF S
<1>4. w = [k \in DOMAIN L |-> MoveP(r, VOXEL(L[k].c, Cells), tr[L[k].id])]
  BY DEF Moved, L
<1>5. ASSUME NEW k \in DOMAIN L
      PROVE  MoveP(r, VOXEL(L[k].c, Cells), tr[L[k].id]) \in Travels(r)
  <2>1. L[k].c \in [1..3 -> Int] /\ Interior(L[k].c, Cells)
    BY <1>3 DEF CellsOf, Interior, Cells
  <2>2. IsCell(VOXEL(L[k].c, Cells))
    BY <2>1, CellAt
  <2>3. tr[L[k].id] \in Seq(Face)
    BY <1>3
  <2> QED BY <2>2, <2>3, MoveKeeps
<1> HIDE DEF w
<1>6. w \in Seq(Travels(r)) /\ DOMAIN w = DOMAIN L /\ Len(w) = Len(L)
  BY <1>3, <1>4, <1>5
<1> QED BY <1>2, <1>3, <1>6 DEF w, L

(* Particles and movers as Init has them.                                  *)
StartP(r, s, tr) ==
  [k \in DOMAIN Load[r][s] |-> [id |-> Load[r][s][k].id, i |-> Moved(r, s, tr)[k].i]]
StartM(r, s, tr) ==
  LET w == Moved(r, s, tr)
  IN FoldLeft(LAMBDA m, k : IF w[k].stuck THEN Append(m, [i |-> k, disp |-> w[k].left]) ELSE m,
              <<>>, [k \in DOMAIN w |-> k])

(* They are in order, and there is room for them.                          *)
LEMMA StartListed ==
  ASSUME Fixed, NEW r \in Rank, NEW s \in Species, NEW tr \in [Ids -> Seq(Face)]
  PROVE  /\ Listed(r, StartP(r, s, tr), StartM(r, s, tr))
         /\ Len(StartP(r, s, tr)) <= setting.max_np /\ Len(StartM(r, s, tr)) <= setting.max_nm
         /\ DOMAIN StartP(r, s, tr) = DOMAIN Load[r][s]
         /\ \A k \in DOMAIN Load[r][s] : StartP(r, s, tr)[k].id = Load[r][s][k].id
<1> DEFINE L == Load[r][s]
           w == Moved(r, s, tr)
           n == Len(w)
           q == StartP(r, s, tr)
           m == StartM(r, s, tr)
<1>1. /\ w \in Seq(Travels(r)) /\ DOMAIN w = 1 .. n /\ DOMAIN w = DOMAIN L /\ n = Len(L) /\ n \in Nat
      /\ \A k \in DOMAIN L : L[k].id \in Ids
      /\ n <= setting.max_np /\ n <= setting.max_nm
  BY MovedIs
<1>2. q = [k \in DOMAIN L |-> [id |-> L[k].id, i |-> w[k].i]]
  BY DEF StartP
<1>3. Started(w, n, m)
  <2>1. m = FoldLeft(LAMBDA x, k : IF w[k].stuck THEN Append(x, [i |-> k, disp |-> w[k].left]) ELSE x,
                     <<>>, [k \in DOMAIN w |-> k])
    BY Zenon DEF StartM
  <2> HIDE DEF w, m
  <2> QED BY <1>1, <2>1, StartIs, Zenon DEF n
<1> HIDE DEF w, L, q, m, n
<1>4. /\ DOMAIN q = 1 .. n
      /\ \A k \in 1 .. n : q[k].id = L[k].id /\ q[k].i = w[k].i
  BY <1>1, <1>2
<1>5. \A k \in 1 .. n : /\ w[k].i \in Nat /\ w[k].stuck \in BOOLEAN
                        /\ w[k].stuck => Stopped(r, w[k].i)
                        /\ ~ w[k].stuck => IsCell(w[k].i)
  <2> TAKE k \in 1 .. n
  <2>1. w[k] \in Travels(r)
    BY <1>1
  <2> QED BY <2>1 DEF Travels
<1>6. \A k \in 1 .. n : [id |-> L[k].id, i |-> w[k].i] \in Part
  BY <1>1, <1>5 DEF Part
<1>7. q \in Seq(Part) /\ Len(q) = n
  BY <1>1, <1>2, <1>6
<1>8. /\ m \in Seq(Mover) /\ Len(m) <= n /\ Len(m) \in Nat /\ \A j \in DOMAIN m : m[j].i \in 1 .. n
      /\ \A j, k \in DOMAIN m : j < k => m[j].i < m[k].i
      /\ \A i \in 1 .. n : w[i].stuck <=> Moving(m, i)
  BY <1>3 DEF Started
<1>9. Indexes(q, m)
  BY <1>4, <1>8 DEF Indexes
<1>10. Stands(r, q, m)
  <2> SUFFICES ASSUME NEW k \in 1 .. n
               PROVE  IF Moving(m, k) THEN Stopped(r, q[k].i) ELSE IsCell(q[k].i)
    BY <1>4 DEF Stands
  <2> QED BY <1>4, <1>5, <1>8
<1>11. setting.max_np \in Nat /\ setting.max_nm \in Nat
  BY FixedIs, BoundaryPAssumption
<1>12. Len(q) <= setting.max_np /\ Len(m) <= setting.max_nm
  BY <1>1, <1>7, <1>8, <1>11
<1>13. Listed(r, q, m)
  BY <1>7, <1>8, <1>9, <1>10 DEF Listed
<1> QED BY <1>1, <1>4, <1>12, <1>13 DEF q, m, L

(* Init as the lemmas have it.                                             *)
LEMMA InitIs ==
  ASSUME Init
  PROVE  /\ Fixed /\ track \in [Ids -> Seq(Face)]
         /\ p = [r \in Rank |-> [s \in Species |-> StartP(r, s, track)]]
         /\ pm = [r \in Rank |-> [s \in Species |-> StartM(r, s, track)]]
<1>1. Fixed
  BY Zenon DEF Init, Fixed
<1>2. track \in [Ids -> Seq(Face)]
  <2>1. /\ track \in [Ids -> UNION {Tracks[x] : x \in Ids}]
        /\ \A x \in Ids : track[x] \in Tracks[x]
    BY Zenon DEF Init
  <2>2. \A x \in Ids : Tracks[x] \subseteq Seq(Face)
    BY <1>1, FixedIs, BoundaryPAssumption DEF Tracks
  <2> QED BY <2>1, <2>2
<1>3. /\ p = [r \in Rank |-> [s \in Species |-> StartP(r, s, track)]]
      /\ pm = [r \in Rank |-> [s \in Species |-> StartM(r, s, track)]]
  BY Zenon DEF Init, StartP, StartM
<1> QED BY <1>1, <1>2, <1>3

(* The first invariant holds at first.                                     *)
LEMMA InitLists ==
  ASSUME Init
  PROVE  Lists
<1>1. /\ Fixed /\ track \in [Ids -> Seq(Face)]
      /\ p = [r \in Rank |-> [s \in Species |-> StartP(r, s, track)]]
      /\ pm = [r \in Rank |-> [s \in Species |-> StartM(r, s, track)]]
  BY InitIs
<1>2. ASSUME NEW r \in Rank, NEW s \in Species
      PROVE  /\ p[r][s] \in Seq(Part) /\ pm[r][s] \in Seq(Mover)
             /\ <<p[r][s], pm[r][s]>> \in ListsOf[r]
  <2>1. p[r][s] = StartP(r, s, track) /\ pm[r][s] = StartM(r, s, track)
    BY <1>1
  <2>2. Listed(r, p[r][s], pm[r][s])
    BY <1>1, <2>1, StartListed
  <2>3. p[r][s] \in Seq(Part) /\ pm[r][s] \in Seq(Mover)
    BY <2>2 DEF Listed
  <2> QED BY <2>2, <2>3 DEF ListsOf
<1>3. InOrder
  BY <1>2 DEF InOrder
<1>4. p \in [Rank -> [Species -> Seq(Part)]] /\ pm \in [Rank -> [Species -> Seq(Mover)]]
  <2>1. /\ p = [r \in Rank |-> [s \in Species |-> p[r][s]]]
        /\ pm = [r \in Rank |-> [s \in Species |-> pm[r][s]]]
    BY <1>1
  <2> QED BY <1>2, <2>1, ZenonT(40)
<1>5. /\ pc = [r \in Rank |-> "begin"] /\ face = [r \in Rank |-> 0] /\ round = [r \in Rank |-> 0]
      /\ max_np = [r \in Rank |-> [s \in Species |-> setting.max_np]]
      /\ max_nm = [r \in Rank |-> [s \in Species |-> setting.max_nm]]
      /\ ci = [r \in Rank |-> <<>>] /\ send = [r \in Rank |-> [f \in Face |-> <<>>]]
      /\ n_recv = [r \in Rank |-> [f \in Face |-> 0]] /\ posted = [r \in Rank |-> [f \in Face |-> 0]]
      /\ wire = [r \in Rank |-> [f \in Face |-> <<>>]] /\ rhob = [x \in Ids |-> 0]
      /\ tally = [r \in Rank |-> [s \in Species |-> 0]] /\ met = {} /\ dropped = {}
  BY Zenon DEF Init
<1>6. Controls
  BY <1>5 DEF Controls, Phase, Follow
<1>7. setting.max_np \in Nat /\ setting.max_nm \in Nat
  BY <1>1, FixedIs, BoundaryPAssumption
<1>8. Ranges
  BY <1>4, <1>5, <1>7 DEF Ranges
<1> QED BY <1>1, <1>3, <1>6, <1>8 DEF Lists

(* It is an invariant.                                                     *)
LEMMA NextLists ==
  ASSUME Lists, [Next]_vars
  PROVE  Lists'
<1>1. CASE Next
  <2>1. ASSUME NEW r \in Rank, Step(r)
        PROVE  Lists'
    <3>1. MaxInj(r) \in Nat
      <4>1. ci[r] \in Seq(Injector) /\ n_recv[r] \in [Face -> Nat]
        BY DEF Lists, Ranges
      <4> QED BY <4>1, MaxInjIs
    <3> QED BY <2>1, <3>1, BeginLists, EndRecvCountLists, EndSendCountLists, ResizeLists,
               EndRecvDataLists, LoopLists, RemoveLists DEF Step
  <2>2. CASE Finished
    BY <2>2, OrderStays, GivenKeeps, Zenon
       DEF Finished, vars, given, local, ports, Lists, Controls, Ranges, Mover, shared, bc, Tables
  <2> QED BY <1>1, <2>1, <2>2 DEF Next
<1>2. CASE UNCHANGED vars
  BY <1>2, OrderStays, GivenKeeps, Zenon
     DEF vars, given, local, ports, Lists, Controls, Ranges, Mover, shared, bc, Tables
<1> QED BY <1>1, <1>2

(* Every variable keeps its range, and the lists are in order.             *)
LEMMA ListsAlways == Spec => []Lists
<1>1. Init => Lists
  BY InitLists
<1>2. Lists /\ [Next]_vars => Lists'
  BY NextLists
<1> QED BY <1>1, <1>2, PTL DEF Spec

(* Movers are in increasing order of the particles they move, and those    *)
(* are just the ones that stand at a face their rank cannot move them      *)
(* across: the backfill of boundary_p, which walks the movers backwards    *)
(* and fills each hole with the last particle, takes the right ones.       *)
THEOREM MoversInOrder == Spec => []MoversMonotone
<1>1. Lists => MoversMonotone
  <2> SUFFICES ASSUME Lists, NEW r \in Rank, NEW s \in Species
               PROVE  /\ \A k \in 2..Len(pm[r][s]) : pm[r][s][k - 1].i < pm[r][s][k].i
                      /\ \A k \in DOMAIN p[r][s] :
                           IF \E j \in DOMAIN pm[r][s] : pm[r][s][j].i = k
                           THEN Stopped(r, p[r][s][k].i) ELSE IsCell(p[r][s][k].i)
    BY DEF MoversMonotone
  <2>1. Listed(r, p[r][s], pm[r][s])
    BY ListsAre, Zenon
  <2>2. Len(pm[r][s]) \in Nat /\ DOMAIN pm[r][s] = 1 .. Len(pm[r][s])
    BY <2>1 DEF Listed
  <2>3. ASSUME NEW k \in 2..Len(pm[r][s])
        PROVE  pm[r][s][k - 1].i < pm[r][s][k].i
    <3>1. k - 1 \in DOMAIN pm[r][s] /\ k \in DOMAIN pm[r][s] /\ k - 1 < k
      BY <2>2
    <3> QED BY <2>1, <3>1, Zenon DEF Listed, Indexes
  <2>4. \A k \in DOMAIN p[r][s] :
          IF \E j \in DOMAIN pm[r][s] : pm[r][s][j].i = k
          THEN Stopped(r, p[r][s][k].i) ELSE IsCell(p[r][s][k].i)
    BY <2>1, Zenon DEF Listed, Stands, Moving
  <2> QED BY <2>3, <2>4
<1> QED BY <1>1, ListsAlways, PTL

-----------------------------------------------------------------------------
(* Second invariant: on every shared face sender and receiver are in step. *)
(* A rank in phase ph, its loop at face fc, has come so far with face f.   *)
SendStage(ph, fc, f) ==
  CASE ph \in {"begin", "leftover", "done"} -> 0
    [] ph = "count"                         -> 1
    [] ph = "data"                          -> IF fc <= f THEN 1 ELSE 2
    [] ph \in {"resize", "inject"}          -> 2
    [] ph = "finish"                        -> IF fc <= f THEN 2 ELSE 3
    [] OTHER                                -> 3
RecvStage(ph, fc, f) ==
  CASE ph \in {"begin", "leftover", "done"} -> 0
    [] ph = "count"                         -> IF fc <= f THEN 1 ELSE 2
    [] ph \in {"data", "resize"}            -> 2
    [] ph = "inject"                        -> IF fc <= f THEN 2 ELSE 3
    [] OTHER                                -> 3

(* A rank's end of the channel of a face, given the other's.               *)
Sending(r, f, rs, i, W, L) ==
  LET n == bc(r, f)
      g == Port(f)
  IN Channel(rs, i, round[n], RecvStage(pc[n], face[n], g), W, L, n_recv[n][g], posted[n][g])
Receiving(r, f, rr, j, W, nr, po) ==
  LET n == bc(r, f)
      g == Port(f)
  IN Channel(round[n], SendStage(pc[n], face[n], g), rr, j, W, send[n][g], nr, po)

InStep(r, f) ==
  Channel(round[r], SendStage(pc[r], face[r], f),
          round[bc(r, f)], RecvStage(pc[bc(r, f)], face[bc(r, f)], Port(f)),
          wire[r][f], send[r][f], n_recv[bc(r, f)][Port(f)], posted[bc(r, f)][Port(f)])

Exchange ==
  \A r \in Rank :
    /\ pc[r] # "error" /\ (pc[r] \notin {"count", "data", "resize"} => ci[r] = <<>>)
    /\ \A f \in Face : /\ shared(r, f) => InStep(r, f)
                       /\ ~shared(r, f) => send[r][f] = <<>> /\ wire[r][f] = <<>>

(* Stages are stages.                                                      *)
LEMMA StagesIn ==
  ASSUME NEW ph, NEW fc, NEW f
  PROVE  SendStage(ph, fc, f) \in 0..3 /\ RecvStage(ph, fc, f) \in 0..3
  BY DEF SendStage, RecvStage

(* The same channel from its two ends.                                     *)
LEMMA TwoEnds ==
  ASSUME Lists, Exchange, NEW r \in Rank, NEW f \in Face, shared(r, f)
  PROVE  /\ Sending(r, f, round[r], SendStage(pc[r], face[r], f), wire[r][f], send[r][f])
         /\ Receiving(r, f, round[r], RecvStage(pc[r], face[r], f), Arrived(r, f),
                      n_recv[r][f], posted[r][f])
<1>1. InStep(r, f)
  BY DEF Exchange
<1>2. /\ bc(r, f) \in Rank /\ Port(f) \in Face /\ Port(Port(f)) = f
      /\ bc(bc(r, f), Port(f)) = r /\ shared(bc(r, f), Port(f))
  BY SharedIs DEF Lists
<1>3. InStep(bc(r, f), Port(f))
  BY <1>2 DEF Exchange
<1>4. Sending(r, f, round[r], SendStage(pc[r], face[r], f), wire[r][f], send[r][f])
  BY <1>1, Zenon DEF InStep, Sending
<1>5. Receiving(r, f, round[r], RecvStage(pc[r], face[r], f), Arrived(r, f), n_recv[r][f], posted[r][f])
  BY <1>2, <1>3, Zenon DEF InStep, Receiving, Arrived
<1> QED BY <1>4, <1>5

(* A step of rank r keeps its channels if it does so at both its ends.     *)
LEMMA ExchangeNext ==
  ASSUME Lists, Exchange, UNCHANGED given, NEW r \in Rank,
         \A q \in Rank \ {r} :
           /\ pc'[q] = pc[q] /\ face'[q] = face[q] /\ round'[q] = round[q] /\ ci'[q] = ci[q]
           /\ send'[q] = send[q] /\ n_recv'[q] = n_recv[q] /\ posted'[q] = posted[q]
           /\ \A f \in Face : ~shared(q, f) \/ bc(q, f) # r => wire'[q][f] = wire[q][f],
         pc'[r] # "error", pc'[r] \notin {"count", "data", "resize"} => ci'[r] = <<>>,
         \A f \in Face : ~shared(r, f) => send'[r][f] = <<>> /\ wire'[r][f] = wire[r][f],
         \A f \in Face : shared(r, f) =>
           /\ Sending(r, f, round'[r], SendStage(pc'[r], face'[r], f), wire'[r][f], send'[r][f])
           /\ Receiving(r, f, round'[r], RecvStage(pc'[r], face'[r], f), wire'[bc(r, f)][Port(f)],
                        n_recv'[r][f], posted'[r][f])
  PROVE  Exchange'
<1>1. /\ Rank' = Rank /\ \A q, f : (shared(q, f)' <=> shared(q, f)) /\ bc(q, f)' = bc(q, f)
  BY DEF given, Rank, shared, bc, Tables
<1> DEFINE Good(q, f) ==
      Channel(round'[q], SendStage(pc'[q], face'[q], f),
              round'[bc(q, f)], RecvStage(pc'[bc(q, f)], face'[bc(q, f)], Port(f)),
              wire'[q][f], send'[q][f], n_recv'[bc(q, f)][Port(f)], posted'[bc(q, f)][Port(f)])
<1>2. ASSUME NEW q \in Rank, NEW f \in Face, shared(q, f)
      PROVE  Good(q, f)
  <2> DEFINE n == bc(q, f)
             g == Port(f)
  <2>1. /\ n \in Rank \ {q} /\ g \in Face /\ Port(g) = f /\ bc(n, g) = q /\ shared(n, g)
    BY <1>2, SharedIs DEF Lists
  <2> HIDE DEF n, g
  <2>2. CASE q = r
    <3>1. n \in Rank \ {r}
      BY <2>1, <2>2
    <3>2. round'[n] = round[n] /\ pc'[n] = pc[n] /\ face'[n] = face[n]
          /\ n_recv'[n] = n_recv[n] /\ posted'[n] = posted[n]
      BY <3>1
    <3>3. Sending(r, f, round'[r], SendStage(pc'[r], face'[r], f), wire'[r][f], send'[r][f])
      BY <1>2, <2>2
    <3> QED BY <2>2, <3>2, <3>3 DEF Sending, n, g
  <2>3. CASE q # r /\ n = r
    <3>1. q \in Rank \ {r}
      BY <2>3
    <3>2. round'[q] = round[q] /\ pc'[q] = pc[q] /\ face'[q] = face[q] /\ send'[q] = send[q]
      BY <3>1
    <3>3. Receiving(r, g, round'[r], RecvStage(pc'[r], face'[r], g), wire'[bc(r, g)][Port(g)],
                    n_recv'[r][g], posted'[r][g])
      BY <2>1, <2>3
    <3>4. bc(r, g) = q /\ Port(g) = f
      BY <2>1, <2>3
    <3>5. Channel(round[q], SendStage(pc[q], face[q], f), round'[r], RecvStage(pc'[r], face'[r], g),
                  wire'[q][f], send[q][f], n_recv'[r][g], posted'[r][g])
      BY <3>3, <3>4, Zenon DEF Receiving
    <3> QED BY <2>3, <3>2, <3>5 DEF n, g
  <2>4. CASE q # r /\ n # r
    <3>1. q \in Rank \ {r} /\ n \in Rank \ {r}
      BY <2>1, <2>4
    <3>2. /\ round'[q] = round[q] /\ pc'[q] = pc[q] /\ face'[q] = face[q] /\ send'[q] = send[q]
          /\ wire'[q][f] = wire[q][f]
          /\ round'[n] = round[n] /\ pc'[n] = pc[n] /\ face'[n] = face[n]
          /\ n_recv'[n] = n_recv[n] /\ posted'[n] = posted[n]
      BY <2>4, <3>1 DEF n
    <3>3. InStep(q, f)
      BY <1>2 DEF Exchange
    <3> QED BY <3>2, <3>3 DEF InStep, n, g
  <2> QED BY <2>2, <2>3, <2>4
<1>3. ASSUME NEW q \in Rank, NEW f \in Face, ~shared(q, f)
      PROVE  send'[q][f] = <<>> /\ wire'[q][f] = <<>>
  <2>1. send[q][f] = <<>> /\ wire[q][f] = <<>>
    BY <1>3 DEF Exchange
  <2>2. CASE q = r
    BY <1>3, <2>1, <2>2
  <2>3. CASE q # r
    <3>1. q \in Rank \ {r}
      BY <2>3
    <3> QED BY <1>3, <2>1, <3>1
  <2> QED BY <2>2, <2>3
<1>4. ASSUME NEW q \in Rank
      PROVE  pc'[q] # "error" /\ (pc'[q] \notin {"count", "data", "resize"} => ci'[q] = <<>>)
  <2>1. CASE q = r
    BY <2>1
  <2>2. CASE q # r
    <3>1. q \in Rank \ {r}
      BY <2>2
    <3>2. pc'[q] = pc[q] /\ ci'[q] = ci[q]
      BY <3>1
    <3> QED BY <3>2 DEF Exchange
  <2> QED BY <2>1, <2>2
<1> HIDE DEF Good
<1>5. ASSUME NEW q \in Rank, NEW f \in Face
      PROVE  InStep(q, f)' <=> Good(q, f)
  BY <1>1 DEF InStep, Good, bc, Tables
<1> QED BY <1>1, <1>2, <1>3, <1>4 DEF Exchange, InStep, Good, shared, bc, Tables, given
-----------------------------------------------------------------------------
(* A loop over the faces goes on: the face it leaves is done, for the      *)
(* other shared faces nothing changes.                                     *)
LEMMA FacesPass ==
  ASSUME NEW r, NEW f \in Face
  PROVE  LET h == NextShared(r, f + 1) IN
         /\ h \in 0..6 /\ ~ (h <= f)
         /\ \A g \in Face : shared(r, g) /\ g # f => (h <= g <=> f <= g)
<1> DEFINE h == NextShared(r, f + 1)
<1>1. f + 1 \in 0..6
  BY DEF Face
<1> HIDE DEF h
<1>2. h \in 0..6 /\ h >= f + 1 /\ \A g \in Face : g >= f + 1 /\ shared(r, g) => h <= g
  BY <1>1, NextSharedIs DEF h
<1>3. f \in Int /\ \A g \in Face : g \in Int
  BY DEF Face
<1>4. ASSUME NEW g \in Face, shared(r, g), g # f
      PROVE  h <= g <=> f <= g
  <2>1. CASE g >= f + 1
    BY <1>2, <1>3, <1>4, <2>1
  <2>2. CASE ~ (g >= f + 1)
    BY <1>2, <1>3, <1>4, <2>2
  <2> QED BY <2>1, <2>2
<1> QED BY <1>2, <1>3, <1>4 DEF h

(* It starts before every shared face, and ends after every face.          *)
LEMMA FacesAll ==
  ASSUME NEW r
  PROVE  /\ NextShared(r, 0) \in 0..6 /\ \A g \in Face : shared(r, g) => NextShared(r, 0) <= g
         /\ \A g \in Face : ~ (6 <= g)
<1>1. \A g \in Face : g >= 0 /\ ~ (6 <= g)
  BY DEF Face
<1> QED BY <1>1, NextSharedIs

(* A round begins: the receives of the numbers are posted, the numbers     *)
(* sent.                                                                   *)
LEMMA BeginExchange ==
  ASSUME Lists, Exchange, NEW r \in Rank, Begin(r)
  PROVE  Exchange'
<1> PICK back \in Draws(r) :
      LET out == LoadAll(r, back) IN
      /\ ci' = [ci EXCEPT ![r] = out.ci]
      /\ send' = [send EXCEPT ![r] = out.send]
      /\ wire' = [wire EXCEPT ![r] = [f \in Face |->
           IF shared(r, f) THEN Append(@[f], CountMsg(Len(out.send[f]))) ELSE @[f]]]
  BY Zenon DEF Begin
<1> DEFINE out == LoadAll(r, back)
           L == out.send
           h == NextShared(r, 0)
<1>1. /\ pc[r] = "begin" /\ pc' = [pc EXCEPT ![r] = "count"] /\ face' = [face EXCEPT ![r] = h]
      /\ posted' = [posted EXCEPT ![r] = [f \in Face |-> IF shared(r, f) THEN CountSize ELSE 0]]
      /\ UNCHANGED given /\ UNCHANGED <<round, n_recv>>
  BY DEF Begin, Goto
<1>2. /\ Fixed /\ pc \in [Rank -> Phase] /\ face \in [Rank -> 0..6] /\ round \in [Rank -> Nat]
      /\ p[r] \in [Species -> Seq(Part)] /\ ci \in [Rank -> Seq(Injector)]
      /\ send \in [Rank -> [Face -> Seq(Injector)]] /\ posted \in [Rank -> [Face -> Nat]]
      /\ wire \in [Rank -> [Face -> Seq(Message)]] /\ rhob \in [Ids -> Nat]
      /\ tally[r] \in [Species -> Nat] /\ met \in SUBSET Ids /\ dropped \in SUBSET Ids
  BY DEF Lists, Controls, Ranges
<1>3. Loaded(r, out)
  BY <1>2, ListsAre, LoadAllIs, Zenon
<1>4. L \in [Face -> Seq(Injector)] /\ \A f \in Face : ~shared(r, f) => L[f] = <<>>
  BY <1>3 DEF Loaded, Buffers
<1>5. /\ ci' = [ci EXCEPT ![r] = out.ci] /\ send' = [send EXCEPT ![r] = L]
      /\ wire' = [wire EXCEPT ![r] = [f \in Face |->
           IF shared(r, f) THEN Append(wire[r][f], CountMsg(Len(L[f]))) ELSE wire[r][f]]]
  OBVIOUS
<1> HIDE DEF out, L
<1>6. h \in 0..6 /\ \A g \in Face : shared(r, g) => h <= g
  BY FacesAll DEF h
<1> HIDE DEF h
<1>7. pc'[r] = "count" /\ face'[r] = h /\ round'[r] = round[r] /\ send'[r] = L /\ n_recv'[r] = n_recv[r]
  BY <1>1, <1>2, <1>5
<1>8. \A f \in Face :
        /\ shared(r, f) => wire'[r][f] = Append(wire[r][f], CountMsg(Len(L[f]))) /\ posted'[r][f] = CountSize
        /\ ~shared(r, f) => wire'[r][f] = wire[r][f] /\ send'[r][f] = <<>>
  BY <1>1, <1>2, <1>4, <1>5
<1>9. \A q \in Rank \ {r} :
           /\ pc'[q] = pc[q] /\ face'[q] = face[q] /\ round'[q] = round[q] /\ ci'[q] = ci[q]
           /\ send'[q] = send[q] /\ n_recv'[q] = n_recv[q] /\ posted'[q] = posted[q]
           /\ wire'[q] = wire[q]
  BY <1>1, <1>2, <1>5
<1>10. ASSUME NEW f \in Face, shared(r, f)
       PROVE  /\ Sending(r, f, round'[r], SendStage(pc'[r], face'[r], f), wire'[r][f], send'[r][f])
              /\ Receiving(r, f, round'[r], RecvStage(pc'[r], face'[r], f), wire'[bc(r, f)][Port(f)],
                           n_recv'[r][f], posted'[r][f])
  <2> DEFINE n == bc(r, f)
             g == Port(f)
  <2>1. /\ Sending(r, f, round[r], SendStage(pc[r], face[r], f), wire[r][f], send[r][f])
        /\ Receiving(r, f, round[r], RecvStage(pc[r], face[r], f), Arrived(r, f), n_recv[r][f], posted[r][f])
    BY <1>10, TwoEnds
  <2>2. n \in Rank \ {r} /\ Arrived(r, f) = wire[n][g] /\ g \in Face
    BY <1>2, <1>10, SharedIs DEF Arrived
  <2>3. SendStage(pc[r], face[r], f) = 0 /\ SendStage(pc'[r], face'[r], f) = 1
    BY <1>1, <1>7 DEF SendStage
  <2>4. RecvStage(pc[r], face[r], f) = 0 /\ RecvStage(pc'[r], face'[r], f) = 1
    BY <1>1, <1>6, <1>7, <1>10 DEF RecvStage
  <2>5. /\ round[n] \in Nat /\ round[r] \in Nat /\ wire[r][f] \in Seq(Message) /\ L[f] \in Seq(Injector)
    BY <1>2, <1>4, <2>2
  <2>6. wire'[n][g] = wire[n][g]
    BY <1>9, <2>2
  <2> HIDE DEF n, g
  <2>7. Channel(round[r], 1, round[n], RecvStage(pc[n], face[n], g),
                Append(wire[r][f], CountMsg(Len(L[f]))), L[f], n_recv[n][g], posted[n][g])
    <3>1. Channel(round[r], 0, round[n], RecvStage(pc[n], face[n], g),
                  wire[r][f], send[r][f], n_recv[n][g], posted[n][g])
      BY <2>1, <2>3, Zenon DEF Sending, n, g
    <3> QED BY <2>5, <3>1, StagesIn, NumberSent, Zenon
  <2>8. Sending(r, f, round'[r], SendStage(pc'[r], face'[r], f), wire'[r][f], send'[r][f])
    BY <1>7, <1>8, <1>10, <2>3, <2>7 DEF Sending, n, g
  <2>9. Channel(round[n], SendStage(pc[n], face[n], g), round[r], 1, wire[n][g], send[n][g],
                n_recv[r][f], CountSize)
    <3>1. Channel(round[n], SendStage(pc[n], face[n], g), round[r], 0, wire[n][g], send[n][g],
                  n_recv[r][f], posted[r][f])
      BY <2>1, <2>2, <2>4, Zenon DEF Receiving, n, g
    <3>2. 0 \in 0..3
      OBVIOUS
    <3> QED BY <2>5, <3>1, <3>2, StagesIn, RoundsFollow, Zenon
  <2>10. Receiving(r, f, round'[r], RecvStage(pc'[r], face'[r], f), wire'[n][g], n_recv'[r][f], posted'[r][f])
    BY <1>7, <1>8, <1>10, <2>4, <2>6, <2>9 DEF Receiving, n, g
  <2> QED BY <2>8, <2>10 DEF n, g
<1> QED BY <1>1, <1>7, <1>8, <1>9, <1>10, ExchangeNext, ZenonT(40)

(* The number is taken: it is the one the receive was posted for.          *)
LEMMA EndRecvCountExchange ==
  ASSUME Lists, Exchange, NEW r \in Rank, EndRecvCount(r)
  PROVE  Exchange' /\ Head(Arrived(r, face[r])).inj = <<>>
<1> DEFINE f == face[r]
           n == bc(r, f)
           g == Port(f)
           W == wire[n][g]
           m == Head(Arrived(r, f))
           h == NextShared(r, f + 1)
<1>1. /\ pc[r] = "count" /\ f < 6 /\ Arrived(r, f) # <<>> /\ wire' = Received(r, f)
      /\ UNCHANGED given /\ UNCHANGED round /\ UNCHANGED local /\ UNCHANGED send
      /\ m.sz = posted[r][f] =>
            /\ n_recv' = [n_recv EXCEPT ![r][f] = m.n]
            /\ posted' = [posted EXCEPT ![r][f] = DataSize(m.n)]
            /\ face' = [face EXCEPT ![r] = h] /\ UNCHANGED pc
  BY DEF EndRecvCount, At, NextFace
<1>2. /\ Fixed /\ pc \in [Rank -> Phase] /\ face \in [Rank -> 0..6] /\ round \in [Rank -> Nat]
      /\ n_recv \in [Rank -> [Face -> Nat]] /\ posted \in [Rank -> [Face -> Nat]]
      /\ wire \in [Rank -> [Face -> Seq(Message)]]
  BY DEF Lists, Controls, Ranges
<1>3. f \in Face /\ shared(r, f)
  <2>1. f \in Face
    BY <1>1, <1>2 DEF Face
  <2> QED BY <1>1, <2>1 DEF Lists, Controls, Follow
<1> HIDE DEF f
<1>4. n \in Rank \ {r} /\ g \in Face /\ Arrived(r, f) = W /\ W \in Seq(Message) /\ W # <<>>
  BY <1>1, <1>2, <1>3, SharedIs DEF Arrived
<1>5. RecvStage(pc[r], f, f) = 1
  BY <1>1, <1>3 DEF RecvStage, Face
<1>6. Channel(round[n], SendStage(pc[n], face[n], g), round[r], 1, W, send[n][g],
              n_recv[r][f], posted[r][f])
  <2>1. Receiving(r, f, round[r], RecvStage(pc[r], f, f), Arrived(r, f), n_recv[r][f], posted[r][f])
    BY <1>3, TwoEnds DEF f
  <2> QED BY <1>4, <1>5, <2>1, Zenon DEF Receiving
<1>7. /\ Head(W).sz = posted[r][f] /\ Head(W).inj = <<>>
      /\ Channel(round[n], SendStage(pc[n], face[n], g), round[r], 2, Tail(W), send[n][g],
                 Head(W).n, DataSize(Head(W).n))
  <2>1. round[n] \in Nat /\ round[r] \in Nat
    BY <1>2, <1>4
  <2> HIDE DEF W, n, g
  <2> QED BY <1>4, <1>6, <2>1, StagesIn, NumberTaken
<1>8. m = Head(W)
  BY <1>4
<1>9. wire' = [wire EXCEPT ![n][g] = Tail(W)]
  BY <1>1 DEF Received
<1>10. /\ n_recv' = [n_recv EXCEPT ![r][f] = m.n] /\ posted' = [posted EXCEPT ![r][f] = DataSize(m.n)]
       /\ face' = [face EXCEPT ![r] = h] /\ UNCHANGED pc
  BY <1>1, <1>7, <1>8
<1>11. h \in 0..6 /\ ~ (h <= f) /\ \A e \in Face : shared(r, e) /\ e # f => (h <= e <=> f <= e)
  BY <1>3, FacesPass
<1> HIDE DEF m, W, h
<1>12. /\ wire'[n][g] = Tail(W) /\ wire'[r] = wire[r]
       /\ \A q \in Rank, e \in Face : q # n \/ e # g => wire'[q][e] = wire[q][e]
  BY <1>2, <1>4, <1>9
<1>13. /\ n_recv'[r][f] = m.n /\ posted'[r][f] = DataSize(m.n) /\ face'[r] = h /\ pc'[r] = "count"
       /\ \A e \in Face : e # f => n_recv'[r][e] = n_recv[r][e] /\ posted'[r][e] = posted[r][e]
  BY <1>1, <1>2, <1>3, <1>10
<1>14. \A q \in Rank \ {r} :
           /\ pc'[q] = pc[q] /\ face'[q] = face[q] /\ round'[q] = round[q] /\ ci'[q] = ci[q]
           /\ send'[q] = send[q] /\ n_recv'[q] = n_recv[q] /\ posted'[q] = posted[q]
           /\ \A e \in Face : ~shared(q, e) \/ bc(q, e) # r => wire'[q][e] = wire[q][e]
  <2> TAKE q \in Rank \ {r}
  <2>1. /\ pc'[q] = pc[q] /\ face'[q] = face[q] /\ round'[q] = round[q] /\ ci'[q] = ci[q]
        /\ send'[q] = send[q] /\ n_recv'[q] = n_recv[q] /\ posted'[q] = posted[q]
    BY <1>1, <1>2, <1>10 DEF local
  <2>2. shared(n, g) /\ bc(n, g) = r
    BY <1>2, <1>3, SharedIs
  <2> QED BY <1>12, <2>1, <2>2
<1>15. \A e \in Face : ~shared(r, e) => send'[r][e] = <<>> /\ wire'[r][e] = wire[r][e]
  BY <1>1, <1>12 DEF Exchange
<1>16. ASSUME NEW e \in Face, shared(r, e)
       PROVE  /\ Sending(r, e, round'[r], SendStage(pc'[r], face'[r], e), wire'[r][e], send'[r][e])
              /\ Receiving(r, e, round'[r], RecvStage(pc'[r], face'[r], e), wire'[bc(r, e)][Port(e)],
                           n_recv'[r][e], posted'[r][e])
  <2>1. /\ Sending(r, e, round[r], SendStage(pc[r], face[r], e), wire[r][e], send[r][e])
        /\ Receiving(r, e, round[r], RecvStage(pc[r], face[r], e), Arrived(r, e), n_recv[r][e], posted[r][e])
    BY <1>16, TwoEnds
  <2>2. SendStage(pc[r], face[r], e) = SendStage(pc'[r], face'[r], e)
    BY <1>1, <1>13 DEF SendStage
  <2>3. Sending(r, e, round'[r], SendStage(pc'[r], face'[r], e), wire'[r][e], send'[r][e])
    BY <1>1, <1>12, <2>1, <2>2
  <2>4. CASE e = f
    <3>1. RecvStage(pc'[r], face'[r], f) = 2
      BY <1>11, <1>13 DEF RecvStage
    <3>2. Receiving(r, f, round[r], 2, wire'[n][g], m.n, DataSize(m.n))
      BY <1>7, <1>8, <1>12, Zenon DEF Receiving
    <3> QED BY <1>1, <1>13, <2>3, <2>4, <3>1, <3>2 DEF n, g
  <2>5. CASE e # f
    <3>1. RecvStage(pc'[r], face'[r], e) = RecvStage(pc[r], face[r], e)
      BY <1>1, <1>11, <1>13, <1>16, <2>5 DEF RecvStage, f
    <3>2. Arrived(r, e) = wire'[bc(r, e)][Port(e)]
      <4>1. bc(r, e) \in Rank /\ Port(e) \in Face /\ Port(Port(e)) = e /\ Port(g) = f
        BY <1>2, <1>3, <1>16, SharedIs DEF g
      <4>2. Port(e) # g
        BY <2>5, <4>1
      <4> QED BY <1>12, <4>1, <4>2 DEF Arrived
    <3> QED BY <1>1, <1>13, <2>1, <2>3, <2>5, <3>1, <3>2
  <2> QED BY <2>4, <2>5
<1>17. Exchange'
  BY <1>1, <1>13, <1>14, <1>15, <1>16, ExchangeNext
<1> QED BY <1>7, <1>8, <1>17 DEF m, f

(* The injectors follow the number, which was taken.                       *)
LEMMA EndSendCountExchange ==
  ASSUME Lists, Exchange, NEW r \in Rank, EndSendCount(r)
  PROVE  Exchange'
<1> DEFINE f == face[r]
           n == bc(r, f)
           g == Port(f)
           W == wire[r][f]
           L == send[r][f]
           h == NextShared(r, f + 1)
<1>1. /\ pc[r] = "data" /\ f < 6 /\ Matched(r, f)
      /\ wire' = [wire EXCEPT ![r][f] = Append(@, DataMsg(L))] /\ send' = [send EXCEPT ![r][f] = <<>>]
      /\ face' = [face EXCEPT ![r] = h] /\ UNCHANGED pc
      /\ UNCHANGED given /\ UNCHANGED round /\ UNCHANGED local /\ UNCHANGED <<n_recv, posted>>
  BY DEF EndSendCount, At, NextFace
<1>2. /\ Fixed /\ pc \in [Rank -> Phase] /\ face \in [Rank -> 0..6] /\ round \in [Rank -> Nat]
      /\ send \in [Rank -> [Face -> Seq(Injector)]] /\ wire \in [Rank -> [Face -> Seq(Message)]]
  BY DEF Lists, Controls, Ranges
<1>3. f \in Face /\ shared(r, f)
  <2>1. f \in Face
    BY <1>1, <1>2 DEF Face
  <2> QED BY <1>1, <2>1 DEF Lists, Controls, Follow
<1> HIDE DEF f
<1>4. n \in Rank \ {r} /\ W \in Seq(Message) /\ L \in Seq(Injector)
  BY <1>2, <1>3, SharedIs
<1>5. SendStage(pc[r], f, f) = 1
  BY <1>1, <1>3 DEF SendStage, Face
<1>6. Channel(round[r], 2, round[n], RecvStage(pc[n], face[n], g), Append(W, DataMsg(L)), <<>>,
              n_recv[n][g], posted[n][g])
  <2>1. Sending(r, f, round[r], SendStage(pc[r], f, f), W, L)
    BY <1>3, TwoEnds DEF f
  <2>2. Channel(round[r], 1, round[n], RecvStage(pc[n], face[n], g), W, L, n_recv[n][g], posted[n][g])
    BY <1>5, <2>1, Zenon DEF Sending
  <2>3. Len(W) - (IF posted[n][g] # 0 THEN 1 ELSE 0) <= 0
    BY <1>1, Zenon DEF Matched, Unmatched
  <2>4. round[n] \in Nat /\ round[r] \in Nat
    BY <1>2, <1>4
  <2> HIDE DEF W, L, n, g
  <2> QED BY <1>4, <2>2, <2>3, <2>4, StagesIn, InjectorsSent
<1>7. h \in 0..6 /\ ~ (h <= f) /\ \A e \in Face : shared(r, e) /\ e # f => (h <= e <=> f <= e)
  BY <1>3, FacesPass
<1> HIDE DEF h
<1>8. /\ wire'[r][f] = Append(W, DataMsg(L)) /\ send'[r][f] = <<>> /\ face'[r] = h /\ pc'[r] = "data"
      /\ \A e \in Face : e # f => wire'[r][e] = wire[r][e] /\ send'[r][e] = send[r][e]
      /\ \A q \in Rank \ {r} : wire'[q] = wire[q]
  BY <1>1, <1>2, <1>3
<1>9. \A q \in Rank \ {r} :
           /\ pc'[q] = pc[q] /\ face'[q] = face[q] /\ round'[q] = round[q] /\ ci'[q] = ci[q]
           /\ send'[q] = send[q] /\ n_recv'[q] = n_recv[q] /\ posted'[q] = posted[q]
           /\ wire'[q] = wire[q]
  BY <1>1, <1>2, <1>3, <1>8 DEF local
<1>10. \A e \in Face : ~shared(r, e) => send'[r][e] = <<>> /\ wire'[r][e] = wire[r][e]
  BY <1>3, <1>8 DEF Exchange
<1>11. ci'[r] = ci[r] /\ round'[r] = round[r] /\ n_recv'[r] = n_recv[r] /\ posted'[r] = posted[r]
  BY <1>1 DEF local
<1> HIDE DEF W, L
<1>12. ASSUME NEW e \in Face, shared(r, e)
       PROVE  /\ Sending(r, e, round'[r], SendStage(pc'[r], face'[r], e), wire'[r][e], send'[r][e])
              /\ Receiving(r, e, round'[r], RecvStage(pc'[r], face'[r], e), wire'[bc(r, e)][Port(e)],
                           n_recv'[r][e], posted'[r][e])
  <2>1. /\ Sending(r, e, round[r], SendStage(pc[r], face[r], e), wire[r][e], send[r][e])
        /\ Receiving(r, e, round[r], RecvStage(pc[r], face[r], e), Arrived(r, e), n_recv[r][e], posted[r][e])
    BY <1>12, TwoEnds
  <2>2. RecvStage(pc[r], face[r], e) = RecvStage(pc'[r], face'[r], e)
    BY <1>1, <1>8 DEF RecvStage
  <2>3. Arrived(r, e) = wire'[bc(r, e)][Port(e)]
    <3>1. bc(r, e) \in Rank \ {r}
      BY <1>2, <1>12, SharedIs
    <3> QED BY <1>8, <3>1 DEF Arrived
  <2>4. Receiving(r, e, round'[r], RecvStage(pc'[r], face'[r], e), wire'[bc(r, e)][Port(e)],
                  n_recv'[r][e], posted'[r][e])
    BY <1>11, <2>1, <2>2, <2>3
  <2>5. CASE e = f
    <3>1. SendStage(pc'[r], face'[r], f) = 2
      BY <1>7, <1>8 DEF SendStage
    <3>2. Sending(r, f, round'[r], 2, wire'[r][f], send'[r][f])
      BY <1>6, <1>8, <1>11 DEF Sending, n, g
    <3> QED BY <2>4, <2>5, <3>1, <3>2
  <2>6. CASE e # f
    <3>1. SendStage(pc'[r], face'[r], e) = SendStage(pc[r], face[r], e)
      BY <1>1, <1>7, <1>8, <1>12, <2>6 DEF SendStage, f
    <3> QED BY <1>8, <1>11, <2>1, <2>4, <2>6, <3>1
  <2> QED BY <2>5, <2>6
<1> QED BY <1>1, <1>8, <1>9, <1>10, <1>11, <1>12, ExchangeNext DEF Exchange

(* The local injectors are in; the loop over the arrivals starts.          *)
LEMMA ResizeExchange ==
  ASSUME Lists, Exchange, NEW r \in Rank, ResizeInjectLocal(r)
  PROVE  Exchange'
<1> DEFINE h == NextShared(r, 0)
<1>1. /\ pc[r] = "resize" /\ pc' = [pc EXCEPT ![r] = "inject"] /\ face' = [face EXCEPT ![r] = h]
      /\ ci' = [ci EXCEPT ![r] = <<>>] /\ UNCHANGED given /\ UNCHANGED round /\ UNCHANGED ports
  BY DEF ResizeInjectLocal, Goto
<1>2. pc \in [Rank -> Phase] /\ face \in [Rank -> 0..6] /\ ci \in [Rank -> Seq(Injector)] /\ Fixed
  BY DEF Lists, Controls, Ranges
<1>3. h \in 0..6 /\ \A g \in Face : shared(r, g) => h <= g
  BY FacesAll
<1> HIDE DEF h
<1>4. pc'[r] = "inject" /\ face'[r] = h /\ ci'[r] = <<>>
  BY <1>1, <1>2
<1>5. UNCHANGED <<wire, send, n_recv, posted>>
  BY <1>1 DEF ports
<1>6. \A q \in Rank \ {r} :
           /\ pc'[q] = pc[q] /\ face'[q] = face[q] /\ round'[q] = round[q] /\ ci'[q] = ci[q]
           /\ send'[q] = send[q] /\ n_recv'[q] = n_recv[q] /\ posted'[q] = posted[q]
           /\ wire'[q] = wire[q]
  BY <1>1, <1>2, <1>5
<1>7. \A e \in Face : ~shared(r, e) => send'[r][e] = <<>> /\ wire'[r][e] = wire[r][e]
  BY <1>5 DEF Exchange
<1>8. ASSUME NEW e \in Face, shared(r, e)
      PROVE  /\ Sending(r, e, round'[r], SendStage(pc'[r], face'[r], e), wire'[r][e], send'[r][e])
             /\ Receiving(r, e, round'[r], RecvStage(pc'[r], face'[r], e), wire'[bc(r, e)][Port(e)],
                          n_recv'[r][e], posted'[r][e])
  <2>1. /\ Sending(r, e, round[r], SendStage(pc[r], face[r], e), wire[r][e], send[r][e])
        /\ Receiving(r, e, round[r], RecvStage(pc[r], face[r], e), Arrived(r, e), n_recv[r][e], posted[r][e])
    BY <1>8, TwoEnds
  <2>2. SendStage(pc[r], face[r], e) = SendStage(pc'[r], face'[r], e)
    BY <1>1, <1>4 DEF SendStage
  <2>3. RecvStage(pc[r], face[r], e) = RecvStage(pc'[r], face'[r], e)
    BY <1>1, <1>3, <1>4, <1>8 DEF RecvStage
  <2> QED BY <1>1, <1>5, <2>1, <2>2, <2>3 DEF Arrived
<1> QED BY <1>1, <1>4, <1>6, <1>7, <1>8, ExchangeNext

(* The injectors are taken: as many as the receive was posted for.         *)
LEMMA EndRecvDataExchange ==
  ASSUME Lists, Exchange, NEW r \in Rank, EndRecvData(r)
  PROVE  /\ Exchange' /\ Head(Arrived(r, face[r])).sz = posted[r][face[r]]
         /\ Len(Head(Arrived(r, face[r])).inj) = n_recv[r][face[r]]
<1> DEFINE f == face[r]
           n == bc(r, f)
           g == Port(f)
           W == wire[n][g]
           m == Head(Arrived(r, f))
           h == NextShared(r, f + 1)
<1>1. /\ pc[r] = "inject" /\ f < 6 /\ Arrived(r, f) # <<>> /\ wire' = Received(r, f)
      /\ posted' = [posted EXCEPT ![r][f] = 0]
      /\ UNCHANGED given /\ UNCHANGED <<round, ci, send, n_recv>>
      /\ m.sz = posted[r][f] => face' = [face EXCEPT ![r] = h] /\ UNCHANGED pc
  BY DEF EndRecvData, At, NextFace
<1>2. /\ Fixed /\ pc \in [Rank -> Phase] /\ face \in [Rank -> 0..6] /\ round \in [Rank -> Nat]
      /\ posted \in [Rank -> [Face -> Nat]] /\ wire \in [Rank -> [Face -> Seq(Message)]]
  BY DEF Lists, Controls, Ranges
<1>3. f \in Face /\ shared(r, f)
  <2>1. f \in Face
    BY <1>1, <1>2 DEF Face
  <2> QED BY <1>1, <2>1 DEF Lists, Controls, Follow
<1> HIDE DEF f
<1>4. n \in Rank \ {r} /\ g \in Face /\ Arrived(r, f) = W /\ W \in Seq(Message) /\ W # <<>>
  BY <1>1, <1>2, <1>3, SharedIs DEF Arrived
<1>5. RecvStage(pc[r], f, f) = 2
  BY <1>1, <1>3 DEF RecvStage, Face
<1>6. Channel(round[n], SendStage(pc[n], face[n], g), round[r], 2, W, send[n][g],
              n_recv[r][f], posted[r][f])
  <2>1. Receiving(r, f, round[r], RecvStage(pc[r], f, f), Arrived(r, f), n_recv[r][f], posted[r][f])
    BY <1>3, TwoEnds DEF f
  <2> QED BY <1>4, <1>5, <2>1, Zenon DEF Receiving
<1>7. /\ Head(W).sz = posted[r][f] /\ Len(Head(W).inj) = n_recv[r][f]
      /\ Channel(round[n], SendStage(pc[n], face[n], g), round[r], 3, Tail(W), send[n][g],
                 n_recv[r][f], 0)
  <2>1. round[n] \in Nat /\ round[r] \in Nat
    BY <1>2, <1>4
  <2> HIDE DEF W, n, g
  <2> QED BY <1>4, <1>6, <2>1, StagesIn, InjectorsTaken
<1>8. m = Head(W)
  BY <1>4
<1>9. wire' = [wire EXCEPT ![n][g] = Tail(W)]
  BY <1>1 DEF Received
<1>10. face' = [face EXCEPT ![r] = h] /\ UNCHANGED pc
  BY <1>1, <1>7, <1>8
<1>11. h \in 0..6 /\ ~ (h <= f) /\ \A e \in Face : shared(r, e) /\ e # f => (h <= e <=> f <= e)
  BY <1>3, FacesPass
<1> HIDE DEF m, W, h
<1>12. /\ wire'[n][g] = Tail(W) /\ wire'[r] = wire[r]
       /\ \A q \in Rank, e \in Face : q # n \/ e # g => wire'[q][e] = wire[q][e]
  BY <1>2, <1>4, <1>9
<1>13. /\ posted'[r][f] = 0 /\ face'[r] = h /\ pc'[r] = "inject"
       /\ \A e \in Face : e # f => posted'[r][e] = posted[r][e]
  BY <1>1, <1>2, <1>3, <1>10
<1>14. \A q \in Rank \ {r} :
           /\ pc'[q] = pc[q] /\ face'[q] = face[q] /\ round'[q] = round[q] /\ ci'[q] = ci[q]
           /\ send'[q] = send[q] /\ n_recv'[q] = n_recv[q] /\ posted'[q] = posted[q]
           /\ \A e \in Face : ~shared(q, e) \/ bc(q, e) # r => wire'[q][e] = wire[q][e]
  <2> TAKE q \in Rank \ {r}
  <2>1. /\ pc'[q] = pc[q] /\ face'[q] = face[q] /\ round'[q] = round[q] /\ ci'[q] = ci[q]
        /\ send'[q] = send[q] /\ n_recv'[q] = n_recv[q] /\ posted'[q] = posted[q]
    BY <1>1, <1>2, <1>10
  <2>2. shared(n, g) /\ bc(n, g) = r
    BY <1>2, <1>3, SharedIs
  <2> QED BY <1>12, <2>1, <2>2
<1>15. \A e \in Face : ~shared(r, e) => send'[r][e] = <<>> /\ wire'[r][e] = wire[r][e]
  BY <1>1, <1>12 DEF Exchange
<1>16. ASSUME NEW e \in Face, shared(r, e)
       PROVE  /\ Sending(r, e, round'[r], SendStage(pc'[r], face'[r], e), wire'[r][e], send'[r][e])
              /\ Receiving(r, e, round'[r], RecvStage(pc'[r], face'[r], e), wire'[bc(r, e)][Port(e)],
                           n_recv'[r][e], posted'[r][e])
  <2>1. /\ Sending(r, e, round[r], SendStage(pc[r], face[r], e), wire[r][e], send[r][e])
        /\ Receiving(r, e, round[r], RecvStage(pc[r], face[r], e), Arrived(r, e), n_recv[r][e], posted[r][e])
    BY <1>16, TwoEnds
  <2>2. SendStage(pc[r], face[r], e) = SendStage(pc'[r], face'[r], e)
    BY <1>1, <1>13 DEF SendStage
  <2>3. Sending(r, e, round'[r], SendStage(pc'[r], face'[r], e), wire'[r][e], send'[r][e])
    BY <1>1, <1>12, <2>1, <2>2
  <2>4. CASE e = f
    <3>1. RecvStage(pc'[r], face'[r], f) = 3
      BY <1>11, <1>13 DEF RecvStage
    <3>2. Receiving(r, f, round[r], 3, wire'[n][g], n_recv[r][f], 0)
      BY <1>7, <1>8, <1>12, Zenon DEF Receiving
    <3> QED BY <1>1, <1>13, <2>3, <2>4, <3>1, <3>2 DEF n, g
  <2>5. CASE e # f
    <3>1. RecvStage(pc'[r], face'[r], e) = RecvStage(pc[r], face[r], e)
      BY <1>1, <1>11, <1>13, <1>16, <2>5 DEF RecvStage, f
    <3>2. Arrived(r, e) = wire'[bc(r, e)][Port(e)]
      <4>1. bc(r, e) \in Rank /\ Port(e) \in Face /\ Port(Port(e)) = e /\ Port(g) = f
        BY <1>2, <1>3, <1>16, SharedIs DEF g
      <4>2. Port(e) # g
        BY <2>5, <4>1
      <4> QED BY <1>12, <4>1, <4>2 DEF Arrived
    <3> QED BY <1>1, <1>13, <2>1, <2>3, <2>5, <3>1, <3>2
  <2> QED BY <2>4, <2>5
<1>17. Exchange'
  <2>1. pc'[r] # "error" /\ (pc'[r] \notin {"count", "data", "resize"} => ci'[r] = <<>>)
    BY <1>1, <1>13 DEF Exchange
  <2> QED BY <1>1, <1>14, <1>15, <1>16, <2>1, ExchangeNext
<1> QED BY <1>7, <1>8, <1>17 DEF m, f

(* A step that touches no message: only the stages may change.             *)
LEMMA QuietExchange ==
  ASSUME Lists, Exchange, UNCHANGED given, UNCHANGED ports, NEW r \in Rank,
         UNCHANGED ci, \A q \in Rank \ {r} : pc'[q] = pc[q] /\ face'[q] = face[q] /\ round'[q] = round[q],
         pc'[r] # "error", pc'[r] \notin {"count", "data", "resize"} => ci[r] = <<>>,
         \A e \in Face : shared(r, e) =>
           /\ Sending(r, e, round'[r], SendStage(pc'[r], face'[r], e), wire[r][e], send[r][e])
           /\ Receiving(r, e, round'[r], RecvStage(pc'[r], face'[r], e), Arrived(r, e),
                        n_recv[r][e], posted[r][e])
  PROVE  Exchange'
<1>1. UNCHANGED <<wire, send, n_recv, posted>>
  BY DEF ports
<1>2. \A q \in Rank \ {r} :
           /\ pc'[q] = pc[q] /\ face'[q] = face[q] /\ round'[q] = round[q] /\ ci'[q] = ci[q]
           /\ send'[q] = send[q] /\ n_recv'[q] = n_recv[q] /\ posted'[q] = posted[q]
           /\ wire'[q] = wire[q]
  BY <1>1
<1>3. \A e \in Face : ~shared(r, e) => send'[r][e] = <<>> /\ wire'[r][e] = wire[r][e]
  BY <1>1 DEF Exchange
<1>4. ASSUME NEW e \in Face, shared(r, e)
      PROVE  /\ Sending(r, e, round'[r], SendStage(pc'[r], face'[r], e), wire'[r][e], send'[r][e])
             /\ Receiving(r, e, round'[r], RecvStage(pc'[r], face'[r], e), wire'[bc(r, e)][Port(e)],
                          n_recv'[r][e], posted'[r][e])
  BY <1>1, <1>4 DEF Arrived
<1> QED BY <1>2, <1>3, <1>4, ExchangeNext

(* The injectors sent were taken.                                          *)
LEMMA EndSendDataExchange ==
  ASSUME Lists, Exchange, NEW r \in Rank, EndSendData(r)
  PROVE  Exchange'
<1> DEFINE f == face[r]
           n == bc(r, f)
           g == Port(f)
           h == NextShared(r, f + 1)
<1>1. /\ pc[r] = "finish" /\ f < 6 /\ Matched(r, f) /\ face' = [face EXCEPT ![r] = h] /\ UNCHANGED pc
      /\ UNCHANGED given /\ UNCHANGED round /\ UNCHANGED ci /\ UNCHANGED ports
  BY DEF EndSendData, At, NextFace, local
<1>2. /\ Fixed /\ pc \in [Rank -> Phase] /\ face \in [Rank -> 0..6] /\ round \in [Rank -> Nat]
      /\ wire \in [Rank -> [Face -> Seq(Message)]]
  BY DEF Lists, Controls, Ranges
<1>3. f \in Face /\ shared(r, f)
  <2>1. f \in Face
    BY <1>1, <1>2 DEF Face
  <2> QED BY <1>1, <2>1 DEF Lists, Controls, Follow
<1> HIDE DEF f
<1>4. n \in Rank \ {r}
  BY <1>2, <1>3, SharedIs
<1>5. SendStage(pc[r], f, f) = 2
  BY <1>1, <1>3 DEF SendStage, Face
<1>6. Channel(round[r], 3, round[n], RecvStage(pc[n], face[n], g), wire[r][f], send[r][f],
              n_recv[n][g], posted[n][g])
  <2>1. Sending(r, f, round[r], SendStage(pc[r], f, f), wire[r][f], send[r][f])
    BY <1>3, TwoEnds DEF f
  <2>2. Channel(round[r], 2, round[n], RecvStage(pc[n], face[n], g), wire[r][f], send[r][f],
                n_recv[n][g], posted[n][g])
    BY <1>5, <2>1, Zenon DEF Sending
  <2>3. Len(wire[r][f]) - (IF posted[n][g] # 0 THEN 1 ELSE 0) <= 0
    BY <1>1, Zenon DEF Matched, Unmatched
  <2>4. round[n] \in Nat /\ round[r] \in Nat /\ wire[r][f] \in Seq(Message)
    BY <1>2, <1>3, <1>4
  <2> HIDE DEF n, g
  <2> QED BY <1>4, <2>2, <2>3, <2>4, StagesIn, InjectorsMatched, Zenon
<1>7. h \in 0..6 /\ ~ (h <= f) /\ \A e \in Face : shared(r, e) /\ e # f => (h <= e <=> f <= e)
  BY <1>3, FacesPass
<1> HIDE DEF h
<1>8. /\ face'[r] = h /\ pc'[r] = "finish" /\ round'[r] = round[r] /\ ci[r] = <<>>
      /\ \A q \in Rank \ {r} : pc'[q] = pc[q] /\ face'[q] = face[q] /\ round'[q] = round[q]
  BY <1>1, <1>2, Zenon DEF Exchange
<1>9. ASSUME NEW e \in Face, shared(r, e)
      PROVE  /\ Sending(r, e, round'[r], SendStage(pc'[r], face'[r], e), wire[r][e], send[r][e])
             /\ Receiving(r, e, round'[r], RecvStage(pc'[r], face'[r], e), Arrived(r, e),
                          n_recv[r][e], posted[r][e])
  <2>1. /\ Sending(r, e, round[r], SendStage(pc[r], face[r], e), wire[r][e], send[r][e])
        /\ Receiving(r, e, round[r], RecvStage(pc[r], face[r], e), Arrived(r, e), n_recv[r][e], posted[r][e])
    BY <1>9, TwoEnds
  <2>2. RecvStage(pc[r], face[r], e) = RecvStage(pc'[r], face'[r], e)
    BY <1>1, <1>8 DEF RecvStage
  <2>3. CASE e = f
    <3>1. SendStage(pc'[r], face'[r], f) = 3
      BY <1>7, <1>8 DEF SendStage
    <3>2. Sending(r, f, round'[r], 3, wire[r][f], send[r][f])
      BY <1>6, <1>8 DEF Sending, n, g
    <3> QED BY <1>8, <2>1, <2>2, <2>3, <3>1, <3>2
  <2>4. CASE e # f
    <3>1. SendStage(pc'[r], face'[r], e) = SendStage(pc[r], face[r], e)
      BY <1>1, <1>7, <1>8, <1>9, <2>4 DEF SendStage, f
    <3> QED BY <1>8, <2>1, <2>2, <3>1
  <2> QED BY <2>3, <2>4
<1> QED BY <1>1, <1>8, <1>9, QuietExchange

(* A loop ends, and the next phase begins.                                 *)
LEMMA EndLoopExchange ==
  ASSUME Lists, Exchange, NEW r \in Rank, EndLoop(r)
  PROVE  Exchange'
<1> DEFINE h == NextShared(r, 0)
<1>1. /\ pc[r] \in DOMAIN Follow /\ face[r] = 6 /\ pc' = [pc EXCEPT ![r] = Follow[pc[r]]]
      /\ face' = [face EXCEPT ![r] = h]
      /\ UNCHANGED given /\ UNCHANGED round /\ UNCHANGED ci /\ UNCHANGED ports
  BY DEF EndLoop, Goto, local
<1>2. pc \in [Rank -> Phase] /\ face \in [Rank -> 0..6] /\ round \in [Rank -> Nat]
  BY DEF Lists, Controls
<1>3. h \in 0..6 /\ (\A e \in Face : shared(r, e) => h <= e) /\ \A e \in Face : ~ (6 <= e)
  BY FacesAll
<1> HIDE DEF h
<1>4. /\ face'[r] = h /\ pc'[r] = Follow[pc[r]] /\ round'[r] = round[r]
      /\ \A q \in Rank \ {r} : pc'[q] = pc[q] /\ face'[q] = face[q] /\ round'[q] = round[q]
  BY <1>1, <1>2
<1>5. <<pc[r], pc'[r]>> \in {<<"count", "data">>, <<"data", "resize">>, <<"inject", "finish">>,
                             <<"finish", "return">>}
  BY <1>1, <1>4 DEF Follow
<1>6. pc'[r] # "error" /\ (pc'[r] \notin {"count", "data", "resize"} => ci[r] = <<>>)
  BY <1>5 DEF Exchange
<1>7. ASSUME NEW e \in Face, shared(r, e)
      PROVE  /\ Sending(r, e, round'[r], SendStage(pc'[r], face'[r], e), wire[r][e], send[r][e])
             /\ Receiving(r, e, round'[r], RecvStage(pc'[r], face'[r], e), Arrived(r, e),
                          n_recv[r][e], posted[r][e])
  <2>1. /\ Sending(r, e, round[r], SendStage(pc[r], face[r], e), wire[r][e], send[r][e])
        /\ Receiving(r, e, round[r], RecvStage(pc[r], face[r], e), Arrived(r, e), n_recv[r][e], posted[r][e])
    BY <1>7, TwoEnds
  <2>2. h <= e /\ ~ (face[r] <= e)
    BY <1>1, <1>3, <1>7
  <2>3. SendStage(pc[r], face[r], e) = SendStage(pc'[r], face'[r], e)
    BY <1>4, <1>5, <2>2 DEF SendStage
  <2>4. RecvStage(pc[r], face[r], e) = RecvStage(pc'[r], face'[r], e)
    BY <1>4, <1>5, <2>2 DEF RecvStage
  <2> QED BY <1>4, <2>1, <2>3, <2>4
<1> QED BY <1>1, <1>4, <1>6, <1>7, QuietExchange

(* A round ends.                                                           *)
LEMMA ReturnExchange ==
  ASSUME Lists, Exchange, NEW r \in Rank, Return(r)
  PROVE  Exchange'
<1>1. /\ pc[r] = "return" /\ round' = [round EXCEPT ![r] = @ + 1]
      /\ pc' = [pc EXCEPT ![r] = IF MoreRounds(r) THEN "begin" ELSE "leftover"]
      /\ face' = [face EXCEPT ![r] = NextShared(r, 0)]
      /\ UNCHANGED given /\ UNCHANGED ci /\ UNCHANGED ports
  BY DEF Return, Goto, local
<1>2. /\ Fixed /\ pc \in [Rank -> Phase] /\ face \in [Rank -> 0..6] /\ round \in [Rank -> Nat]
  BY DEF Lists, Controls
<1>3. /\ pc'[r] \in {"begin", "leftover"} /\ round'[r] = round[r] + 1 /\ ci[r] = <<>>
      /\ \A q \in Rank \ {r} : pc'[q] = pc[q] /\ face'[q] = face[q] /\ round'[q] = round[q]
  BY <1>1, <1>2 DEF Exchange
<1>4. ASSUME NEW e \in Face, shared(r, e)
      PROVE  /\ Sending(r, e, round'[r], SendStage(pc'[r], face'[r], e), wire[r][e], send[r][e])
             /\ Receiving(r, e, round'[r], RecvStage(pc'[r], face'[r], e), Arrived(r, e),
                          n_recv[r][e], posted[r][e])
  <2> DEFINE n == bc(r, e)
             g == Port(e)
  <2>1. n \in Rank /\ round[n] \in Nat /\ round[r] \in Nat
    BY <1>2, <1>4, SharedIs
  <2> HIDE DEF n, g
  <2>2. /\ SendStage(pc[r], face[r], e) = 3 /\ RecvStage(pc[r], face[r], e) = 3
        /\ SendStage(pc'[r], face'[r], e) = 0 /\ RecvStage(pc'[r], face'[r], e) = 0
    BY <1>1, <1>3 DEF SendStage, RecvStage
  <2>3. /\ Sending(r, e, round[r], 3, wire[r][e], send[r][e])
        /\ Receiving(r, e, round[r], 3, Arrived(r, e), n_recv[r][e], posted[r][e])
    BY <1>4, <2>2, TwoEnds
  <2>4. Channel(round[r] + 1, 0, round[n], RecvStage(pc[n], face[n], g), wire[r][e], send[r][e],
                n_recv[n][g], posted[n][g])
    <3>1. Channel(round[r], 3, round[n], RecvStage(pc[n], face[n], g), wire[r][e], send[r][e],
                  n_recv[n][g], posted[n][g])
      BY <2>3, Zenon DEF Sending, n, g
    <3>2. 3 \in 0..3
      OBVIOUS
    <3> QED BY <2>1, <3>1, <3>2, StagesIn, RoundsFollow
  <2>5. Channel(round[n], SendStage(pc[n], face[n], g), round[r] + 1, 0, Arrived(r, e), send[n][g],
                n_recv[r][e], posted[r][e])
    <3>1. Channel(round[n], SendStage(pc[n], face[n], g), round[r], 3, Arrived(r, e), send[n][g],
                  n_recv[r][e], posted[r][e])
      BY <2>3, Zenon DEF Receiving, n, g
    <3>2. 3 \in 0..3
      OBVIOUS
    <3> QED BY <2>1, <3>1, <3>2, StagesIn, RoundsFollow
  <2> QED BY <1>3, <2>2, <2>4, <2>5 DEF Sending, Receiving, n, g
<1> QED BY <1>1, <1>3, <1>4, QuietExchange

(* The particles left over are removed.                                    *)
LEMMA RemoveExchange ==
  ASSUME Lists, Exchange, NEW r \in Rank, RemoveUnprocessed(r)
  PROVE  Exchange'
<1>1. /\ pc[r] = "leftover" /\ pc' = [pc EXCEPT ![r] = "done"]
      /\ face' = [face EXCEPT ![r] = NextShared(r, 0)]
      /\ UNCHANGED given /\ UNCHANGED round /\ UNCHANGED ci /\ UNCHANGED ports
  BY DEF RemoveUnprocessed, Goto
<1>2. pc \in [Rank -> Phase] /\ face \in [Rank -> 0..6]
  BY DEF Lists, Controls
<1>3. /\ pc'[r] = "done" /\ round'[r] = round[r] /\ ci[r] = <<>>
      /\ \A q \in Rank \ {r} : pc'[q] = pc[q] /\ face'[q] = face[q] /\ round'[q] = round[q]
  BY <1>1, <1>2 DEF Exchange
<1>4. ASSUME NEW e \in Face, shared(r, e)
      PROVE  /\ Sending(r, e, round'[r], SendStage(pc'[r], face'[r], e), wire[r][e], send[r][e])
             /\ Receiving(r, e, round'[r], RecvStage(pc'[r], face'[r], e), Arrived(r, e),
                          n_recv[r][e], posted[r][e])
  <2>1. /\ SendStage(pc[r], face[r], e) = SendStage(pc'[r], face'[r], e)
        /\ RecvStage(pc[r], face[r], e) = RecvStage(pc'[r], face'[r], e)
    BY <1>1, <1>3 DEF SendStage, RecvStage
  <2> QED BY <1>3, <1>4, <2>1, TwoEnds
<1> QED BY <1>1, <1>3, <1>4, QuietExchange

(* At first nothing was sent.                                              *)
LEMMA InitExchange ==
  ASSUME Init
  PROVE  Exchange
<1>1. /\ pc = [r \in Rank |-> "begin"] /\ face = [r \in Rank |-> 0] /\ round = [r \in Rank |-> 0]
      /\ ci = [r \in Rank |-> <<>>] /\ send = [r \in Rank |-> [f \in Face |-> <<>>]]
      /\ n_recv = [r \in Rank |-> [f \in Face |-> 0]] /\ posted = [r \in Rank |-> [f \in Face |-> 0]]
      /\ wire = [r \in Rank |-> [f \in Face |-> <<>>]]
  BY Zenon DEF Init
<1>2. Channel(0, 0, 0, 0, <<>>, <<>>, 0, 0)
  <2>1. SentBy(0, 0) - TakenBy(0, 0) = 0 /\ Len(<<>>) = 0
    BY DEF SentBy, TakenBy
  <2> QED BY <2>1 DEF Channel
<1>3. ASSUME NEW r \in Rank, NEW f \in Face, shared(r, f)
      PROVE  InStep(r, f)
  <2>1. bc(r, f) \in Rank /\ Port(f) \in Face
    BY <1>3, InitIs, SharedIs
  <2>2. SendStage(pc[r], face[r], f) = 0 /\ RecvStage(pc[bc(r, f)], face[bc(r, f)], Port(f)) = 0
    BY <1>1, <2>1 DEF SendStage, RecvStage
  <2> QED BY <1>1, <1>2, <2>1, <2>2 DEF InStep
<1>4. ASSUME NEW r \in Rank
      PROVE  /\ pc[r] # "error" /\ ci[r] = <<>>
             /\ \A f \in Face : send[r][f] = <<>> /\ wire[r][f] = <<>>
  BY <1>1
<1> QED BY <1>3, <1>4 DEF Exchange

(* A step that changes nothing.                                            *)
LEMMA StillExchange ==
  ASSUME Exchange, UNCHANGED vars
  PROVE  Exchange'
<1>1. UNCHANGED <<setting, derived, pc, face, round, ci, send, n_recv, posted, wire>>
  BY DEF vars, given, local, ports
<1> QED BY <1>1 DEF Exchange, InStep, shared, bc, Tables, Rank

(* It is an invariant.                                                     *)
LEMMA NextExchange ==
  ASSUME Lists, Exchange, [Next]_vars
  PROVE  Exchange'
<1>1. ASSUME NEW r \in Rank, Step(r)
      PROVE  Exchange'
  BY <1>1, BeginExchange, EndRecvCountExchange, EndSendCountExchange, ResizeExchange, EndRecvDataExchange,
     EndSendDataExchange, EndLoopExchange, ReturnExchange, RemoveExchange DEF Step
<1> QED BY <1>1, StillExchange DEF Next, Finished

(* Sender and receiver of every face keep in step.                         *)
LEMMA ExchangeAlways == Spec => []Exchange
<1>1. Init => Exchange
  BY InitExchange
<1>2. Lists /\ Exchange /\ [Next]_vars => Exchange'
  BY NextExchange
<1> QED BY <1>1, <1>2, ListsAlways, PTL DEF Spec

(* mp_end_recv never stops with "Sizes do not match": the number and the   *)
(* injectors of every round travel on one tag, yet the message a receive   *)
(* gets is always the one it was posted for.                               *)
THEOREM ReceivesMatch == Spec => []SizesMatch
<1>1. Exchange => SizesMatch
  BY DEF Exchange, SizesMatch
<1> QED BY <1>1, ExchangeAlways, PTL
-----------------------------------------------------------------------------
(* Third invariant: every particle is in one place.  The messages of a     *)
(* port hold those that are at x, each once.                               *)
Boxes(w, x, W) ==
  /\ \A j \in DOMAIN W : Distinct(W[j].inj)
  /\ \A j, k \in DOMAIN W : j # k => Names(W[j].inj) \cap Names(W[k].inj) = {}
  /\ \A id \in Ids : (\E j \in DOMAIN W : id \in Names(W[j].inj)) <=> w[id] = x

Located(w, P, S, C, W, R, D) ==
  /\ \A r \in Rank :
       /\ \A s \in Species : Box(w, OnList(r, s), P[r][s])
       /\ \A f \in Face : Box(w, InSend(r, f), S[r][f]) /\ Boxes(w, OnWire(r, f), W[r][f])
       /\ Box(w, InCi(r), C[r])
  /\ Ends(w, R, D)

Whereabouts == \E w \in [Ids -> Spots] : Located(w, p, send, ci, wire, rhob, dropped)

(* Where the particles are after a step.                                   *)
LEMMA LocatedNext ==
  ASSUME UNCHANGED <<setting, derived>>, NEW w \in [Ids -> Spots],
         Located(w, p', send', ci', wire', rhob', dropped')
  PROVE  Whereabouts'
<1>1. Rank' = Rank /\ Species' = Species /\ Ids' = Ids
  BY GivenKeeps
<1>2. Spots' = Spots
  BY <1>1 DEF Spots
<1>3. Located(w, p, send, ci, wire, rhob, dropped)'
  <2>1. ASSUME NEW r \in Rank, NEW s \in Species
        PROVE  Box(w, OnList(r, s), p[r][s])'
    BY <1>1 DEF Located, Box
  <2>2. ASSUME NEW r \in Rank, NEW f \in Face
        PROVE  Box(w, InSend(r, f), send[r][f])' /\ Boxes(w, OnWire(r, f), wire[r][f])'
    <3>1. Box(w, InSend(r, f), send'[r][f]) /\ Boxes(w, OnWire(r, f), wire'[r][f])
      BY DEF Located
    <3> QED BY <1>1, <3>1, Zenon DEF Box, Boxes
  <2>3. ASSUME NEW r \in Rank
        PROVE  Box(w, InCi(r), ci[r])'
    BY <1>1 DEF Located, Box
  <2>4. Ends(w, rhob, dropped)'
    BY <1>1 DEF Located, Ends
  <2> QED BY <1>1, <2>1, <2>2, <2>3, <2>4 DEF Located
<1> QED BY <1>1, <1>2, <1>3 DEF Whereabouts

(* A list that holds nobody.                                               *)
LEMMA EmptyBox ==
  /\ Distinct(<<>>) /\ Names(<<>>) = {}
  BY DEF Distinct, Names

(* Messages whose particles stay where they are.                           *)
LEMMA BoxesKeep ==
  ASSUME NEW w, NEW v, NEW x, NEW W, Boxes(w, x, W), \A id \in Ids : w[id] = x <=> v[id] = x
  PROVE  Boxes(v, x, W)
  BY DEF Boxes

(* Injectors are sent.                                                     *)
LEMMA BoxesSent ==
  ASSUME NEW w, NEW v, NEW x, NEW W \in Seq(Message), Boxes(w, x, W), NEW m \in Message,
         Distinct(m.inj), \A id \in Ids : id \in Names(m.inj) => w[id] # x, Names(m.inj) \subseteq Ids,
         \A id \in Ids : v[id] = x <=> w[id] = x \/ id \in Names(m.inj)
  PROVE  Boxes(v, x, Append(W, m))
<1> DEFINE V == Append(W, m)
<1>1. /\ Len(W) \in Nat /\ DOMAIN W = 1 .. Len(W) /\ DOMAIN V = 1 .. Len(W) + 1
      /\ V[Len(W) + 1] = m /\ \A k \in 1 .. Len(W) : V[k] = W[k]
  BY WireIs
<1> HIDE DEF V
<1>2. \A k \in DOMAIN V : (k = Len(W) + 1 /\ V[k] = m) \/ (k \in DOMAIN W /\ V[k] = W[k])
  BY <1>1
<1>3. (\A k \in DOMAIN W : k \in DOMAIN V /\ V[k] = W[k]) /\ Len(W) + 1 \in DOMAIN V
  BY <1>1
<1>4. \A j \in DOMAIN W : Distinct(W[j].inj) /\ Names(W[j].inj) \cap Names(m.inj) = {}
  BY DEF Boxes
<1>5. \A j \in DOMAIN V : Distinct(V[j].inj)
  BY <1>2, <1>4
<1>6. \A j, k \in DOMAIN V : j # k => Names(V[j].inj) \cap Names(V[k].inj) = {}
  BY <1>2, <1>4, Zenon DEF Boxes
<1>7. \A id \in Ids : (\E j \in DOMAIN V : id \in Names(V[j].inj)) <=> v[id] = x
  BY <1>1, <1>2, <1>3 DEF Boxes
<1> QED BY <1>5, <1>6, <1>7, Zenon DEF Boxes, V

(* A number is sent ...                                                    *)
LEMMA BoxesNumber ==
  ASSUME NEW w, NEW x, NEW W \in Seq(Message), Boxes(w, x, W), NEW m \in Message, m.inj = <<>>
  PROVE  Boxes(w, x, Append(W, m))
<1> DEFINE V == Append(W, m)
<1>1. /\ Len(W) \in Nat /\ DOMAIN W = 1 .. Len(W) /\ DOMAIN V = 1 .. Len(W) + 1
      /\ V[Len(W) + 1] = m /\ \A k \in 1 .. Len(W) : V[k] = W[k]
  BY WireIs
<1> HIDE DEF V
<1>2. Distinct(m.inj) /\ Names(m.inj) = {}
  BY EmptyBox
<1>3. \A k \in DOMAIN V : k = Len(W) + 1 \/ k \in DOMAIN W
  BY <1>1
<1>4. \A k \in DOMAIN W : k \in DOMAIN V /\ V[k] = W[k]
  BY <1>1
<1>5. \A j \in DOMAIN V : Distinct(V[j].inj)
  BY <1>1, <1>2, <1>3, <1>4 DEF Boxes
<1>6. \A j, k \in DOMAIN V : j # k => Names(V[j].inj) \cap Names(V[k].inj) = {}
  BY <1>1, <1>2, <1>3, <1>4, Zenon DEF Boxes
<1>7. \A id \in Ids : (\E j \in DOMAIN V : id \in Names(V[j].inj)) <=> w[id] = x
  BY <1>1, <1>2, <1>3, <1>4 DEF Boxes
<1> QED BY <1>5, <1>6, <1>7, Zenon DEF Boxes, V

(* ... or taken.                                                           *)
LEMMA BoxesTaken ==
  ASSUME NEW w, NEW v, NEW x, NEW W \in Seq(Message), W # <<>>, Boxes(w, x, W),
         \A id \in Ids : v[id] = x <=> w[id] = x /\ id \notin Names(Head(W).inj)
  PROVE  Boxes(v, x, Tail(W))
<1> DEFINE V == Tail(W)
<1>1. /\ Len(W) \in Nat /\ DOMAIN W = 1 .. Len(W) /\ DOMAIN V = 1 .. Len(W) - 1 /\ Len(W) >= 1
      /\ Head(W) = W[1] /\ \A k \in 1 .. Len(W) - 1 : V[k] = W[k + 1]
  <2>1. W[1] \in Message
    BY WireIs
  <2> QED BY <2>1, WireIs
<1> HIDE DEF V
<1>2. /\ \A k \in DOMAIN V : k + 1 \in DOMAIN W /\ V[k] = W[k + 1] /\ k + 1 # 1
      /\ \A j, k \in DOMAIN V : j # k => j + 1 # k + 1
      /\ \A j \in DOMAIN W : j = 1 \/ (j - 1 \in DOMAIN V /\ V[j - 1] = W[j])
      /\ 1 \in DOMAIN W
  BY <1>1
<1>3. \A j \in DOMAIN V : Distinct(V[j].inj)
  BY <1>2 DEF Boxes
<1>4. ASSUME NEW j \in DOMAIN V, NEW k \in DOMAIN V, j # k
      PROVE  Names(V[j].inj) \cap Names(V[k].inj) = {}
  <2>1. j + 1 # k + 1 /\ j + 1 \in DOMAIN W /\ k + 1 \in DOMAIN W
    BY <1>2, <1>4
  <2>2. Names(W[j + 1].inj) \cap Names(W[k + 1].inj) = {}
    BY <2>1, Zenon DEF Boxes
  <2> QED BY <1>2, <2>2, Zenon
<1>5. ASSUME NEW id \in Ids
      PROVE  (\E j \in DOMAIN V : id \in Names(V[j].inj)) <=> v[id] = x
  <2>1. ASSUME NEW j \in DOMAIN V, id \in Names(V[j].inj)
        PROVE  v[id] = x
    <3>1. j + 1 \in DOMAIN W /\ V[j] = W[j + 1] /\ j + 1 # 1
      BY <1>2
    <3>2. w[id] = x
      BY <2>1, <3>1 DEF Boxes
    <3>3. Names(W[j + 1].inj) \cap Names(W[1].inj) = {}
      BY <1>2, <3>1, Zenon DEF Boxes
    <3> QED BY <1>1, <2>1, <3>1, <3>2, <3>3
  <2>2. ASSUME v[id] = x
        PROVE  \E j \in DOMAIN V : id \in Names(V[j].inj)
    <3>1. w[id] = x /\ id \notin Names(W[1].inj)
      BY <1>1, <2>2
    <3>2. PICK j \in DOMAIN W : id \in Names(W[j].inj)
      BY <3>1 DEF Boxes
    <3> QED BY <1>2, <3>1, <3>2
  <2> QED BY <2>1, <2>2
<1> QED BY <1>3, <1>4, <1>5, Zenon DEF Boxes, V

(* The first message's particles are there, each once.                     *)
LEMMA FirstMessage ==
  ASSUME NEW w, NEW x, NEW W \in Seq(Message), W # <<>>, Boxes(w, x, W)
  PROVE  Distinct(Head(W).inj) /\ \A id \in Ids : id \in Names(Head(W).inj) => w[id] = x
<1>1. 1 \in DOMAIN W /\ Head(W) = W[1]
  OBVIOUS
<1> QED BY <1>1 DEF Boxes

(* Injected particles are on the list of the species they name, the others *)
(* where they were.                                                        *)
Landed(r, w, v, inj) ==
  \A id \in Ids : IF id \in Names(inj) THEN \E s \in Species : v[id] = OnList(r, s) ELSE v[id] = w[id]

(* Injecting a message moves its particles to the lists of this rank.      *)
LEMMA InjectedLand ==
  ASSUME NEW r \in Rank, NEW a, NEW b, NEW inj \in Seq(Injector), Injected(r, a, inj, 0, b),
         NEW w \in [Ids -> Spots], \A s \in Species : Box(w, OnList(r, s), a.p[s]), Distinct(inj),
         \A id \in Ids : id \in Names(inj) => \A s \in Species : w[id] # OnList(r, s)
  PROVE  \E v \in [Ids -> Spots] :
           Landed(r, w, v, inj) /\ \A s \in Species : Box(v, OnList(r, s), b.p[s])
<1> DEFINE Sp(id) == CHOOSE s \in Species : id \in Addressed(inj, s, 0)
           v == [id \in Ids |-> IF id \in Names(inj) THEN OnList(r, Sp(id)) ELSE w[id]]
<1>1. \A j \in DOMAIN inj : j > 0 /\ inj[j].id \in Ids /\ inj[j].sp \in Species
  <2>1. \A j \in DOMAIN inj : inj[j] \in Injector /\ j > 0
    OBVIOUS
  <2> QED BY <2>1 DEF Injector
<1>2. Names(inj) \subseteq Ids
  BY <1>1 DEF Names
<1>3. /\ \A s : Addressed(inj, s, 0) \subseteq Names(inj)
      /\ \A id \in Names(inj) : \E s \in Species : id \in Addressed(inj, s, 0)
  BY <1>1 DEF Names, Addressed
<1>4. ASSUME NEW id, NEW s, NEW t, id \in Addressed(inj, s, 0), id \in Addressed(inj, t, 0)
      PROVE  s = t
  BY <1>4 DEF Distinct, Addressed
<1>5. \A id \in Names(inj) : Sp(id) \in Species /\ id \in Addressed(inj, Sp(id), 0)
  BY <1>3
<1> HIDE DEF Sp
<1>6. v \in [Ids -> Spots]
  BY <1>5 DEF Spots
<1>7. Landed(r, w, v, inj)
  BY <1>5 DEF Landed
<1>8. ASSUME NEW s \in Species
      PROVE  Box(v, OnList(r, s), b.p[s])
  <2>1. Names(b.p[s]) = Names(a.p[s]) \cup Addressed(inj, s, 0) /\ (Fresh(a, inj) => Distinct(b.p[s]))
    BY DEF Injected
  <2>2. Fresh(a, inj)
    <3>1. \A t \in Species : Distinct(a.p[t]) /\ \A id \in Ids : id \in Names(a.p[t]) <=> w[id] = OnList(r, t)
      BY DEF Box
    <3> QED BY <1>2, <3>1 DEF Fresh
  <2>3. ASSUME NEW id \in Ids
        PROVE  id \in Names(b.p[s]) <=> v[id] = OnList(r, s)
    <3>1. id \in Names(a.p[s]) <=> w[id] = OnList(r, s)
      BY DEF Box
    <3>2. CASE id \in Names(inj)
      <4>1. id \notin Names(a.p[s])
        BY <3>1, <3>2
      <4>2. v[id] = OnList(r, Sp(id)) /\ id \in Addressed(inj, Sp(id), 0)
        BY <1>5, <3>2
      <4>3. v[id] = OnList(r, s) <=> Sp(id) = s
        BY <4>2, SpotsDiffer
      <4>4. id \in Addressed(inj, s, 0) <=> Sp(id) = s
        BY <1>4, <4>2
      <4> QED BY <2>1, <4>1, <4>3, <4>4
    <3>3. CASE id \notin Names(inj)
      <4>1. v[id] = w[id] /\ id \notin Addressed(inj, s, 0)
        BY <1>3, <3>3
      <4> QED BY <2>1, <3>1, <4>1
    <3> QED BY <3>2, <3>3
  <2> QED BY <2>1, <2>2, <2>3 DEF Box
<1> QED BY <1>6, <1>7, <1>8

(* boundary_p moved particles of rank r between its lists and buffers.     *)
LEMMA RankMoves ==
  ASSUME Lists, NEW r \in Rank, NEW w, NEW v, Located(w, p, send, ci, wire, rhob, dropped),
         NEW P, NEW S, NEW C, NEW R, NEW D, Held(w, v, r, P, S, C, R, D),
         NEW W, \A q \in Rank, f \in Face : Boxes(w, OnWire(q, f), W[q][f])
  PROVE  Located(v, [p EXCEPT ![r] = P], [send EXCEPT ![r] = S], [ci EXCEPT ![r] = C], W, R, D)
<1>1. DOMAIN p = Rank /\ DOMAIN send = Rank /\ DOMAIN ci = Rank
  BY DEF Lists, Ranges
<1>2. /\ \A s \in Species : Box(v, OnList(r, s), P[s])
      /\ \A f \in Face : Box(v, InSend(r, f), S[f])
      /\ Box(v, InCi(r), C) /\ Ends(v, R, D)
      /\ \A id \in Ids : v[id] = w[id] \/ (w[id] \in Near(r) /\ v[id] \in Near(r))
  BY DEF Held
<1>3. ASSUME NEW x, x \notin Near(r)
      PROVE  \A id \in Ids : w[id] = x <=> v[id] = x
  BY <1>2, <1>3
<1>4. ASSUME NEW q \in Rank, NEW s
      PROVE  /\ OnWire(q, s) \notin Near(r)
             /\ q # r => OnList(q, s) \notin Near(r) /\ InSend(q, s) \notin Near(r) /\ InCi(q) \notin Near(r)
  BY SpotsDiffer DEF Near
<1>5. ASSUME NEW q \in Rank, NEW s \in Species
      PROVE  Box(v, OnList(q, s), [p EXCEPT ![r] = P][q][s])
  <2>1. Box(w, OnList(q, s), p[q][s])
    BY DEF Located
  <2>2. CASE q = r
    BY <1>1, <1>2, <2>2
  <2>3. CASE q # r
    <3>1. Box(v, OnList(q, s), p[q][s])
      BY <1>3, <1>4, <2>1, <2>3, BoxKeeps
    <3> QED BY <1>1, <2>3, <3>1
  <2> QED BY <2>2, <2>3
<1>6. ASSUME NEW q \in Rank, NEW f \in Face
      PROVE  Box(v, InSend(q, f), [send EXCEPT ![r] = S][q][f])
  <2>1. Box(w, InSend(q, f), send[q][f])
    BY DEF Located
  <2>2. CASE q = r
    BY <1>1, <1>2, <2>2
  <2>3. CASE q # r
    <3>1. Box(v, InSend(q, f), send[q][f])
      BY <1>3, <1>4, <2>1, <2>3, BoxKeeps
    <3> QED BY <1>1, <2>3, <3>1
  <2> QED BY <2>2, <2>3
<1>7. ASSUME NEW q \in Rank, NEW f \in Face
      PROVE  Boxes(v, OnWire(q, f), W[q][f])
  <2>1. Boxes(w, OnWire(q, f), W[q][f])
    OBVIOUS
  <2> QED BY <1>3, <1>4, <2>1, BoxesKeep
<1>8. ASSUME NEW q \in Rank
      PROVE  Box(v, InCi(q), [ci EXCEPT ![r] = C][q])
  <2>1. Box(w, InCi(q), ci[q])
    BY DEF Located
  <2>2. CASE q = r
    BY <1>1, <1>2, <2>2
  <2>3. CASE q # r
    <3>1. Box(v, InCi(q), ci[q])
      BY <1>3, <1>4, <2>1, <2>3, BoxKeeps
    <3> QED BY <1>1, <2>3, <3>1
  <2> QED BY <2>2, <2>3
<1> QED BY <1>2, <1>5, <1>6, <1>7, <1>8 DEF Located

(* Between rounds a rank has nothing loaded.                               *)
LEMMA NothingLoaded ==
  ASSUME Lists, Exchange, NEW r \in Rank, pc[r] \in {"begin", "leftover"},
         NEW w \in [Ids -> Spots], Located(w, p, send, ci, wire, rhob, dropped)
  PROVE  /\ send[r] = [f \in Face |-> <<>>] /\ ci[r] = <<>>
         /\ Held(w, w, r, p[r], [f \in Face |-> <<>>], <<>>, rhob, dropped)
<1>1. ASSUME NEW f \in Face
      PROVE  send[r][f] = <<>>
  <2>1. CASE shared(r, f)
    <3>1. SendStage(pc[r], face[r], f) = 0
      BY DEF SendStage
    <3>2. InStep(r, f)
      BY <2>1 DEF Exchange
    <3> QED BY <3>1, <3>2 DEF InStep, Channel
  <2>2. CASE ~shared(r, f)
    BY <2>2 DEF Exchange
  <2> QED BY <2>1, <2>2
<1>2. send[r] \in [Face -> Seq(Injector)]
  BY DEF Lists, Ranges
<1>3. send[r] = [f \in Face |-> <<>>]
  BY <1>1, <1>2
<1>4. ci[r] = <<>>
  BY DEF Exchange
<1> QED BY <1>3, <1>4 DEF Located, Held

(* A round begins: movers become injectors, or leave the grid.             *)
LEMMA BeginWhere ==
  ASSUME Lists, Exchange, Whereabouts, NEW r \in Rank, Begin(r)
  PROVE  Whereabouts'
<1> PICK back \in Draws(r) :
      LET out == LoadAll(r, back) IN
      /\ p' = [p EXCEPT ![r] = out.p]
      /\ ci' = [ci EXCEPT ![r] = out.ci]
      /\ send' = [send EXCEPT ![r] = out.send]
      /\ rhob' = out.rhob
      /\ dropped' = out.dropped
      /\ wire' = [wire EXCEPT ![r] = [f \in Face |->
           IF shared(r, f) THEN Append(@[f], CountMsg(Len(out.send[f]))) ELSE @[f]]]
  BY Zenon DEF Begin
<1> DEFINE out == LoadAll(r, back)
<1>1. pc[r] = "begin" /\ UNCHANGED given
  BY DEF Begin
<1>2. /\ Fixed /\ p[r] \in [Species -> Seq(Part)] /\ rhob \in [Ids -> Nat]
      /\ tally[r] \in [Species -> Nat] /\ met \in SUBSET Ids /\ dropped \in SUBSET Ids
      /\ wire \in [Rank -> [Face -> Seq(Message)]]
  BY DEF Lists, Ranges
<1>3. Loaded(r, out) /\ Kept(r, out)
  BY <1>2, ListsAre, LoadAllIs, Zenon
<1>4. out.send \in [Face -> Seq(Injector)]
  BY <1>3 DEF Loaded, Buffers
<1>5. /\ p' = [p EXCEPT ![r] = out.p] /\ ci' = [ci EXCEPT ![r] = out.ci]
      /\ send' = [send EXCEPT ![r] = out.send] /\ rhob' = out.rhob /\ dropped' = out.dropped
      /\ wire' = [wire EXCEPT ![r] = [f \in Face |->
           IF shared(r, f) THEN Append(wire[r][f], CountMsg(Len(out.send[f]))) ELSE wire[r][f]]]
  OBVIOUS
<1> HIDE DEF out
<1> PICK w \in [Ids -> Spots] : Located(w, p, send, ci, wire, rhob, dropped)
  BY DEF Whereabouts
<1>6. PICK v : Held(w, v, r, out.p, out.send, out.ci, out.rhob, out.dropped)
  <2>1. Held(w, w, r, p[r], [f \in Face |-> <<>>], <<>>, rhob, dropped)
    BY <1>1, NothingLoaded
  <2> QED BY <1>3, <2>1 DEF Kept, Follows
<1>7. v \in [Ids -> Spots]
  BY <1>6 DEF Held
<1>8. ASSUME NEW q \in Rank, NEW f \in Face
      PROVE  Boxes(w, OnWire(q, f), wire'[q][f])
  <2>1. Boxes(w, OnWire(q, f), wire[q][f]) /\ wire[q][f] \in Seq(Message)
    BY <1>2 DEF Located
  <2>2. CASE q = r /\ shared(r, f)
    <3>1. wire'[q][f] = Append(wire[q][f], CountMsg(Len(out.send[f])))
      BY <1>2, <1>5, <2>2
    <3>2. Len(out.send[f]) \in Nat
      BY <1>4
    <3>3. CountMsg(Len(out.send[f])) \in Message /\ CountMsg(Len(out.send[f])).inj = <<>>
      BY <3>2, MessagesAre, Zenon DEF IsCount
    <3> QED BY <2>1, <3>1, <3>3, BoxesNumber
  <2>3. CASE ~ (q = r /\ shared(r, f))
    <3>1. wire'[q][f] = wire[q][f]
      BY <1>2, <1>5, <2>3
    <3> QED BY <2>1, <3>1
  <2> QED BY <2>2, <2>3
<1>9. Located(v, p', send', ci', wire', rhob', dropped')
  <2>1. Located(v, [p EXCEPT ![r] = out.p], [send EXCEPT ![r] = out.send], [ci EXCEPT ![r] = out.ci],
                wire', out.rhob, out.dropped)
    BY <1>6, <1>8, RankMoves, Zenon
  <2>2. /\ p' = [p EXCEPT ![r] = out.p] /\ ci' = [ci EXCEPT ![r] = out.ci]
        /\ send' = [send EXCEPT ![r] = out.send] /\ rhob' = out.rhob /\ dropped' = out.dropped
    BY <1>5, Zenon
  <2> QED BY <2>1, <2>2, Zenon
<1> QED BY <1>1, <1>7, <1>9, LocatedNext, Zenon DEF given

(* Those left over are accumulated to rhob.                                *)
LEMMA RemoveWhere ==
  ASSUME Lists, Exchange, Whereabouts, NEW r \in Rank, RemoveUnprocessed(r)
  PROVE  Whereabouts'
<1> DEFINE out == DropAll(r)
           S == [f \in Face |-> <<>>]
<1>1. /\ pc[r] = "leftover" /\ UNCHANGED given /\ UNCHANGED <<ci, dropped>> /\ UNCHANGED ports
      /\ p' = [p EXCEPT ![r] = out.p] /\ rhob' = out.rhob
  BY DEF RemoveUnprocessed
<1>2. /\ Fixed /\ p[r] \in [Species -> Seq(Part)] /\ rhob \in [Ids -> Nat]
      /\ send \in [Rank -> [Face -> Seq(Injector)]] /\ ci \in [Rank -> Seq(Injector)]
  BY DEF Lists, Ranges
<1>3. RestKept(r, out)
  BY <1>2, ListsAre, DropAllIs, Zenon
<1> HIDE DEF out
<1> PICK w \in [Ids -> Spots] : Located(w, p, send, ci, wire, rhob, dropped)
  BY DEF Whereabouts
<1>4. send[r] = S /\ ci[r] = <<>> /\ Held(w, w, r, p[r], S, <<>>, rhob, dropped)
  BY <1>1, NothingLoaded
<1>5. PICK v : Held(w, v, r, out.p, S, <<>>, out.rhob, dropped)
  BY <1>3, <1>4 DEF RestKept, Follows
<1>6. v \in [Ids -> Spots]
  BY <1>5 DEF Held
<1>7. \A q \in Rank, f \in Face : Boxes(w, OnWire(q, f), wire[q][f])
  BY DEF Located
<1> HIDE DEF S
<1>8. Located(v, [p EXCEPT ![r] = out.p], [send EXCEPT ![r] = S], [ci EXCEPT ![r] = <<>>], wire,
              out.rhob, dropped)
  BY <1>5, <1>7, RankMoves
<1>9. [send EXCEPT ![r] = S] = send' /\ [ci EXCEPT ![r] = <<>>] = ci' /\ wire' = wire
  BY <1>1, <1>2, <1>4 DEF ports
<1>10. Located(v, p', send', ci', wire', rhob', dropped')
  BY <1>1, <1>8, <1>9, Zenon
<1> QED BY <1>1, <1>6, <1>10, LocatedNext, Zenon DEF given

(* Taking a number moves nobody.                                           *)
LEMMA EndRecvCountWhere ==
  ASSUME Lists, Exchange, Whereabouts, NEW r \in Rank, EndRecvCount(r)
  PROVE  Whereabouts'
<1> DEFINE f == face[r]
           n == bc(r, f)
           g == Port(f)
<1>1. /\ pc[r] = "count" /\ f < 6 /\ Arrived(r, f) # <<>> /\ wire' = Received(r, f)
      /\ UNCHANGED given /\ UNCHANGED local /\ UNCHANGED send
  BY DEF EndRecvCount, At
<1>2. /\ Fixed /\ face \in [Rank -> 0..6] /\ wire \in [Rank -> [Face -> Seq(Message)]]
  BY DEF Lists, Controls, Ranges
<1>3. f \in Face /\ shared(r, f)
  <2>1. f \in Face
    BY <1>1, <1>2 DEF Face
  <2> QED BY <1>1, <2>1 DEF Lists, Controls, Follow
<1>4. Head(Arrived(r, f)).inj = <<>>
  BY EndRecvCountExchange
<1> HIDE DEF f
<1>5. n \in Rank /\ g \in Face /\ Arrived(r, f) = wire[n][g] /\ wire[n][g] \in Seq(Message)
  BY <1>3, ArrivedIs
<1> PICK w \in [Ids -> Spots] : Located(w, p, send, ci, wire, rhob, dropped)
  BY DEF Whereabouts
<1>6. wire' = [wire EXCEPT ![n][g] = Tail(wire[n][g])]
  BY <1>1 DEF Received
<1> HIDE DEF n, g
<1>7. ASSUME NEW q \in Rank, NEW e \in Face
      PROVE  Boxes(w, OnWire(q, e), wire'[q][e])
  <2>1. Boxes(w, OnWire(q, e), wire[q][e])
    BY DEF Located
  <2>2. CASE q = n /\ e = g
    <3>1. wire'[q][e] = Tail(wire[q][e])
      BY <1>2, <1>5, <1>6, <2>2
    <3>2. Names(Head(wire[q][e]).inj) = {}
      BY <1>4, <1>5, <2>2, EmptyBox
    <3>3. wire[q][e] # <<>> /\ wire[q][e] \in Seq(Message)
      BY <1>1, <1>5, <2>2
    <3>4. \A id \in Ids :
            w[id] = OnWire(q, e) <=> w[id] = OnWire(q, e) /\ id \notin Names(Head(wire[q][e]).inj)
      BY <3>2
    <3> QED BY <2>1, <3>1, <3>3, <3>4, BoxesTaken
  <2>3. CASE ~ (q = n /\ e = g)
    <3>1. wire'[q][e] = wire[q][e]
      BY <1>2, <1>5, <1>6, <2>3
    <3> QED BY <2>1, <3>1
  <2> QED BY <2>2, <2>3
<1>8. Located(w, p', send', ci', wire', rhob', dropped')
  <2>1. UNCHANGED <<p, send, ci, rhob, dropped>>
    BY <1>1 DEF local
  <2> QED BY <1>7, <2>1 DEF Located
<1> QED BY <1>1, <1>8, LocatedNext DEF given

(* The injectors loaded for a face go into a message.                      *)
LEMMA EndSendCountWhere ==
  ASSUME Lists, Whereabouts, NEW r \in Rank, EndSendCount(r)
  PROVE  Whereabouts'
<1> DEFINE f == face[r]
           L == send[r][f]
           x == InSend(r, f)
           y == OnWire(r, f)
<1>1. /\ pc[r] = "data" /\ f < 6
      /\ wire' = [wire EXCEPT ![r][f] = Append(@, DataMsg(L))] /\ send' = [send EXCEPT ![r][f] = <<>>]
      /\ UNCHANGED given /\ UNCHANGED local
  BY DEF EndSendCount, At
<1>2. /\ Fixed /\ face \in [Rank -> 0..6] /\ wire \in [Rank -> [Face -> Seq(Message)]]
      /\ send \in [Rank -> [Face -> Seq(Injector)]]
  BY DEF Lists, Controls, Ranges
<1>3. f \in Face
  BY <1>1, <1>2 DEF Face
<1> HIDE DEF f
<1>4. L \in Seq(Injector) /\ wire[r][f] \in Seq(Message) /\ DataMsg(L) \in Message /\ DataMsg(L).inj = L
  BY <1>2, <1>3, MessagesAre, Zenon
<1> PICK w \in [Ids -> Spots] : Located(w, p, send, ci, wire, rhob, dropped)
  BY DEF Whereabouts
<1> DEFINE v == [id \in Ids |-> IF w[id] = x THEN y ELSE w[id]]
<1>5. v \in [Ids -> Spots]
  BY <1>3 DEF Spots
<1>6. /\ Distinct(L) /\ \A id \in Ids : id \in Names(L) <=> w[id] = x
      /\ Names(L) \subseteq Ids
  <2>1. Box(w, x, L)
    BY <1>3 DEF Located
  <2>2. \A j \in DOMAIN L : L[j].id \in Ids
    <3>1. \A j \in DOMAIN L : L[j] \in Injector
      BY <1>4
    <3> QED BY <3>1 DEF Injector
  <2> QED BY <2>1, <2>2 DEF Box, Names
<1>7. x # y
  BY SpotsDiffer
<1>8. \A z : z # x /\ z # y => \A id \in Ids : w[id] = z <=> v[id] = z
  OBVIOUS
<1>9. \A id \in Ids : v[id] # x /\ (v[id] = y <=> w[id] = y \/ id \in Names(L))
  BY <1>6, <1>7
<1> HIDE DEF v, L
<1>10. ASSUME NEW q \in Rank, NEW s \in Species
       PROVE  Box(v, OnList(q, s), p[q][s])
  <2>1. Box(w, OnList(q, s), p[q][s]) /\ OnList(q, s) # x /\ OnList(q, s) # y
    BY SpotsDiffer DEF Located
  <2> QED BY <1>8, <2>1, BoxKeeps
<1>11. ASSUME NEW q \in Rank
       PROVE  Box(v, InCi(q), ci[q])
  <2>1. Box(w, InCi(q), ci[q]) /\ InCi(q) # x /\ InCi(q) # y
    BY SpotsDiffer DEF Located
  <2> QED BY <1>8, <2>1, BoxKeeps
<1>12. Ends(v, rhob, dropped)
  <2>1. AtRhob # x /\ AtRhob # y /\ Gone # x /\ Gone # y
    BY SpotsDiffer
  <2>2. \A id \in Ids : (w[id] = AtRhob <=> v[id] = AtRhob) /\ (w[id] = Gone <=> v[id] = Gone)
    BY <1>8, <2>1
  <2> QED BY <2>2 DEF Located, Ends
<1>13. ASSUME NEW q \in Rank, NEW e \in Face
       PROVE  Box(v, InSend(q, e), send'[q][e])
  <2>1. CASE q = r /\ e = f
    <3>1. send'[q][e] = <<>>
      BY <1>1, <1>2, <1>3, <2>1
    <3> QED BY <1>9, <2>1, <3>1, EmptyBox DEF Box
  <2>2. CASE ~ (q = r /\ e = f)
    <3>1. send'[q][e] = send[q][e]
      BY <1>1, <1>2, <1>3, <2>2
    <3>2. Box(w, InSend(q, e), send[q][e]) /\ InSend(q, e) # x /\ InSend(q, e) # y
      BY <2>2, SpotsDiffer DEF Located
    <3> QED BY <1>8, <3>1, <3>2, BoxKeeps, Zenon
  <2> QED BY <2>1, <2>2
<1>14. ASSUME NEW q \in Rank, NEW e \in Face
       PROVE  Boxes(v, OnWire(q, e), wire'[q][e])
  <2>1. Boxes(w, OnWire(q, e), wire[q][e])
    BY DEF Located
  <2>2. CASE q = r /\ e = f
    <3>1. wire'[q][e] = Append(wire[r][f], DataMsg(L))
      BY <1>1, <1>2, <1>3, <2>2
    <3>2. \A id \in Ids : id \in Names(L) => w[id] # y
      BY <1>6, <1>7
    <3>3. Boxes(v, y, Append(wire[r][f], DataMsg(L)))
      <4> DEFINE m == DataMsg(L)
      <4>1. m \in Message /\ m.inj = L /\ wire[r][f] \in Seq(Message) /\ Boxes(w, y, wire[r][f])
        BY <1>4, <2>1, <2>2
      <4>2. /\ Distinct(m.inj) /\ \A id \in Ids : id \in Names(m.inj) => w[id] # y
            /\ Names(m.inj) \subseteq Ids
            /\ \A id \in Ids : v[id] = y <=> w[id] = y \/ id \in Names(m.inj)
        BY <1>6, <1>9, <3>2, <4>1
      <4> HIDE DEF m, y
      <4>3. Boxes(v, y, Append(wire[r][f], m))
        BY <4>1, <4>2, BoxesSent
      <4> QED BY <4>3 DEF m
    <3> QED BY <2>2, <3>1, <3>3
  <2>3. CASE ~ (q = r /\ e = f)
    <3>1. wire'[q][e] = wire[q][e]
      BY <1>1, <1>2, <1>3, <2>3
    <3>2. OnWire(q, e) # x /\ OnWire(q, e) # y
      BY <2>3, SpotsDiffer
    <3> QED BY <1>8, <2>1, <3>1, <3>2, BoxesKeep
  <2> QED BY <2>2, <2>3
<1>15. Located(v, p', send', ci', wire', rhob', dropped')
  <2>1. UNCHANGED <<p, ci, rhob, dropped>>
    BY <1>1 DEF local
  <2> QED BY <1>10, <1>11, <1>12, <1>13, <1>14, <2>1 DEF Located
<1> QED BY <1>1, <1>5, <1>15, LocatedNext, Zenon DEF given

(* Nobody else moved, and those that did were at x.                        *)
LEMMA OthersStay ==
  ASSUME NEW r, NEW w, NEW v, NEW inj, Landed(r, w, v, inj), NEW x,
         \A id \in Ids : id \in Names(inj) => w[id] = x, \A s : x # OnList(r, s)
  PROVE  /\ \A z : z # x /\ (\A s : z # OnList(r, s)) => \A id \in Ids : w[id] = z <=> v[id] = z
         /\ \A id \in Ids : v[id] = x <=> w[id] = x /\ id \notin Names(inj)
<1>1. ASSUME NEW id \in Ids, id \in Names(inj)
      PROVE  w[id] = x /\ \E s \in Species : v[id] = OnList(r, s)
  BY <1>1 DEF Landed
<1>2. ASSUME NEW id \in Ids, id \notin Names(inj)
      PROVE  v[id] = w[id]
  BY <1>2 DEF Landed
<1> QED BY <1>1, <1>2

(* The local injectors go onto the lists.                                  *)
LEMMA ResizeWhere ==
  ASSUME Lists, Whereabouts, NEW r \in Rank, ResizeInjectLocal(r)
  PROVE  Whereabouts'
<1> DEFINE a == [p |-> p[r], pm |-> pm[r]]
           out == InjectAll(r, a, ci[r])
           x == InCi(r)
<1>1. /\ p' = [p EXCEPT ![r] = out.p] /\ ci' = [ci EXCEPT ![r] = <<>>]
      /\ UNCHANGED given /\ UNCHANGED <<rhob, dropped>> /\ UNCHANGED ports
  BY DEF ResizeInjectLocal
<1>2. Fixed /\ p \in [Rank -> [Species -> Seq(Part)]] /\ ci \in [Rank -> Seq(Injector)]
  BY DEF Lists, Ranges
<1>3. Injected(r, a, ci[r], 0, out)
  BY <1>2, ListsAre, InjectAllIs, Zenon
<1> HIDE DEF out
<1> PICK w \in [Ids -> Spots] : Located(w, p, send, ci, wire, rhob, dropped)
  BY DEF Whereabouts
<1>4. Box(w, x, ci[r])
  BY DEF Located
<1>5. Distinct(ci[r]) /\ \A id \in Ids : id \in Names(ci[r]) <=> w[id] = x
  BY <1>4 DEF Box
<1>6. \A s : x # OnList(r, s)
  BY SpotsDiffer
<1>7. PICK v \in [Ids -> Spots] :
        Landed(r, w, v, ci[r]) /\ \A s \in Species : Box(v, OnList(r, s), out.p[s])
  <2>1. \A s \in Species : Box(w, OnList(r, s), a.p[s])
    BY DEF Located
  <2>2. \A id \in Ids : id \in Names(ci[r]) => \A s \in Species : w[id] # OnList(r, s)
    BY <1>5, <1>6
  <2>3. ci[r] \in Seq(Injector)
    BY <1>2
  <2> HIDE DEF a
  <2> QED BY <1>3, <1>5, <2>1, <2>2, <2>3, InjectedLand
<1>8. /\ \A z : z # x /\ (\A s : z # OnList(r, s)) => \A id \in Ids : w[id] = z <=> v[id] = z
      /\ \A id \in Ids : v[id] = x <=> w[id] = x /\ id \notin Names(ci[r])
  BY <1>5, <1>6, <1>7, OthersStay
<1>9. ASSUME NEW q \in Rank, NEW s \in Species
      PROVE  Box(v, OnList(q, s), p'[q][s])
  <2>1. CASE q = r
    BY <1>1, <1>2, <1>7, <2>1
  <2>2. CASE q # r
    <3>1. p'[q][s] = p[q][s] /\ Box(w, OnList(q, s), p[q][s])
      BY <1>1, <1>2, <2>2 DEF Located
    <3>2. OnList(q, s) # x /\ \A t : OnList(q, s) # OnList(r, t)
      BY <2>2, SpotsDiffer
    <3> QED BY <1>8, <3>1, <3>2, BoxKeeps
  <2> QED BY <2>1, <2>2
<1>10. ASSUME NEW q \in Rank
       PROVE  Box(v, InCi(q), ci'[q])
  <2>1. CASE q = r
    <3>1. ci'[q] = <<>> /\ \A id \in Ids : v[id] # x
      BY <1>1, <1>2, <1>5, <1>8, <2>1
    <3> QED BY <2>1, <3>1, EmptyBox DEF Box
  <2>2. CASE q # r
    <3>1. ci'[q] = ci[q] /\ Box(w, InCi(q), ci[q])
      BY <1>1, <1>2, <2>2 DEF Located
    <3>2. InCi(q) # x /\ \A t : InCi(q) # OnList(r, t)
      BY <2>2, SpotsDiffer
    <3> QED BY <1>8, <3>1, <3>2, BoxKeeps
  <2> QED BY <2>1, <2>2
<1>11. ASSUME NEW q \in Rank, NEW e \in Face
       PROVE  Box(v, InSend(q, e), send[q][e]) /\ Boxes(v, OnWire(q, e), wire[q][e])
  <2>1. Box(w, InSend(q, e), send[q][e]) /\ Boxes(w, OnWire(q, e), wire[q][e])
    BY DEF Located
  <2>2. /\ InSend(q, e) # x /\ \A t : InSend(q, e) # OnList(r, t)
        /\ OnWire(q, e) # x /\ \A t : OnWire(q, e) # OnList(r, t)
    BY SpotsDiffer
  <2> QED BY <1>8, <2>1, <2>2, BoxKeeps, BoxesKeep
<1>12. Ends(v, rhob, dropped)
  <2>1. /\ AtRhob # x /\ Gone # x /\ \A t : AtRhob # OnList(r, t) /\ Gone # OnList(r, t)
    BY SpotsDiffer
  <2>2. \A id \in Ids : (w[id] = AtRhob <=> v[id] = AtRhob) /\ (w[id] = Gone <=> v[id] = Gone)
    BY <1>8, <2>1
  <2> QED BY <2>2 DEF Located, Ends
<1>13. Located(v, p', send', ci', wire', rhob', dropped')
  <2>1. UNCHANGED <<send, wire, rhob, dropped>>
    BY <1>1 DEF ports
  <2> QED BY <1>9, <1>10, <1>11, <1>12, <2>1 DEF Located
<1> QED BY <1>1, <1>13, LocatedNext, Zenon DEF given

(* Those of a message go onto the lists.                                   *)
LEMMA EndRecvDataWhere ==
  ASSUME Lists, Exchange, Whereabouts, NEW r \in Rank, EndRecvData(r)
  PROVE  Whereabouts'
<1> DEFINE f == face[r]
           n == bc(r, f)
           g == Port(f)
           m == Head(Arrived(r, f))
           a == [p |-> p[r], pm |-> pm[r]]
           out == InjectAll(r, a, m.inj)
           x == OnWire(n, g)
<1>1. /\ pc[r] = "inject" /\ f < 6 /\ Arrived(r, f) # <<>> /\ wire' = Received(r, f)
      /\ UNCHANGED given /\ UNCHANGED <<ci, send, rhob, dropped>>
      /\ m.sz = posted[r][f] => p' = [p EXCEPT ![r] = out.p]
  BY DEF EndRecvData, At
<1>2. /\ Fixed /\ face \in [Rank -> 0..6] /\ p \in [Rank -> [Species -> Seq(Part)]]
      /\ wire \in [Rank -> [Face -> Seq(Message)]]
  BY DEF Lists, Controls, Ranges
<1>3. f \in Face /\ shared(r, f)
  <2>1. f \in Face
    BY <1>1, <1>2 DEF Face
  <2> QED BY <1>1, <2>1 DEF Lists, Controls, Follow
<1>4. p' = [p EXCEPT ![r] = out.p]
  BY <1>1, EndRecvDataExchange
<1> HIDE DEF f
<1>5. /\ n \in Rank /\ g \in Face /\ Arrived(r, f) = wire[n][g] /\ wire[n][g] \in Seq(Message)
      /\ m \in Message
  BY <1>1, <1>3, ArrivedIs
<1>6. m.inj \in Seq(Injector) /\ m = Head(wire[n][g])
  BY <1>5 DEF Message
<1>7. wire' = [wire EXCEPT ![n][g] = Tail(wire[n][g])]
  BY <1>1 DEF Received
<1> HIDE DEF n, g, m
<1>8. Injected(r, a, m.inj, 0, out)
  BY <1>2, <1>6, ListsAre, InjectAllIs, Zenon
<1> HIDE DEF out
<1> PICK w \in [Ids -> Spots] : Located(w, p, send, ci, wire, rhob, dropped)
  BY DEF Whereabouts
<1>9. Distinct(m.inj) /\ \A id \in Ids : id \in Names(m.inj) => w[id] = x
  <2>1. Boxes(w, x, wire[n][g]) /\ wire[n][g] # <<>>
    BY <1>1, <1>5 DEF Located
  <2> HIDE DEF x
  <2> QED BY <1>5, <1>6, <2>1, FirstMessage
<1>10. \A s : x # OnList(r, s)
  BY SpotsDiffer
<1>11. PICK v \in [Ids -> Spots] :
         Landed(r, w, v, m.inj) /\ \A s \in Species : Box(v, OnList(r, s), out.p[s])
  <2>1. \A s \in Species : Box(w, OnList(r, s), a.p[s])
    BY DEF Located
  <2>2. \A id \in Ids : id \in Names(m.inj) => \A s \in Species : w[id] # OnList(r, s)
    BY <1>9, <1>10
  <2> HIDE DEF a
  <2> QED BY <1>6, <1>8, <1>9, <2>1, <2>2, InjectedLand
<1>12. /\ \A z : z # x /\ (\A s : z # OnList(r, s)) => \A id \in Ids : w[id] = z <=> v[id] = z
       /\ \A id \in Ids : v[id] = x <=> w[id] = x /\ id \notin Names(m.inj)
  BY <1>9, <1>10, <1>11, OthersStay
<1>13. ASSUME NEW q \in Rank, NEW s \in Species
       PROVE  Box(v, OnList(q, s), p'[q][s])
  <2>1. CASE q = r
    BY <1>2, <1>4, <1>11, <2>1
  <2>2. CASE q # r
    <3>1. p'[q][s] = p[q][s] /\ Box(w, OnList(q, s), p[q][s])
      BY <1>2, <1>4, <2>2 DEF Located
    <3>2. OnList(q, s) # x /\ \A t : OnList(q, s) # OnList(r, t)
      BY <2>2, SpotsDiffer
    <3> QED BY <1>12, <3>1, <3>2, BoxKeeps
  <2> QED BY <2>1, <2>2
<1>14. ASSUME NEW q \in Rank
       PROVE  Box(v, InCi(q), ci[q])
  <2>1. Box(w, InCi(q), ci[q]) /\ InCi(q) # x /\ \A t : InCi(q) # OnList(r, t)
    BY SpotsDiffer, Zenon DEF Located
  <2> QED BY <1>12, <2>1, BoxKeeps
<1>15. ASSUME NEW q \in Rank, NEW e \in Face
       PROVE  Box(v, InSend(q, e), send[q][e])
  <2>1. Box(w, InSend(q, e), send[q][e])
    BY DEF Located
  <2>2. InSend(q, e) # x /\ \A t : InSend(q, e) # OnList(r, t)
    BY SpotsDiffer
  <2> QED BY <1>12, <2>1, <2>2, BoxKeeps
<1>16. ASSUME NEW q \in Rank, NEW e \in Face
       PROVE  Boxes(v, OnWire(q, e), wire'[q][e])
  <2>1. Boxes(w, OnWire(q, e), wire[q][e])
    BY DEF Located
  <2>2. CASE q = n /\ e = g
    <3>1. /\ wire'[q][e] = Tail(wire[q][e]) /\ wire[q][e] # <<>> /\ wire[q][e] \in Seq(Message)
          /\ m = Head(wire[q][e]) /\ x = OnWire(q, e)
      BY <1>1, <1>2, <1>5, <1>6, <1>7, <2>2
    <3>2. \A id \in Ids : v[id] = x <=> w[id] = x /\ id \notin Names(Head(wire[q][e]).inj)
      BY <1>12, <3>1
    <3> HIDE DEF x
    <3> QED BY <2>1, <3>1, <3>2, BoxesTaken
  <2>3. CASE ~ (q = n /\ e = g)
    <3>1. wire'[q][e] = wire[q][e]
      BY <1>2, <1>5, <1>7, <2>3
    <3>2. OnWire(q, e) # x /\ \A t : OnWire(q, e) # OnList(r, t)
      BY <2>3, SpotsDiffer
    <3> QED BY <1>12, <2>1, <3>1, <3>2, BoxesKeep
  <2> QED BY <2>2, <2>3
<1>17. Ends(v, rhob, dropped)
  <2>1. /\ AtRhob # x /\ Gone # x /\ \A t : AtRhob # OnList(r, t) /\ Gone # OnList(r, t)
    BY SpotsDiffer
  <2>2. \A id \in Ids : (w[id] = AtRhob <=> v[id] = AtRhob) /\ (w[id] = Gone <=> v[id] = Gone)
    BY <1>12, <2>1
  <2> QED BY <2>2 DEF Located, Ends
<1>18. Located(v, p', send', ci', wire', rhob', dropped')
  <2>1. UNCHANGED <<ci, send, rhob, dropped>>
    BY <1>1
  <2> QED BY <1>13, <1>14, <1>15, <1>16, <1>17, <2>1 DEF Located
<1> QED BY <1>1, <1>11, <1>18, LocatedNext DEF given

(* The other steps move nobody.                                            *)
LEMMA StillWhere ==
  ASSUME Whereabouts, UNCHANGED <<setting, derived>>, UNCHANGED <<p, send, ci, wire, rhob, dropped>>
  PROVE  Whereabouts'
<1> PICK w \in [Ids -> Spots] : Located(w, p, send, ci, wire, rhob, dropped)
  BY DEF Whereabouts
<1>1. Located(w, p', send', ci', wire', rhob', dropped')
  OBVIOUS
<1> QED BY <1>1, LocatedNext

(* Every step leaves every particle in one place.                          *)
LEMMA NextWhere ==
  ASSUME Lists, Exchange, Whereabouts, [Next]_vars
  PROVE  Whereabouts'
<1>1. ASSUME NEW r \in Rank, Step(r)
      PROVE  Whereabouts'
  <2>1. CASE EndSendData(r) \/ EndLoop(r) \/ Return(r)
    BY <2>1, StillWhere DEF EndSendData, EndLoop, Return, given, local, ports
  <2> QED BY <1>1, <2>1, BeginWhere, EndRecvCountWhere, EndSendCountWhere, ResizeWhere, EndRecvDataWhere,
             RemoveWhere DEF Step
<1>2. UNCHANGED vars => Whereabouts'
  BY StillWhere DEF vars, given, local, ports
<1> QED BY <1>1, <1>2 DEF Next, Finished

(* At first every particle is on the list it was loaded on.                *)
LEMMA InitWhere ==
  ASSUME Init
  PROVE  Whereabouts
<1>1. /\ Fixed /\ track \in [Ids -> Seq(Face)]
      /\ p = [r \in Rank |-> [s \in Species |-> StartP(r, s, track)]]
  BY InitIs
<1>2. /\ LoadIsLegal(setting) /\ Rank = Ranks(Deck) /\ Species = SpeciesOf(setting) /\ Ids = NamesOf(setting)
  BY <1>1, FixedIs
<1>3. ASSUME NEW r \in Rank, NEW s \in Species
      PROVE  /\ DOMAIN p[r][s] = DOMAIN Load[r][s]
             /\ \A k \in DOMAIN Load[r][s] : p[r][s][k].id = Load[r][s][k].id
  <2>1. p[r][s] = StartP(r, s, track)
    BY <1>1
  <2> QED BY <1>1, <2>1, StartListed
<1>4. ASSUME NEW r1 \in Rank, NEW s1 \in Species, NEW r2 \in Rank, NEW s2 \in Species,
             NEW j \in DOMAIN p[r1][s1], NEW k \in DOMAIN p[r2][s2], p[r1][s1][j].id = p[r2][s2][k].id
      PROVE  r1 = r2 /\ s1 = s2 /\ j = k
  <2>1. \A x1, x2 \in Ranks(Deck), y1, y2 \in SpeciesOf(setting) :
          \A a \in DOMAIN Load[x1][y1], b \in DOMAIN Load[x2][y2] :
            Load[x1][y1][a].id = Load[x2][y2][b].id => x1 = x2 /\ y1 = y2 /\ a = b
    BY <1>2, Zenon DEF LoadIsLegal, Load, Deck
  <2>2. j \in DOMAIN Load[r1][s1] /\ k \in DOMAIN Load[r2][s2]
    BY <1>3
  <2>3. Load[r1][s1][j].id = Load[r2][s2][k].id
    BY <1>3, <1>4, <2>2
  <2>4. r1 \in Ranks(Deck) /\ r2 \in Ranks(Deck) /\ s1 \in SpeciesOf(setting) /\ s2 \in SpeciesOf(setting)
    BY <1>2
  <2>5. \A a \in DOMAIN Load[r1][s1], b \in DOMAIN Load[r2][s2] :
          Load[r1][s1][a].id = Load[r2][s2][b].id => r1 = r2 /\ s1 = s2 /\ a = b
    BY <2>1, <2>4
  <2> QED BY <2>2, <2>3, <2>5
<1>5. ASSUME NEW id \in Ids
      PROVE  \E r \in Rank, s \in Species : id \in Names(p[r][s])
  <2>1. PICK r \in Rank, s \in Species : \E k \in DOMAIN Load[r][s] : Load[r][s][k].id = id
    BY <1>2 DEF NamesOf, Load, Deck
  <2> QED BY <1>3, <2>1 DEF Names
<1> DEFINE At0(id, x) == \E r \in Rank, s \in Species : x = OnList(r, s) /\ id \in Names(p[r][s])
           w == [id \in Ids |-> CHOOSE x \in Spots : At0(id, x)]
<1>6. /\ w \in [Ids -> Spots]
      /\ \A id \in Ids : \E r \in Rank, s \in Species : w[id] = OnList(r, s) /\ id \in Names(p[r][s])
  <2>1. \A id \in Ids : \E x \in Spots : At0(id, x)
    BY <1>5 DEF Spots
  <2> HIDE DEF At0
  <2>2. \A id \in Ids : w[id] \in Spots /\ At0(id, w[id])
    BY <2>1
  <2> QED BY <2>2 DEF At0
<1> HIDE DEF w, At0
<1>7. ASSUME NEW id \in Ids, NEW r \in Rank, NEW s \in Species
      PROVE  id \in Names(p[r][s]) <=> w[id] = OnList(r, s)
  <2>1. PICK q \in Rank, t \in Species : w[id] = OnList(q, t) /\ id \in Names(p[q][t])
    BY <1>6
  <2>2. ASSUME id \in Names(p[r][s])
        PROVE  q = r /\ t = s
    BY <1>4, <2>1, <2>2 DEF Names
  <2>3. w[id] = OnList(r, s) => q = r /\ t = s
    <3>1. OnList(q, t) = OnList(r, s) => q = r /\ t = s
      BY SpotsDiffer
    <3> QED BY <2>1, <3>1
  <2> QED BY <2>1, <2>2, <2>3
<1>9. ASSUME NEW id \in Ids
      PROVE  /\ \A q, e : w[id] # InSend(q, e) /\ w[id] # OnWire(q, e) /\ w[id] # InCi(q)
             /\ w[id] # AtRhob /\ w[id] # Gone
  <2>1. PICK q \in Rank, t \in Species : w[id] = OnList(q, t)
    BY <1>6
  <2> QED BY <2>1, SpotsDiffer
<1>10. ASSUME NEW r \in Rank, NEW s \in Species
       PROVE  Box(w, OnList(r, s), p[r][s])
  BY <1>4, <1>7 DEF Box, Distinct
<1>11. /\ ci = [r \in Rank |-> <<>>] /\ send = [r \in Rank |-> [f \in Face |-> <<>>]]
       /\ wire = [r \in Rank |-> [f \in Face |-> <<>>]]
       /\ rhob = [x \in Ids |-> 0] /\ dropped = {}
  BY Zenon DEF Init
<1>12. ASSUME NEW r \in Rank
       PROVE  /\ Box(w, InCi(r), ci[r])
              /\ \A f \in Face : Box(w, InSend(r, f), send[r][f]) /\ Boxes(w, OnWire(r, f), wire[r][f])
  <2>1. ci[r] = <<>> /\ \A f \in Face : send[r][f] = <<>> /\ wire[r][f] = <<>>
    BY <1>11
  <2>2. ASSUME NEW x, \A id \in Ids : w[id] # x
        PROVE  Box(w, x, <<>>) /\ Boxes(w, x, <<>>)
    <3>1. Box(w, x, <<>>)
      BY <2>2, EmptyBox DEF Box
    <3>2. Boxes(w, x, <<>>)
      BY <2>2 DEF Boxes
    <3> QED BY <3>1, <3>2
  <2>3. Box(w, InCi(r), <<>>)
    BY <1>9, <2>2
  <2>4. \A f \in Face : Box(w, InSend(r, f), <<>>) /\ Boxes(w, OnWire(r, f), <<>>)
    BY <1>9, <2>2
  <2> QED BY <2>1, <2>3, <2>4, Zenon
<1>13. Ends(w, rhob, dropped)
  BY <1>9, <1>11 DEF Ends
<1> QED BY <1>6, <1>10, <1>12, <1>13 DEF Whereabouts, Located

(* Every particle is in one place, always.                                 *)
LEMMA WhereAlways == Spec => []Whereabouts
<1>1. Init => Whereabouts
  BY InitWhere
<1>2. Lists /\ Exchange /\ Whereabouts /\ [Next]_vars => Whereabouts'
  BY NextWhere
<1> QED BY <1>1, <1>2, ListsAlways, ExchangeAlways, PTL DEF Spec

(* A list that is where a particle is holds it once, another does not.     *)
LEMMA OneHolder ==
  ASSUME NEW w, NEW x, NEW seq, Box(w, x, seq), NEW id \in Ids
  PROVE  /\ w[id] = x => \E k : HeldIn(seq, id) = {k}
         /\ w[id] # x => HeldIn(seq, id) = {}
<1>1. /\ \A j, k \in DOMAIN seq : seq[j].id = seq[k].id => j = k
      /\ (\E k \in DOMAIN seq : seq[k].id = id) <=> w[id] = x
  BY DEF Box, Distinct, Names
<1>2. CASE w[id] = x
  <2>1. PICK k \in DOMAIN seq : seq[k].id = id
    BY <1>1, <1>2
  <2>2. HeldIn(seq, id) = {k}
    BY <1>1, <2>1 DEF HeldIn
  <2> QED BY <1>2, <2>2
<1>3. CASE w[id] # x
  BY <1>1, <1>3 DEF HeldIn
<1> QED BY <1>2, <1>3

(* And one message, if it is on the wire.                                  *)
OneOf(w, x, W, id) ==
  /\ w[id] = x => \E i, k : /\ i \in DOMAIN W /\ HeldIn(W[i].inj, id) = {k}
                            /\ \A j \in DOMAIN W : j # i => HeldIn(W[j].inj, id) = {}
  /\ w[id] # x => \A j \in DOMAIN W : HeldIn(W[j].inj, id) = {}
LEMMA OneMessage ==
  ASSUME NEW w, NEW x, NEW W, Boxes(w, x, W), NEW id \in Ids
  PROVE  OneOf(w, x, W, id)
<1>1. \A j \in DOMAIN W : id \in Names(W[j].inj) <=> HeldIn(W[j].inj, id) # {}
  BY DEF Names, HeldIn
<1>2. CASE w[id] = x
  <2>1. PICK i \in DOMAIN W : id \in Names(W[i].inj)
    BY <1>2 DEF Boxes
  <2>2. PICK k : k \in HeldIn(W[i].inj, id)
    BY <1>1, <2>1
  <2>3. HeldIn(W[i].inj, id) = {k}
    <3>1. Distinct(W[i].inj)
      BY DEF Boxes
    <3> QED BY <2>2, <3>1 DEF HeldIn, Distinct
  <2>4. \A j \in DOMAIN W : j # i => HeldIn(W[j].inj, id) = {}
    BY <1>1, <2>1 DEF Boxes
  <2> QED BY <1>2, <2>3, <2>4, Zenon DEF OneOf
<1>3. CASE w[id] # x
  <2>1. \A j \in DOMAIN W : HeldIn(W[j].inj, id) = {}
    BY <1>1, <1>3 DEF Boxes
  <2> QED BY <1>3, <2>1, Zenon DEF OneOf
<1> QED BY <1>2, <1>3

(* Of many sets one has an element, and that just one.                     *)
LEMMA OneOfMany ==
  ASSUME NEW X
  PROVE  /\ (\A y \in X : y = {}) => UNION X = {}
         /\ \A z : {z} \in X /\ (\A y \in X : y = {z} \/ y = {}) => UNION X = {z}
  OBVIOUS

(* So it is in one place.                                                  *)
LEMMA OnePlace ==
  ASSUME NEW w \in [Ids -> Spots], Located(w, p, send, ci, wire, rhob, dropped), NEW id \in Ids
  PROVE  \E z : Places(id) = {z}
<1> DEFINE L1(r, s) == {<<"list", r, s, k>> : k \in HeldIn(p[r][s], id)}
           L2(r, f) == {<<"send", r, f, k>> : k \in HeldIn(send[r][f], id)}
           M3(r, f) == {{<<"wire", r, f, j, k>> : k \in HeldIn(wire[r][f][j].inj, id)} :
                        j \in DOMAIN wire[r][f]}
           L3(r, f) == UNION M3(r, f)
           L4(r) == {<<"ci", r, k>> : k \in HeldIn(ci[r], id)}
           X1 == {L1(r, s) : r \in Rank, s \in Species}
           X2 == {L2(r, f) : r \in Rank, f \in Face}
           X3 == {L3(r, f) : r \in Rank, f \in Face}
           X4 == {L4(r) : r \in Rank}
           A1 == UNION X1
           A2 == UNION X2
           A3 == UNION X3
           A4 == UNION X4
           A5 == {<<"rhob", n>> : n \in 1..rhob[id]}
           A6 == {<<"dropped">> : x \in dropped \cap {id}}
           B1 == \E r \in Rank, s \in Species : w[id] = OnList(r, s)
           B2 == \E r \in Rank, f \in Face : w[id] = InSend(r, f)
           B3 == \E r \in Rank, f \in Face : w[id] = OnWire(r, f)
           B4 == \E r \in Rank : w[id] = InCi(r)
           B5 == w[id] = AtRhob
           B6 == w[id] = Gone
<1>1. Places(id) = UNION {A1, A2, A3, A4, A5, A6}
  <2>1. A1 = InLists(id)
    BY DEF InLists
  <2>2. A2 = InBuffers(id)
    BY DEF InBuffers
  <2>3. A3 = InMessages(id)
    BY DEF InMessages
  <2>4. A4 = InInjectors(id)
    BY DEF InInjectors
  <2> HIDE DEF A1, A2, A3, A4
  <2> QED BY <2>1, <2>2, <2>3, <2>4 DEF Places
<1>2. ASSUME NEW r \in Rank, NEW s \in Species
      PROVE  /\ w[id] = OnList(r, s) => \E z : L1(r, s) = {z}
             /\ w[id] # OnList(r, s) => L1(r, s) = {}
  <2>1. Box(w, OnList(r, s), p[r][s])
    BY DEF Located
  <2>2. /\ w[id] = OnList(r, s) => \E k : HeldIn(p[r][s], id) = {k}
        /\ w[id] # OnList(r, s) => HeldIn(p[r][s], id) = {}
    BY <2>1, OneHolder, Zenon
  <2>3. \A k : HeldIn(p[r][s], id) = {k} => L1(r, s) = {<<"list", r, s, k>>}
    OBVIOUS
  <2>4. HeldIn(p[r][s], id) = {} => L1(r, s) = {}
    OBVIOUS
  <2> HIDE DEF L1
  <2> QED BY <2>2, <2>3, <2>4, Zenon
<1>3. ASSUME NEW r \in Rank, NEW f \in Face
      PROVE  /\ w[id] = InSend(r, f) => \E z : L2(r, f) = {z}
             /\ w[id] # InSend(r, f) => L2(r, f) = {}
  <2>1. Box(w, InSend(r, f), send[r][f])
    BY DEF Located
  <2>2. /\ w[id] = InSend(r, f) => \E k : HeldIn(send[r][f], id) = {k}
        /\ w[id] # InSend(r, f) => HeldIn(send[r][f], id) = {}
    BY <2>1, OneHolder, Zenon
  <2>3. \A k : HeldIn(send[r][f], id) = {k} => L2(r, f) = {<<"send", r, f, k>>}
    OBVIOUS
  <2>4. HeldIn(send[r][f], id) = {} => L2(r, f) = {}
    OBVIOUS
  <2> HIDE DEF L2
  <2> QED BY <2>2, <2>3, <2>4, Zenon
<1>4. ASSUME NEW r \in Rank, NEW f \in Face
      PROVE  /\ w[id] = OnWire(r, f) => \E z : L3(r, f) = {z}
             /\ w[id] # OnWire(r, f) => L3(r, f) = {}
  <2> DEFINE N(j) == {<<"wire", r, f, j, k>> : k \in HeldIn(wire[r][f][j].inj, id)}
  <2>1. Boxes(w, OnWire(r, f), wire[r][f])
    BY DEF Located
  <2>0. OneOf(w, OnWire(r, f), wire[r][f], id)
    BY <2>1, OneMessage, Zenon
  <2>2. /\ w[id] = OnWire(r, f) =>
              \E i, k : /\ i \in DOMAIN wire[r][f] /\ HeldIn(wire[r][f][i].inj, id) = {k}
                        /\ \A j \in DOMAIN wire[r][f] : j # i => HeldIn(wire[r][f][j].inj, id) = {}
        /\ w[id] # OnWire(r, f) => \A j \in DOMAIN wire[r][f] : HeldIn(wire[r][f][j].inj, id) = {}
    BY <2>0, Zenon DEF OneOf
  <2>3. \A j, k : HeldIn(wire[r][f][j].inj, id) = {k} => N(j) = {<<"wire", r, f, j, k>>}
    OBVIOUS
  <2>4. \A j : HeldIn(wire[r][f][j].inj, id) = {} => N(j) = {}
    OBVIOUS
  <2>5. M3(r, f) = {N(j) : j \in DOMAIN wire[r][f]}
    OBVIOUS
  <2> HIDE DEF N, M3
  <2>6. CASE w[id] = OnWire(r, f)
    <3>1. PICK i, k : /\ i \in DOMAIN wire[r][f] /\ HeldIn(wire[r][f][i].inj, id) = {k}
                      /\ \A j \in DOMAIN wire[r][f] : j # i => HeldIn(wire[r][f][j].inj, id) = {}
      BY <2>2, <2>6, Zenon
    <3>2. N(i) = {<<"wire", r, f, i, k>>} /\ \A j \in DOMAIN wire[r][f] : j # i => N(j) = {}
      BY <2>3, <2>4, <3>1, Zenon
    <3>3. /\ {<<"wire", r, f, i, k>>} \in M3(r, f)
          /\ \A y \in M3(r, f) : y = {<<"wire", r, f, i, k>>} \/ y = {}
      BY <2>5, <3>1, <3>2
    <3>4. UNION M3(r, f) = {<<"wire", r, f, i, k>>}
      BY <3>3, OneOfMany
    <3> QED BY <2>6, <3>4, Zenon
  <2>7. CASE w[id] # OnWire(r, f)
    <3>1. \A y \in M3(r, f) : y = {}
      BY <2>2, <2>4, <2>5, <2>7
    <3>2. UNION M3(r, f) = {}
      BY <3>1, OneOfMany
    <3> QED BY <2>7, <3>2
  <2> QED BY <2>6, <2>7
<1>5. ASSUME NEW r \in Rank
      PROVE  /\ w[id] = InCi(r) => \E z : L4(r) = {z}
             /\ w[id] # InCi(r) => L4(r) = {}
  <2>1. Box(w, InCi(r), ci[r])
    BY DEF Located
  <2>2. /\ w[id] = InCi(r) => \E k : HeldIn(ci[r], id) = {k}
        /\ w[id] # InCi(r) => HeldIn(ci[r], id) = {}
    BY <2>1, OneHolder, Zenon
  <2>3. \A k : HeldIn(ci[r], id) = {k} => L4(r) = {<<"ci", r, k>>}
    OBVIOUS
  <2>4. HeldIn(ci[r], id) = {} => L4(r) = {}
    OBVIOUS
  <2> HIDE DEF L4
  <2> QED BY <2>2, <2>3, <2>4, Zenon
<1>6. /\ rhob[id] = (IF w[id] = AtRhob THEN 1 ELSE 0) /\ (id \in dropped <=> w[id] = Gone)
  BY DEF Located, Ends
<1>7. (B5 => \E z : A5 = {z}) /\ (~B5 => A5 = {})
  <2>1. rhob[id] = 1 => A5 = {<<"rhob", 1>>}
    OBVIOUS
  <2>2. rhob[id] = 0 => A5 = {}
    OBVIOUS
  <2> HIDE DEF A5
  <2> QED BY <1>6, <2>1, <2>2, Zenon
<1>8. (B6 => \E z : A6 = {z}) /\ (~B6 => A6 = {})
  <2>1. id \in dropped => A6 = {<<"dropped">>}
    OBVIOUS
  <2>2. id \notin dropped => A6 = {}
    OBVIOUS
  <2> HIDE DEF A6
  <2> QED BY <1>6, <2>1, <2>2, Zenon
<1> HIDE DEF L1, L2, L3, L4, A5, A6
<1>9. \A r, s, q, t : /\ OnList(r, s) = OnList(q, t) => r = q /\ s = t
                      /\ InSend(r, s) = InSend(q, t) => r = q /\ s = t
                      /\ OnWire(r, s) = OnWire(q, t) => r = q /\ s = t
                      /\ InCi(r) = InCi(q) => r = q
  BY SpotsDiffer
<1>10. (B1 => \E z : A1 = {z}) /\ (~B1 => A1 = {})
  <2>1. ASSUME NEW r \in Rank, NEW s \in Species, w[id] = OnList(r, s)
        PROVE  \E z : UNION X1 = {z}
    <3>1. PICK z : L1(r, s) = {z}
      BY <1>2, <2>1, Zenon
    <3>2. \A q \in Rank, t \in Species : L1(q, t) = {z} \/ L1(q, t) = {}
      <4> TAKE q \in Rank, t \in Species
      <4>1. OnList(r, s) = OnList(q, t) => r = q /\ s = t
        BY <1>9
      <4>2. r = q /\ s = t => L1(q, t) = {z}
        BY <3>1
      <4> QED BY <1>2, <2>1, <4>1, <4>2
    <3>3. {z} \in X1 /\ \A y \in X1 : y = {z} \/ y = {}
      BY <3>1, <3>2
    <3> HIDE DEF X1
    <3> QED BY <3>3, OneOfMany, Zenon
  <2>2. ~B1 => \A y \in X1 : y = {}
    BY <1>2
  <2> HIDE DEF X1
  <2>3. ~B1 => A1 = {}
    BY <2>2, OneOfMany
  <2> QED BY <2>1, <2>3, Zenon
<1>11. (B2 => \E z : A2 = {z}) /\ (~B2 => A2 = {})
  <2>1. ASSUME NEW r \in Rank, NEW f \in Face, w[id] = InSend(r, f)
        PROVE  \E z : UNION X2 = {z}
    <3>1. PICK z : L2(r, f) = {z}
      BY <1>3, <2>1, Zenon
    <3>2. \A q \in Rank, t \in Face : L2(q, t) = {z} \/ L2(q, t) = {}
      <4> TAKE q \in Rank, t \in Face
      <4>1. InSend(r, f) = InSend(q, t) => r = q /\ f = t
        BY <1>9
      <4>2. r = q /\ f = t => L2(q, t) = {z}
        BY <3>1
      <4> QED BY <1>3, <2>1, <4>1, <4>2
    <3>3. {z} \in X2 /\ \A y \in X2 : y = {z} \/ y = {}
      BY <3>1, <3>2
    <3> HIDE DEF X2
    <3> QED BY <3>3, OneOfMany, Zenon
  <2>2. ~B2 => \A y \in X2 : y = {}
    BY <1>3
  <2> HIDE DEF X2
  <2>3. ~B2 => A2 = {}
    BY <2>2, OneOfMany
  <2> QED BY <2>1, <2>3, Zenon
<1>12. (B3 => \E z : A3 = {z}) /\ (~B3 => A3 = {})
  <2>1. ASSUME NEW r \in Rank, NEW f \in Face, w[id] = OnWire(r, f)
        PROVE  \E z : UNION X3 = {z}
    <3>1. PICK z : L3(r, f) = {z}
      BY <1>4, <2>1, Zenon
    <3>2. \A q \in Rank, t \in Face : L3(q, t) = {z} \/ L3(q, t) = {}
      <4> TAKE q \in Rank, t \in Face
      <4>1. OnWire(r, f) = OnWire(q, t) => r = q /\ f = t
        BY <1>9
      <4>2. r = q /\ f = t => L3(q, t) = {z}
        BY <3>1
      <4> QED BY <1>4, <2>1, <4>1, <4>2
    <3>3. {z} \in X3 /\ \A y \in X3 : y = {z} \/ y = {}
      BY <3>1, <3>2
    <3> HIDE DEF X3
    <3> QED BY <3>3, OneOfMany, Zenon
  <2>2. ~B3 => \A y \in X3 : y = {}
    BY <1>4
  <2> HIDE DEF X3
  <2>3. ~B3 => A3 = {}
    BY <2>2, OneOfMany
  <2> QED BY <2>1, <2>3, Zenon
<1>13. (B4 => \E z : A4 = {z}) /\ (~B4 => A4 = {})
  <2>1. ASSUME NEW r \in Rank, w[id] = InCi(r)
        PROVE  \E z : UNION X4 = {z}
    <3>1. PICK z : L4(r) = {z}
      BY <1>5, <2>1, Zenon
    <3>2. \A q \in Rank : L4(q) = {z} \/ L4(q) = {}
      BY <1>5, <1>9, <2>1, <3>1, Zenon
    <3>3. {z} \in X4 /\ \A y \in X4 : y = {z} \/ y = {}
      BY <3>1, <3>2
    <3> HIDE DEF X4
    <3> QED BY <3>3, OneOfMany
  <2>2. ~B4 => \A y \in X4 : y = {}
    BY <1>5
  <2> HIDE DEF X4
  <2>3. ~B4 => A4 = {}
    BY <2>2, OneOfMany
  <2> QED BY <2>1, <2>3, Zenon
<1>14. B1 \/ B2 \/ B3 \/ B4 \/ B5 \/ B6
  <2>1. w[id] \in Spots
    OBVIOUS
  <2> QED BY <2>1 DEF Spots
<1>15. /\ B1 => ~B2 /\ ~B3 /\ ~B4 /\ ~B5 /\ ~B6
       /\ B2 => ~B3 /\ ~B4 /\ ~B5 /\ ~B6
       /\ B3 => ~B4 /\ ~B5 /\ ~B6
       /\ B4 => ~B5 /\ ~B6
       /\ B5 => ~B6
  BY DEF OnList, InSend, OnWire, InCi, AtRhob, Gone
<1> HIDE DEF A1, A2, A3, A4, B1, B2, B3, B4, B5, B6
<1> DEFINE X == {A1, A2, A3, A4, A5, A6}
<1>16. \E z : {z} \in X /\ \A y \in X : y = {z} \/ y = {}
  <2>1. CASE B1
    <3>1. PICK z : A1 = {z}
      BY <1>10, <2>1, Zenon
    <3>2. A2 = {} /\ A3 = {} /\ A4 = {} /\ A5 = {} /\ A6 = {}
      BY <1>7, <1>8, <1>10, <1>11, <1>12, <1>13, <1>15, <2>1
    <3> QED BY <3>1, <3>2
  <2>2. CASE B2
    <3>1. PICK z : A2 = {z}
      BY <1>11, <2>2, Zenon
    <3>2. A1 = {} /\ A3 = {} /\ A4 = {} /\ A5 = {} /\ A6 = {}
      BY <1>7, <1>8, <1>10, <1>11, <1>12, <1>13, <1>15, <2>2
    <3> QED BY <3>1, <3>2
  <2>3. CASE B3
    <3>1. PICK z : A3 = {z}
      BY <1>12, <2>3, Zenon
    <3>2. A1 = {} /\ A2 = {} /\ A4 = {} /\ A5 = {} /\ A6 = {}
      BY <1>7, <1>8, <1>10, <1>11, <1>12, <1>13, <1>15, <2>3
    <3> QED BY <3>1, <3>2
  <2>4. CASE B4
    <3>1. PICK z : A4 = {z}
      BY <1>13, <2>4, Zenon
    <3>2. A1 = {} /\ A2 = {} /\ A3 = {} /\ A5 = {} /\ A6 = {}
      BY <1>7, <1>8, <1>10, <1>11, <1>12, <1>13, <1>15, <2>4
    <3> QED BY <3>1, <3>2
  <2>5. CASE B5
    <3>1. PICK z : A5 = {z}
      BY <1>7, <2>5, Zenon
    <3>2. A1 = {} /\ A2 = {} /\ A3 = {} /\ A4 = {} /\ A6 = {}
      BY <1>7, <1>8, <1>10, <1>11, <1>12, <1>13, <1>15, <2>5
    <3> QED BY <3>1, <3>2
  <2>6. CASE B6
    <3>1. PICK z : A6 = {z}
      BY <1>8, <2>6, Zenon
    <3>2. A1 = {} /\ A2 = {} /\ A3 = {} /\ A4 = {} /\ A5 = {}
      BY <1>7, <1>8, <1>10, <1>11, <1>12, <1>13, <1>15, <2>6
    <3> QED BY <3>1, <3>2
  <2> QED BY <1>14, <2>1, <2>2, <2>3, <2>4, <2>5, <2>6, Zenon
<1> HIDE DEF X
<1>17. \E z : UNION X = {z}
  BY <1>16, OneOfMany
<1> QED BY <1>1, <1>17, Zenon DEF X

(* No particle is lost or doubled, whatever the interleaving of the ranks: *)
(* each is in exactly one place, a list, a buffer, a message, accumulated  *)
(* to rhob or dropped.                                                     *)
THEOREM ParticlesConserved == Spec => []Conserved
<1>1. Whereabouts => Conserved
  <2> SUFFICES ASSUME Whereabouts, NEW id \in Ids
               PROVE  Cardinality(Places(id)) = 1
    BY DEF Conserved
  <2> PICK w \in [Ids -> Spots] : Located(w, p, send, ci, wire, rhob, dropped)
    BY DEF Whereabouts
  <2>1. PICK z : Places(id) = {z}
    BY OnePlace, Zenon
  <2> QED BY <2>1, FS_Singleton, Zenon
<1> QED BY <1>1, WhereAlways, PTL
-----------------------------------------------------------------------------
(* Fourth invariant: there is room for the injectors still to come, those  *)
(* of the faces the loop has not reached.                                  *)
ToCome(r) == IF pc[r] = "inject" THEN Upto(r, 6) - Upto(r, face[r]) ELSE 0
Fits(r, n, P, M, N, K) ==
  \A s \in Species : Len(P[s]) + n <= N[s] /\ Len(M[s]) + n <= K[s]
Storage == \A r \in Rank : Fits(r, ToCome(r), p[r], pm[r], max_np[r], max_nm[r])

(* The sums over the faces are numbers, and the last the largest.          *)
LEMMA UptoIs ==
  ASSUME NEW r, n_recv[r] \in [Face -> Nat]
  PROVE  \A k \in 0..6 : Upto(r, k) \in Nat
<1>1. \A g \in Face : From(r, g) \in Nat
  BY DEF From
<1>2. /\ From(r, 0) \in Nat /\ From(r, 1) \in Nat /\ From(r, 2) \in Nat
      /\ From(r, 3) \in Nat /\ From(r, 4) \in Nat /\ From(r, 5) \in Nat
  BY <1>1 DEF Face
<1> QED BY <1>2 DEF Upto

(* The loop goes from one shared face to the next: what is between is none.*)
LEMMA UptoNext ==
  ASSUME NEW r, n_recv[r] \in [Face -> Nat]
  PROVE  /\ Upto(r, NextShared(r, 0)) = 0
         /\ \A f \in Face : shared(r, f) =>
              Upto(r, NextShared(r, f + 1)) = Upto(r, f) + n_recv[r][f]
<1>1. \A g \in Face : From(r, g) \in Nat /\ (shared(r, g) => From(r, g) = n_recv[r][g])
                      /\ (~shared(r, g) => From(r, g) = 0)
  BY DEF From
<1>2. Upto(r, 0) = 0 /\ \A k \in Face : Upto(r, k + 1) = Upto(r, k) + From(r, k) /\ Upto(r, k) \in Nat
  <2>1. /\ From(r, 0) \in Nat /\ From(r, 1) \in Nat /\ From(r, 2) \in Nat
        /\ From(r, 3) \in Nat /\ From(r, 4) \in Nat /\ From(r, 5) \in Nat
    BY <1>1 DEF Face
  <2> QED BY <2>1 DEF Upto, Face
<1>3. ASSUME NEW a \in 0..6
      PROVE  Upto(r, NextShared(r, a)) = Upto(r, a)
  <2> DEFINE h == NextShared(r, a)
  <2>1. h \in 0..6 /\ h >= a /\ \A g \in Face : g >= a /\ shared(r, g) => h <= g
    BY NextSharedIs
  <2> HIDE DEF h
  <2>2. \A g \in Face : a <= g /\ g < h => From(r, g) = 0
    <3>1. \A g \in Face : a <= g /\ g < h => ~shared(r, g)
      BY <2>1 DEF Face
    <3> QED BY <1>1, <3>1
  <2>3. \A g \in Face : a <= g /\ g < h => Upto(r, g + 1) = Upto(r, g)
    BY <1>2, <2>2
  <2>4. /\ (a <= 0 /\ 0 < h => Upto(r, 1) = Upto(r, 0)) /\ (a <= 1 /\ 1 < h => Upto(r, 2) = Upto(r, 1))
        /\ (a <= 2 /\ 2 < h => Upto(r, 3) = Upto(r, 2)) /\ (a <= 3 /\ 3 < h => Upto(r, 4) = Upto(r, 3))
        /\ (a <= 4 /\ 4 < h => Upto(r, 5) = Upto(r, 4)) /\ (a <= 5 /\ 5 < h => Upto(r, 6) = Upto(r, 5))
    BY <2>3 DEF Face
  <2> QED BY <2>1, <2>4 DEF h
<1>4. ASSUME NEW f \in Face, shared(r, f)
      PROVE  Upto(r, NextShared(r, f + 1)) = Upto(r, f) + n_recv[r][f]
  <2>1. f + 1 \in 0..6
    BY DEF Face
  <2> QED BY <1>1, <1>2, <1>3, <1>4, <2>1
<1> QED BY <1>2, <1>3, <1>4

(* boundary_p makes room for n.                                            *)
LEMMA RoomIs ==
  ASSUME Fixed, NEW n \in Nat, NEW max \in Nat
  PROVE  RoomNp(n, max) >= n /\ RoomNm(n, max) >= n
<1>1. MIN_NP \in Nat
  BY FixedIs, BoundaryPAssumption DEF MIN_NP
<1> QED BY <1>1 DEF RoomNp, RoomNm

(* A step of rank r leaves the other ranks their lists and their room.     *)
LEMMA StorageNext ==
  ASSUME Lists, Storage, UNCHANGED given, NEW r \in Rank,
         \A q \in Rank \ {r} :
           /\ pc'[q] = pc[q] /\ face'[q] = face[q] /\ n_recv'[q] = n_recv[q] /\ p'[q] = p[q]
           /\ pm'[q] = pm[q] /\ max_np'[q] = max_np[q] /\ max_nm'[q] = max_nm[q],
         Fits(r, ToCome(r)', p'[r], pm'[r], max_np'[r], max_nm'[r])
  PROVE  Storage'
<1>1. Rank' = Rank /\ Species' = Species
  BY GivenKeeps DEF given
<1>2. ASSUME NEW q \in Rank \ {r}
      PROVE  ToCome(q)' = ToCome(q)
  <2>1. /\ pc'[q] = pc[q] /\ face'[q] = face[q] /\ n_recv'[q] = n_recv[q]
    OBVIOUS
  <2>2. \A g : From(q, g)' = From(q, g)
    BY <2>1 DEF From, shared, bc, Tables, Rank, given
  <2>3. \A k : Upto(q, k)' = Upto(q, k)
    BY <2>2 DEF Upto
  <2> QED BY <2>1, <2>3 DEF ToCome
<1>3. ASSUME NEW q \in Rank
      PROVE  Fits(q, ToCome(q)', p'[q], pm'[q], max_np'[q], max_nm'[q])
  <2>1. CASE q = r
    BY <2>1
  <2>2. CASE q # r
    <3>1. q \in Rank \ {r}
      BY <2>2
    <3>2. Fits(q, ToCome(q), p[q], pm[q], max_np[q], max_nm[q])
      BY DEF Storage
    <3> QED BY <1>2, <3>1, <3>2
  <2> QED BY <2>1, <2>2
<1> QED BY <1>1, <1>3 DEF Storage, Fits

(* What is still to come is a number.                                      *)
LEMMA ToComeIs ==
  ASSUME Lists, NEW r \in Rank
  PROVE  ToCome(r) \in Nat
<1>1. n_recv[r] \in [Face -> Nat] /\ face[r] \in 0..6
  BY DEF Lists, Controls, Ranges
<1>2. \A g \in Face : From(r, g) \in Nat
  BY <1>1 DEF From
<1>3. /\ From(r, 0) \in Nat /\ From(r, 1) \in Nat /\ From(r, 2) \in Nat
      /\ From(r, 3) \in Nat /\ From(r, 4) \in Nat /\ From(r, 5) \in Nat
  BY <1>2 DEF Face
<1>4. ASSUME NEW k \in 0..6
      PROVE  Upto(r, k) <= Upto(r, 6)
  <2>1. k = 0 \/ k = 1 \/ k = 2 \/ k = 3 \/ k = 4 \/ k = 5 \/ k = 6
    OBVIOUS
  <2> QED BY <1>3, <2>1 DEF Upto
<1>5. Upto(r, face[r]) \in Nat /\ Upto(r, 6) \in Nat /\ Upto(r, face[r]) <= Upto(r, 6)
  BY <1>1, <1>4, UptoIs
<1> QED BY <1>5 DEF ToCome

(* Lists that do not grow fit if no more is to come.                       *)
LEMMA FitsLess ==
  ASSUME Lists, Storage, NEW r \in Rank, NEW n \in Nat, n <= ToCome(r), NEW P, NEW M,
         \A s \in Species : /\ Len(P[s]) \in Nat /\ Len(P[s]) <= Len(p[r][s])
                            /\ Len(M[s]) \in Nat /\ Len(M[s]) <= Len(pm[r][s])
  PROVE  Fits(r, n, P, M, max_np[r], max_nm[r])
<1>1. ToCome(r) \in Nat
  BY ToComeIs
<1>2. Fits(r, ToCome(r), p[r], pm[r], max_np[r], max_nm[r])
  BY DEF Storage
<1>3. ASSUME NEW s \in Species
      PROVE  Len(P[s]) + n <= max_np[r][s] /\ Len(M[s]) + n <= max_nm[r][s]
  <2>1. /\ Len(p[r][s]) \in Nat /\ Len(pm[r][s]) \in Nat
        /\ max_np[r][s] \in Nat /\ max_nm[r][s] \in Nat
    BY ListsAre DEF Lists, Ranges
  <2>2. /\ Len(p[r][s]) + ToCome(r) <= max_np[r][s] /\ Len(pm[r][s]) + ToCome(r) <= max_nm[r][s]
    BY <1>2 DEF Fits
  <2>3. \A a, b, x, y, z \in Nat : a <= b /\ x <= y /\ b + y <= z => a + x <= z
    OBVIOUS
  <2> HIDE DEF ToCome
  <2> QED BY <1>1, <2>1, <2>2, <2>3, Zenon
<1> QED BY <1>3 DEF Fits

(* A step that changes no list and leaves its loop where it was, or out.   *)
LEMMA StillFits ==
  ASSUME Lists, Storage, UNCHANGED given, UNCHANGED <<p, pm, max_np, max_nm>>, NEW r \in Rank,
         \A q \in Rank \ {r} : pc'[q] = pc[q] /\ face'[q] = face[q] /\ n_recv'[q] = n_recv[q],
         pc'[r] # "inject"
  PROVE  Storage'
<1>1. ToCome(r)' = 0
  BY DEF ToCome
<1>2. Fits(r, 0, p[r], pm[r], max_np[r], max_nm[r])
  <2>1. 0 \in Nat /\ 0 <= ToCome(r)
    BY ToComeIs
  <2>2. \A s \in Species : Len(p[r][s]) \in Nat /\ Len(pm[r][s]) \in Nat
    BY ListsAre
  <2>3. \A s \in Species : /\ Len(p[r][s]) \in Nat /\ Len(p[r][s]) <= Len(p[r][s])
                           /\ Len(pm[r][s]) \in Nat /\ Len(pm[r][s]) <= Len(pm[r][s])
    BY <2>2
  <2> QED BY <2>1, <2>3, FitsLess, Zenon
<1> QED BY <1>1, <1>2, StorageNext

(* The steps that fill no list.                                            *)
LEMMA QuietFits ==
  ASSUME Lists, Storage, NEW r \in Rank,
         EndRecvCount(r) \/ EndSendCount(r) \/ EndSendData(r) \/ EndLoop(r) \/ Return(r)
  PROVE  Storage'
<1>1. pc \in [Rank -> Phase] /\ face \in [Rank -> 0..6] /\ n_recv \in [Rank -> [Face -> Nat]]
  BY DEF Lists, Controls, Ranges
<1>2. UNCHANGED given /\ UNCHANGED <<p, pm, max_np, max_nm>>
  BY DEF EndRecvCount, EndSendCount, EndSendData, EndLoop, Return, local
<1>3. /\ \A q \in Rank \ {r} : pc'[q] = pc[q] /\ face'[q] = face[q] /\ n_recv'[q] = n_recv[q]
      /\ pc'[r] # "inject"
  <2>1. CASE EndRecvCount(r)
    <3>1. /\ pc[r] = "count" /\ (UNCHANGED pc \/ pc' = [pc EXCEPT ![r] = "error"])
          /\ UNCHANGED face \/ face' = [face EXCEPT ![r] = NextShared(r, face[r] + 1)]
          /\ UNCHANGED n_recv
             \/ n_recv' = [n_recv EXCEPT ![r][face[r]] = Head(Arrived(r, face[r])).n]
      BY <2>1 DEF EndRecvCount, At, NextFace
    <3> QED BY <1>1, <3>1
  <2>2. CASE EndSendCount(r) \/ EndSendData(r)
    BY <1>1, <2>2 DEF EndSendCount, EndSendData, At, NextFace, ports
  <2>3. CASE EndLoop(r)
    BY <1>1, <2>3 DEF EndLoop, Goto, Follow, ports
  <2>4. CASE Return(r)
    BY <1>1, <2>4 DEF Return, Goto, ports
  <2> QED BY <2>1, <2>2, <2>3, <2>4
<1> QED BY <1>2, <1>3, StillFits

(* The movers are taken off the lists, or what they leave.                 *)
LEMMA EmptiedFits ==
  ASSUME Lists, Storage, UNCHANGED given, UNCHANGED <<max_np, max_nm, n_recv>>, NEW r \in Rank, NEW P,
         p' = [p EXCEPT ![r] = P], pm' = [pm EXCEPT ![r] = [s \in Species |-> <<>>]],
         \A s \in Species : Len(P[s]) \in Nat /\ Len(P[s]) <= Len(p[r][s]),
         NEW phase, phase # "inject", Goto(r, phase)
  PROVE  Storage'
<1> DEFINE M == [s \in Species |-> <<>>]
<1>1. /\ pc \in [Rank -> Phase] /\ face \in [Rank -> 0..6]
      /\ p \in [Rank -> [Species -> Seq(Part)]] /\ pm \in [Rank -> [Species -> Seq(Mover)]]
  BY DEF Lists, Controls, Ranges
<1>2. Fits(r, 0, P, M, max_np[r], max_nm[r])
  <2>1. 0 \in Nat /\ 0 <= ToCome(r)
    BY ToComeIs
  <2>2. \A s \in Species : Len(M[s]) = 0 /\ Len(pm[r][s]) \in Nat
    BY ListsAre
  <2> HIDE DEF M
  <2>3. \A s \in Species : /\ Len(P[s]) \in Nat /\ Len(P[s]) <= Len(p[r][s])
                           /\ Len(M[s]) \in Nat /\ Len(M[s]) <= Len(pm[r][s])
    BY <2>2
  <2> QED BY <2>1, <2>3, FitsLess
<1>3. p'[r] = P /\ pm'[r] = M /\ pc'[r] # "inject"
  BY <1>1 DEF Goto
<1> HIDE DEF M
<1>4. \A q \in Rank \ {r} : /\ pc'[q] = pc[q] /\ face'[q] = face[q] /\ n_recv'[q] = n_recv[q]
                            /\ p'[q] = p[q] /\ pm'[q] = pm[q]
                            /\ max_np'[q] = max_np[q] /\ max_nm'[q] = max_nm[q]
  BY <1>1 DEF Goto
<1>5. ToCome(r)' = 0
  BY <1>3 DEF ToCome
<1>6. Fits(r, ToCome(r)', p'[r], pm'[r], max_np'[r], max_nm'[r])
  BY <1>2, <1>3, <1>5
<1> QED BY <1>4, <1>6, StorageNext

(* A round begins.                                                         *)
LEMMA BeginFits ==
  ASSUME Lists, Storage, NEW r \in Rank, Begin(r)
  PROVE  Storage'
<1>1. PICK back \in Draws(r) : p' = [p EXCEPT ![r] = LoadAll(r, back).p]
  BY Zenon DEF Begin
<1> DEFINE out == LoadAll(r, back)
<1>2. /\ UNCHANGED given /\ UNCHANGED <<max_np, max_nm, n_recv>> /\ Goto(r, "count")
      /\ pm' = [pm EXCEPT ![r] = [s \in Species |-> <<>>]]
  BY DEF Begin
<1>3. /\ Fixed /\ p[r] \in [Species -> Seq(Part)] /\ rhob \in [Ids -> Nat]
      /\ tally[r] \in [Species -> Nat] /\ met \in SUBSET Ids /\ dropped \in SUBSET Ids
  BY DEF Lists, Ranges
<1>4. \A s \in Species : Listed(r, out.p[s], <<>>) /\ Len(out.p[s]) <= Len(p[r][s])
  BY <1>3, ListsAre, LoadAllIs, Zenon DEF Stayed
<1> HIDE DEF out
<1>5. \A s \in Species : Len(out.p[s]) \in Nat /\ Len(out.p[s]) <= Len(p[r][s])
  BY <1>4 DEF Listed
<1> QED BY <1>1, <1>2, <1>5, EmptiedFits, Zenon DEF out

(* The particles left over are removed.                                    *)
LEMMA RemoveFits ==
  ASSUME Lists, Storage, NEW r \in Rank, RemoveUnprocessed(r)
  PROVE  Storage'
<1> DEFINE out == DropAll(r)
<1>1. /\ p' = [p EXCEPT ![r] = out.p] /\ pm' = [pm EXCEPT ![r] = [s \in Species |-> <<>>]]
      /\ Goto(r, "done") /\ UNCHANGED given /\ UNCHANGED <<max_np, max_nm, n_recv>>
  BY DEF RemoveUnprocessed, ports
<1>2. Fixed /\ p[r] \in [Species -> Seq(Part)] /\ rhob \in [Ids -> Nat]
  BY DEF Lists, Ranges
<1>3. \A s \in Species : Listed(r, out.p[s], <<>>) /\ Len(out.p[s]) <= Len(p[r][s])
  BY <1>2, ListsAre, DropAllIs, Zenon DEF Stayed
<1> HIDE DEF out
<1>4. \A s \in Species : Len(out.p[s]) \in Nat /\ Len(out.p[s]) <= Len(p[r][s])
  BY <1>3 DEF Listed
<1> QED BY <1>1, <1>4, EmptiedFits, Zenon

(* What is to come, in a step that leaves the numbers of rank r.           *)
LEMMA ToComeNext ==
  ASSUME UNCHANGED given, NEW r \in Rank, n_recv'[r] = n_recv[r]
  PROVE  ToCome(r)' = IF pc'[r] = "inject" THEN Upto(r, 6) - Upto(r, face'[r]) ELSE 0
<1>1. \A g : From(r, g)' = From(r, g)
  BY DEF From, shared, bc, Tables, Rank, given
<1>2. \A k : Upto(r, k)' = Upto(r, k)
  BY <1>1 DEF Upto
<1> QED BY <1>2 DEF ToCome

(* What lists are that have grown by l.                                    *)
LEMMA GrownIs ==
  ASSUME NEW r, NEW P, NEW M, NEW l \in Nat, NEW b, RoomListed(r, b),
         Grown([p |-> P, pm |-> M], b, l), NEW s \in Species
  PROVE  /\ Len(b.p[s]) \in Nat /\ Len(b.p[s]) <= Len(P[s]) + l
         /\ Len(b.pm[s]) \in Nat /\ Len(b.pm[s]) <= Len(M[s]) + l
<1>1. Listed(r, b.p[s], b.pm[s])
  BY DEF RoomListed
<1>2. b.p[s] \in Seq(Part) /\ b.pm[s] \in Seq(Mover)
  BY <1>1 DEF Listed
<1> QED BY <1>2 DEF Grown

(* The lists are resized for all that is to come, and take the local       *)
(* injectors.                                                              *)
LEMMA ResizeFits ==
  ASSUME Lists, Storage, NEW r \in Rank, ResizeInjectLocal(r)
  PROVE  Storage'
<1> DEFINE a == [p |-> p[r], pm |-> pm[r]]
           out == InjectAll(r, a, ci[r])
           np == [s \in Species |-> RoomNp(Len(p[r][s]) + MaxInj(r), max_np[r][s])]
           nm == [s \in Species |-> RoomNm(Len(pm[r][s]) + MaxInj(r), max_nm[r][s])]
           l == Len(ci[r])
           u == Upto(r, 6)
<1>1. /\ p' = [p EXCEPT ![r] = out.p] /\ pm' = [pm EXCEPT ![r] = out.pm]
      /\ Goto(r, "inject") /\ UNCHANGED given /\ UNCHANGED n_recv
  BY DEF ResizeInjectLocal, ports
<1>2. /\ max_np \in [Rank -> [Species -> Nat]] /\ max_nm \in [Rank -> [Species -> Nat]]
      /\ pc \in [Rank -> Phase] /\ face \in [Rank -> 0..6]
      /\ p \in [Rank -> [Species -> Seq(Part)]] /\ pm \in [Rank -> [Species -> Seq(Mover)]]
      /\ ci[r] \in Seq(Injector) /\ n_recv[r] \in [Face -> Nat] /\ Fixed
  BY DEF Lists, Controls, Ranges
<1>3. max_np' = [max_np EXCEPT ![r] = np] /\ max_nm' = [max_nm EXCEPT ![r] = nm]
  BY <1>2 DEF ResizeInjectLocal
<1>4. RoomListed(r, out) /\ Grown(a, out, l)
  <2>1. RoomListed(r, a)
    BY ListsAre
  <2>2. l \in Nat
    BY <1>2
  <2> HIDE DEF a
  <2> QED BY <1>2, <2>1, <2>2, InjectAllIs DEF Injected
<1> HIDE DEF out
<1>5. ASSUME NEW s \in Species
      PROVE  /\ Len(out.p[s]) \in Nat /\ Len(out.p[s]) <= Len(p[r][s]) + l
             /\ Len(out.pm[s]) \in Nat /\ Len(out.pm[s]) <= Len(pm[r][s]) + l
  <2>1. l \in Nat
    BY <1>2
  <2> HIDE DEF l
  <2> QED BY <1>4, <2>1, GrownIs, Zenon
<1>6. u \in Nat /\ l \in Nat /\ MaxInj(r) = l + u
  BY <1>2, UptoIs, MaxInjIs
<1>7. ToCome(r)' = u
  <2>1. pc'[r] = "inject" /\ face'[r] = NextShared(r, 0)
    BY <1>1, <1>2 DEF Goto
  <2>2. Upto(r, NextShared(r, 0)) = 0
    BY <1>2, UptoNext
  <2>3. ToCome(r)' = Upto(r, 6) - Upto(r, face'[r])
    BY <1>1, <2>1, ToComeNext
  <2> QED BY <1>6, <2>1, <2>2, <2>3
<1>8. ASSUME NEW s \in Species
      PROVE  Len(out.p[s]) + u <= np[s] /\ Len(out.pm[s]) + u <= nm[s]
  <2> DEFINE x == Len(p[r][s])
             y == Len(pm[r][s])
  <2>1. x \in Nat /\ y \in Nat /\ max_np[r][s] \in Nat /\ max_nm[r][s] \in Nat
    BY <1>2
  <2> HIDE DEF x, y, l, u
  <2>2. x + MaxInj(r) \in Nat /\ y + MaxInj(r) \in Nat
    BY <1>6, <2>1
  <2>3. RoomNp(x + MaxInj(r), max_np[r][s]) >= x + MaxInj(r)
    BY <1>2, <2>1, <2>2, RoomIs
  <2>4. RoomNm(y + MaxInj(r), max_nm[r][s]) >= y + MaxInj(r)
    BY <1>2, <2>1, <2>2, RoomIs
  <2>5. np[s] >= x + MaxInj(r) /\ nm[s] >= y + MaxInj(r)
    BY <2>3, <2>4 DEF x, y
  <2>6. np[s] \in Int /\ nm[s] \in Int
    <3>1. MIN_NP \in Nat
      BY <1>2, FixedIs, BoundaryPAssumption DEF MIN_NP
    <3>2. \A n, max \in Nat : RoomNp(n, max) \in Int /\ RoomNm(n, max) \in Int
      BY <3>1 DEF RoomNp, RoomNm
    <3>3. np[s] = RoomNp(x + MaxInj(r), max_np[r][s]) /\ nm[s] = RoomNm(y + MaxInj(r), max_nm[r][s])
      BY DEF x, y
    <3> HIDE DEF np, nm
    <3> QED BY <2>1, <2>2, <3>2, <3>3, Zenon
  <2>7. \A o, z, v, b \in Nat : \A N \in Int : o <= z + v /\ N >= z + (v + b) => o + b <= N
    OBVIOUS
  <2> DEFINE op == Len(out.p[s])
             om == Len(out.pm[s])
  <2>8. op \in Nat /\ om \in Nat /\ op <= x + l /\ om <= y + l
    BY <1>5 DEF x, y
  <2> HIDE DEF np, nm, op, om
  <2>9. op + u <= np[s] /\ om + u <= nm[s]
    BY <1>6, <2>1, <2>5, <2>6, <2>7, <2>8
  <2> QED BY <2>9 DEF op, om
<1>9. /\ p'[r] = out.p /\ pm'[r] = out.pm /\ max_np'[r] = np /\ max_nm'[r] = nm
      /\ \A q \in Rank \ {r} : /\ pc'[q] = pc[q] /\ face'[q] = face[q] /\ n_recv'[q] = n_recv[q]
                               /\ p'[q] = p[q] /\ pm'[q] = pm[q]
                               /\ max_np'[q] = max_np[q] /\ max_nm'[q] = max_nm[q]
  <2> HIDE DEF np, nm
  <2> QED BY <1>1, <1>2, <1>3 DEF Goto
<1> HIDE DEF np, nm, u
<1>10. Fits(r, ToCome(r)', p'[r], pm'[r], max_np'[r], max_nm'[r])
  BY <1>7, <1>8, <1>9 DEF Fits
<1> QED BY <1>1, <1>9, <1>10, StorageNext

(* A neighbor's injectors are those that were still to come.               *)
LEMMA EndRecvDataFits ==
  ASSUME Lists, Exchange, Storage, NEW r \in Rank, EndRecvData(r)
  PROVE  Storage'
<1> DEFINE f == face[r]
           m == Head(Arrived(r, f))
           a == [p |-> p[r], pm |-> pm[r]]
           out == InjectAll(r, a, m.inj)
           l == n_recv[r][f]
<1>1. m.sz = posted[r][f] /\ Len(m.inj) = l
  BY EndRecvDataExchange
<1>2. /\ pc[r] = "inject" /\ f < 6 /\ Arrived(r, f) # <<>> /\ UNCHANGED given
      /\ UNCHANGED <<max_np, max_nm, n_recv>>
      /\ p' = [p EXCEPT ![r] = out.p] /\ pm' = [pm EXCEPT ![r] = out.pm]
      /\ face' = [face EXCEPT ![r] = NextShared(r, f + 1)] /\ UNCHANGED pc
  BY <1>1 DEF EndRecvData, At, NextFace
<1>3. /\ max_np \in [Rank -> [Species -> Nat]] /\ max_nm \in [Rank -> [Species -> Nat]]
      /\ pc \in [Rank -> Phase] /\ face \in [Rank -> 0..6]
      /\ p \in [Rank -> [Species -> Seq(Part)]] /\ pm \in [Rank -> [Species -> Seq(Mover)]]
      /\ n_recv[r] \in [Face -> Nat] /\ Fixed
  BY DEF Lists, Controls, Ranges
<1>4. f \in Face /\ shared(r, f)
  <2>1. f \in Face
    BY <1>2, <1>3 DEF Face
  <2> QED BY <1>2, <2>1 DEF Lists, Controls, Follow
<1>5. m.inj \in Seq(Injector)
  <2>1. m \in Message
    BY <1>2, <1>4, ArrivedIs
  <2> QED BY <2>1 DEF Message
<1>6. l \in Nat
  BY <1>3, <1>4
<1>7. RoomListed(r, out) /\ Grown(a, out, l)
  <2>1. RoomListed(r, a)
    BY ListsAre
  <2> HIDE DEF a, m, l
  <2> QED BY <1>1, <1>3, <1>5, <1>6, <2>1, InjectAllIs DEF Injected
<1> HIDE DEF out
<1>8. ASSUME NEW s \in Species
      PROVE  /\ Len(out.p[s]) \in Nat /\ Len(out.p[s]) <= Len(p[r][s]) + l
             /\ Len(out.pm[s]) \in Nat /\ Len(out.pm[s]) <= Len(pm[r][s]) + l
  <2> HIDE DEF l
  <2> QED BY <1>6, <1>7, GrownIs, Zenon
<1>9. ToCome(r)' + l = ToCome(r) /\ ToCome(r)' \in Int
  <2>1. face'[r] = NextShared(r, f + 1)
    BY <1>2, <1>3
  <2>2. Upto(r, face'[r]) = Upto(r, f) + l
    BY <1>3, <1>4, <2>1, UptoNext, Zenon
  <2>3. ToCome(r)' = Upto(r, 6) - Upto(r, face'[r])
    BY <1>2, ToComeNext
  <2>4. ToCome(r) = Upto(r, 6) - Upto(r, f)
    BY <1>2 DEF ToCome
  <2>5. Upto(r, f) \in Nat /\ Upto(r, 6) \in Nat
    <3>1. f \in 0..6 /\ 6 \in 0..6
      BY <1>3
    <3> HIDE DEF f
    <3> QED BY <1>3, <3>1, UptoIs, Zenon
  <2> HIDE DEF f, l
  <2> QED BY <1>6, <2>2, <2>3, <2>4, <2>5
<1>10. ASSUME NEW s \in Species
       PROVE  /\ Len(out.p[s]) + ToCome(r)' <= max_np[r][s]
              /\ Len(out.pm[s]) + ToCome(r)' <= max_nm[r][s]
  <2>1. /\ Len(p[r][s]) + ToCome(r) <= max_np[r][s] /\ Len(pm[r][s]) + ToCome(r) <= max_nm[r][s]
    BY DEF Storage, Fits
  <2>2. Len(p[r][s]) \in Nat /\ Len(pm[r][s]) \in Nat /\ max_np[r][s] \in Nat /\ max_nm[r][s] \in Nat
    BY <1>3
  <2> DEFINE t == ToCome(r)
             u == ToCome(r)'
             op == Len(out.p[s])
             om == Len(out.pm[s])
  <2>3. op \in Nat /\ om \in Nat /\ op <= Len(p[r][s]) + l /\ om <= Len(pm[r][s]) + l
    BY <1>8
  <2>4. u + l = t /\ u \in Int
    BY <1>9
  <2>5. Len(p[r][s]) + t <= max_np[r][s] /\ Len(pm[r][s]) + t <= max_nm[r][s]
    BY <2>1
  <2> HIDE DEF l, t, u, op, om
  <2>6. \A o, z, v, N \in Nat : \A i \in Int : o <= z + v /\ z + (i + v) <= N => o + i <= N
    OBVIOUS
  <2>7. Len(p[r][s]) + (u + l) <= max_np[r][s] /\ Len(pm[r][s]) + (u + l) <= max_nm[r][s]
    BY <2>4, <2>5
  <2>8. op + u <= max_np[r][s] /\ om + u <= max_nm[r][s]
    BY <1>6, <2>2, <2>3, <2>4, <2>6, <2>7, Zenon
  <2> QED BY <2>8 DEF op, om, u
<1>11. /\ p'[r] = out.p /\ pm'[r] = out.pm /\ max_np'[r] = max_np[r] /\ max_nm'[r] = max_nm[r]
       /\ \A q \in Rank \ {r} : /\ pc'[q] = pc[q] /\ face'[q] = face[q] /\ n_recv'[q] = n_recv[q]
                                /\ p'[q] = p[q] /\ pm'[q] = pm[q]
                                /\ max_np'[q] = max_np[q] /\ max_nm'[q] = max_nm[q]
  BY <1>2, <1>3
<1>12. Fits(r, ToCome(r)', p'[r], pm'[r], max_np'[r], max_nm'[r])
  BY <1>10, <1>11 DEF Fits
<1> QED BY <1>2, <1>11, <1>12, StorageNext

(* At first: there is room for what is loaded.                             *)
LEMMA InitFits ==
  ASSUME Init
  PROVE  Storage
<1>1. /\ Fixed /\ track \in [Ids -> Seq(Face)]
      /\ p = [r \in Rank |-> [s \in Species |-> StartP(r, s, track)]]
      /\ pm = [r \in Rank |-> [s \in Species |-> StartM(r, s, track)]]
  BY InitIs
<1>2. /\ pc = [r \in Rank |-> "begin"]
      /\ max_np = [r \in Rank |-> [s \in Species |-> setting.max_np]]
      /\ max_nm = [r \in Rank |-> [s \in Species |-> setting.max_nm]]
  BY Zenon DEF Init
<1>3. ASSUME NEW r \in Rank, NEW s \in Species
      PROVE  Len(p[r][s]) + 0 <= max_np[r][s] /\ Len(pm[r][s]) + 0 <= max_nm[r][s]
  <2>1. p[r][s] = StartP(r, s, track) /\ pm[r][s] = StartM(r, s, track)
    BY <1>1
  <2>2. Len(p[r][s]) <= setting.max_np /\ Len(pm[r][s]) <= setting.max_nm
    BY <1>1, <2>1, StartListed
  <2>3. Listed(r, p[r][s], pm[r][s])
    BY <1>1, <2>1, StartListed
  <2>4. Len(p[r][s]) \in Nat /\ Len(pm[r][s]) \in Nat
    BY <2>3 DEF Listed
  <2> QED BY <1>2, <2>2, <2>4
<1>4. \A r \in Rank : ToCome(r) = 0
  BY <1>2 DEF ToCome
<1> QED BY <1>3, <1>4 DEF Storage, Fits

(* It is an invariant.                                                     *)
LEMMA NextFits ==
  ASSUME Lists, Exchange, Storage, [Next]_vars
  PROVE  Storage'
<1>1. ASSUME NEW r \in Rank, Step(r)
      PROVE  Storage'
  BY <1>1, QuietFits, BeginFits, RemoveFits, ResizeFits, EndRecvDataFits DEF Step
<1>2. UNCHANGED vars => Storage'
  <2>1. UNCHANGED vars => UNCHANGED <<setting, derived, pc, face, n_recv, p, pm, max_np, max_nm>>
    BY DEF vars, given, local, ports
  <2>2. UNCHANGED vars => Storage' = Storage
    <3> SUFFICES ASSUME UNCHANGED vars
                 PROVE  Storage' = Storage
      OBVIOUS
    <3>1. Rank' = Rank /\ Species' = Species
      BY <2>1 DEF Rank, Species
    <3>2. \A r : ToCome(r)' = ToCome(r)
      <4>1. \A r, g : From(r, g)' = From(r, g)
        BY <2>1 DEF From, shared, bc, Tables, Rank
      <4>2. \A r, k : Upto(r, k)' = Upto(r, k)
        BY <4>1 DEF Upto
      <4> QED BY <2>1, <4>2 DEF ToCome
    <3> QED BY <2>1, <3>1, <3>2 DEF Storage, Fits
  <2> QED BY <2>2
<1> QED BY <1>1, <1>2 DEF Next, Finished

(* There is always room for what is still to come.                         *)
LEMMA StorageAlways == Spec => []Storage
<1>1. Init => Storage
  BY InitFits
<1>2. Lists /\ Exchange /\ Storage /\ [Next]_vars => Storage'
  BY NextFits
<1> QED BY <1>1, <1>2, ListsAlways, ExchangeAlways, PTL DEF Spec

(* boundary_p resizes every species for the worst case, once, before it    *)
(* injects anything: no list outgrows the room made for it, whatever the   *)
(* neighbors send and in whatever order it is taken.                       *)
THEOREM ListsFit == Spec => []StorageFits
<1>1. Lists /\ Storage => StorageFits
  <2> SUFFICES ASSUME Lists, Storage, NEW r \in Rank, NEW s \in Species
               PROVE  Len(p[r][s]) <= max_np[r][s] /\ Len(pm[r][s]) <= max_nm[r][s]
    BY DEF StorageFits
  <2>1. Len(p[r][s]) + ToCome(r) <= max_np[r][s] /\ Len(pm[r][s]) + ToCome(r) <= max_nm[r][s]
    BY DEF Storage, Fits
  <2>2. ToCome(r) \in Nat
    BY ToComeIs
  <2>3. /\ Len(p[r][s]) \in Nat /\ Len(pm[r][s]) \in Nat
        /\ max_np[r][s] \in Nat /\ max_nm[r][s] \in Nat
    BY ListsAre DEF Lists, Ranges
  <2> QED BY <2>1, <2>2, <2>3
<1> QED BY <1>1, ListsAlways, StorageAlways, PTL
-----------------------------------------------------------------------------
(* What the variables range over: rounds and numbers are bounded.          *)
Bounded == \A r \in Rank :
  /\ round[r] <= NumCommRound /\ (pc[r] \in {"leftover", "done"} <=> round[r] = NumCommRound)
  /\ \A f \in Face : n_recv[r][f] <= Cardinality(Ids)
(* The number a rank has taken is that of a list that comes.               *)
Named == \A r \in Rank, f \in Face :
  shared(r, f) /\ RecvStage(pc[r], face[r], f) = 2 => n_recv[r][f] <= Cardinality(Ids)

(* The values of a finite function.                                        *)
LEMMA ValuesFinite ==
  ASSUME NEW S, IsFiniteSet(S), NEW h, DOMAIN h = S, h = [x \in S |-> h[x]]
  PROVE  IsFiniteSet({h[x] : x \in S})
<1> DEFINE T == {h[x] : x \in S}
<1>1. h \in Surjection(S, T)
  BY DEF Surjection
<1> HIDE DEF T
<1>2. IsFiniteSet(T)
  BY <1>1, FS_Surjection
<1> QED BY <1>2 DEF T

(* A deck loads finitely many particles.                                   *)
LEMMA NamesFinite ==
  ASSUME NEW x \in Settings
  PROVE  IsFiniteSet(NamesOf(x))
<1> DEFINE R == Ranks(x.deck)
           S == SpeciesOf(x)
           D(r, s) == DOMAIN x.load[r][s]
           N(r, s) == {x.load[r][s][k].id : k \in D(r, s)}
<1>1. WellFormed(x.deck) /\ LoadIsLegal(x) /\ x.sp_list \in Seq(S)
  BY BoundaryPAssumption
<1>2. IsFiniteSet(R)
  BY <1>1, RanksAre
<1>3. IsFiniteSet(S)
  <2>1. DOMAIN x.sp_list = 1 .. Len(x.sp_list) /\ Len(x.sp_list) \in Nat
        /\ x.sp_list = [k \in DOMAIN x.sp_list |-> x.sp_list[k]]
    BY <1>1
  <2>2. IsFiniteSet(DOMAIN x.sp_list)
    BY <2>1, FS_Interval
  <2>3. IsFiniteSet({x.sp_list[k] : k \in DOMAIN x.sp_list})
    BY <2>1, <2>2, ValuesFinite
  <2> QED BY <2>3 DEF SpeciesOf
<1>4. ASSUME NEW r \in R, NEW s \in S
      PROVE  IsFiniteSet(N(r, s))
  <2>1. x.load[r][s] \in Seq([id : NamesOf(x), c : CellsOf(x.deck)])
    BY <1>1, Zenon DEF LoadIsLegal
  <2> DEFINE h == [k \in D(r, s) |-> x.load[r][s][k].id]
  <2>2. D(r, s) = 1 .. Len(x.load[r][s]) /\ Len(x.load[r][s]) \in Nat
    BY <2>1
  <2>3. IsFiniteSet(D(r, s))
    BY <2>2, FS_Interval
  <2>4. DOMAIN h = D(r, s) /\ h = [k \in D(r, s) |-> h[k]] /\ N(r, s) = {h[k] : k \in D(r, s)}
    BY Zenon
  <2> HIDE DEF h, D, N
  <2>5. IsFiniteSet({h[k] : k \in D(r, s)})
    BY <2>3, <2>4, ValuesFinite
  <2> QED BY <2>4, <2>5
<1> DEFINE h == [y \in R \X S |-> N(y[1], y[2])]
           A == {N(r, s) : r \in R, s \in S}
           B == {h[y] : y \in R \X S}
<1>5. NamesOf(x) = UNION {N(r, s) : r \in R, s \in S}
  BY DEF NamesOf
<1> HIDE DEF N, R, S
<1>6. A = B
  <2>1. ASSUME NEW r \in R, NEW s \in S
        PROVE  N(r, s) \in B
    <3>1. <<r, s>> \in R \X S /\ h[<<r, s>>] = N(r, s)
      OBVIOUS
    <3> QED BY <3>1
  <2>2. ASSUME NEW y \in R \X S
        PROVE  h[y] \in A
    <3>1. y[1] \in R /\ y[2] \in S /\ h[y] = N(y[1], y[2])
      OBVIOUS
    <3> QED BY <3>1
  <2> QED BY <2>1, <2>2
<1>7. \A y \in R \X S : IsFiniteSet(h[y])
  BY <1>4
<1>8. DOMAIN h = R \X S /\ h = [y \in R \X S |-> h[y]]
  OBVIOUS
<1> HIDE DEF h
<1>9. IsFiniteSet(R \X S)
  BY <1>2, <1>3, FS_Product
<1>10. IsFiniteSet(B)
  BY <1>8, <1>9, ValuesFinite
<1>11. \A T \in B : IsFiniteSet(T)
  BY <1>7
<1> HIDE DEF A, B
<1>12. IsFiniteSet(UNION B)
  BY <1>10, <1>11, FS_UNION
<1>13. NamesOf(x) = UNION A
  BY <1>5 DEF A
<1> QED BY <1>6, <1>12, <1>13

(* There are not more injectors on a list than particles.                  *)
LEMMA NotTooMany ==
  ASSUME Fixed, NEW seq \in Seq(Injector), Distinct(seq)
  PROVE  Len(seq) <= Cardinality(Ids)
<1> DEFINE S == 1 .. Len(seq)
           h == [k \in S |-> seq[k].id]
<1>1. IsFiniteSet(Ids)
  BY FixedIs, NamesFinite
<1>2. Len(seq) \in Nat /\ DOMAIN seq = S
  OBVIOUS
<1>3. \A k \in S : seq[k].id \in Ids
  <2> TAKE k \in S
  <2>1. seq[k] \in Injector
    <3> HIDE DEF Injector
    <3> QED BY <1>2
  <2> QED BY <2>1 DEF Injector
<1>4. h \in Injection(S, Ids)
  <2>1. h \in [S -> Ids]
    BY <1>3
  <2>2. \A j, k \in S : h[j] = h[k] => j = k
    BY <1>2 DEF Distinct
  <2> HIDE DEF h
  <2> QED BY <2>1, <2>2 DEF Injection, IsInjective
<1> HIDE DEF h, S
<1>5. Cardinality(S) <= Cardinality(Ids)
  BY <1>1, <1>4, FS_Injection
<1>6. Cardinality(S) = Len(seq)
  BY <1>2, FS_Interval DEF S
<1> QED BY <1>5, <1>6

(* The receive was posted for the injectors that come.                     *)
LEMMA NamedIs ==
  ASSUME Lists, Exchange, Whereabouts
  PROVE  Named
<1> SUFFICES ASSUME NEW r \in Rank, NEW f \in Face, shared(r, f), RecvStage(pc[r], face[r], f) = 2
             PROVE  n_recv[r][f] <= Cardinality(Ids)
  BY DEF Named
<1> DEFINE n == bc(r, f)
           g == Port(f)
           W == wire[n][g]
           L == send[n][g]
           i == SendStage(pc[n], face[n], g)
           d == SentBy(round[n], i) - TakenBy(round[r], 2)
<1>1. Fixed /\ round \in [Rank -> Nat] /\ send \in [Rank -> [Face -> Seq(Injector)]]
  BY DEF Lists, Controls, Ranges
<1>2. n \in Rank /\ g \in Face /\ Arrived(r, f) = W /\ W \in Seq(Message) /\ L \in Seq(Injector)
  BY <1>1, ArrivedIs
<1>3. Channel(round[n], i, round[r], 2, W, L, n_recv[r][f], posted[r][f])
  <2>1. Receiving(r, f, round[r], 2, Arrived(r, f), n_recv[r][f], posted[r][f])
    BY TwoEnds
  <2> QED BY <1>2, <2>1, Zenon DEF Receiving
<1>4. Distinct(L) /\ \A j \in DOMAIN W : Distinct(W[j].inj)
  <2> PICK w \in [Ids -> Spots] : Located(w, p, send, ci, wire, rhob, dropped)
    BY DEF Whereabouts
  <2> QED BY <1>2 DEF Located, Box, Boxes
<1> HIDE DEF W, L, n, g
<1>5. d \in Nat /\ Len(W) = d /\ (d = 0 => n_recv[r][f] = Len(L)) /\ (d >= 1 => Len(W[1].inj) = n_recv[r][f])
  <2>1. /\ Len(W) = d /\ (d = 0 => n_recv[r][f] = Len(L))
        /\ (d >= 1 => Len(W[1].inj) = n_recv[r][f])
    BY <1>3 DEF Channel
  <2> QED BY <1>2, <2>1
<1> HIDE DEF d
<1>6. CASE d = 0
  BY <1>1, <1>2, <1>4, <1>5, <1>6, NotTooMany
<1>7. CASE d # 0
  <2>1. d >= 1
    BY <1>5, <1>7
  <2>2. 1 \in DOMAIN W /\ W[1] \in Message
    <3> HIDE DEF Message
    <3> QED BY <1>2, <1>5, <2>1
  <2>3. W[1].inj \in Seq(Injector) /\ Distinct(W[1].inj)
    BY <1>4, <2>2 DEF Message
  <2>4. Len(W[1].inj) <= Cardinality(Ids)
    BY <1>1, <2>3, NotTooMany
  <2> QED BY <1>5, <2>1, <2>4
<1> QED BY <1>6, <1>7

(* It always is.                                                           *)
LEMMA NamedAlways == Spec => []Named
<1>1. Lists /\ Exchange /\ Whereabouts => Named
  BY NamedIs
<1> QED BY <1>1, ListsAlways, ExchangeAlways, WhereAlways, PTL

(* A step of a rank leaves the numbers of the others as they are; its own  *)
(* changes in one of them at most.                                         *)
LEMMA NextBounded ==
  ASSUME Lists, Exchange, Bounded, Named', [Next]_vars
  PROVE  Bounded'
<1>1. /\ pc \in [Rank -> Phase] /\ round \in [Rank -> Nat] /\ face \in [Rank -> 0..6]
      /\ n_recv \in [Rank -> [Face -> Nat]] /\ Fixed
  BY DEF Lists, Controls, Ranges
<1>2. UNCHANGED given
  BY Zenon DEF Next, Step, Finished, vars, Begin, EndRecvCount, EndSendCount, ResizeInjectLocal, EndRecvData,
         EndSendData, EndLoop, Return, RemoveUnprocessed
<1>3. Rank' = Rank /\ Ids' = Ids /\ NumCommRound' = NumCommRound
  BY <1>2, GivenKeeps DEF given, NumCommRound
<1>4. NumCommRound \in Nat \ {0}
  BY <1>1, FixedIs, BoundaryPAssumption DEF NumCommRound
<1>5. \A r \in Rank, f \in Face : n_recv'[r][f] <= Cardinality(Ids)
  <2>1. CASE UNCHANGED n_recv
    BY <2>1 DEF Bounded
  <2>2. ASSUME NEW q \in Rank, EndRecvCount(q), NEW r \in Rank, NEW f \in Face
        PROVE  n_recv'[r][f] <= Cardinality(Ids)
    <3> PICK e \in 0..6 : e = face[q]
      BY <1>1
    <3> DEFINE m == Head(Arrived(q, e))
    <3>1. /\ pc[q] = "count" /\ e < 6
          /\ \/ UNCHANGED n_recv
             \/ /\ n_recv' = [n_recv EXCEPT ![q][e] = m.n] /\ UNCHANGED pc
                /\ face' = [face EXCEPT ![q] = NextShared(q, e + 1)]
      BY <2>2 DEF EndRecvCount, At, NextFace
    <3>2. CASE UNCHANGED n_recv
      BY <3>2 DEF Bounded
    <3>3. CASE r # q \/ f # e
      BY <1>1, <3>1, <3>3 DEF Bounded
    <3>4. CASE r = q /\ f = e /\ ~ UNCHANGED n_recv
      <4>1. e \in Face
        BY <3>4
      <4>2. shared(q, e)
        BY <3>1, <4>1 DEF Lists, Controls, Follow
      <4>3. ~ (NextShared(q, e + 1) <= e)
        BY <4>1, <4>2, FacesPass
      <4>4. pc'[q] = "count" /\ face'[q] = NextShared(q, e + 1)
        BY <1>1, <3>1, <3>4
      <4>5. RecvStage(pc'[q], face'[q], e) = 2
        BY <4>3, <4>4 DEF RecvStage
      <4>6. shared(q, e)'
        BY <1>2, <4>2 DEF shared, bc, Tables, Rank, given
      <4> QED BY <1>3, <3>4, <4>1, <4>5, <4>6 DEF Named
    <3> QED BY <3>2, <3>3, <3>4
  <2>3. UNCHANGED n_recv \/ \E q \in Rank : EndRecvCount(q)
    BY Zenon DEF Next, Step, Finished, vars, ports, Begin, EndSendCount, ResizeInjectLocal, EndRecvData,
           EndSendData, EndLoop, Return, RemoveUnprocessed
  <2> QED BY <2>1, <2>2, <2>3
<1>6. ASSUME NEW q \in Rank
      PROVE  /\ round'[q] <= NumCommRound
             /\ pc'[q] \in {"leftover", "done"} <=> round'[q] = NumCommRound
  <2>1. round[q] <= NumCommRound /\ (pc[q] \in {"leftover", "done"} <=> round[q] = NumCommRound)
    BY DEF Bounded
  <2>2. CASE UNCHANGED <<pc, round>>
    BY <2>1, <2>2
  <2>3. ASSUME NEW r \in Rank, Step(r)
        PROVE  /\ round'[q] <= NumCommRound
               /\ pc'[q] \in {"leftover", "done"} <=> round'[q] = NumCommRound
    <3>1. CASE Return(r)
      <4>1. /\ pc[r] = "return" /\ round' = [round EXCEPT ![r] = @ + 1]
            /\ pc' = [pc EXCEPT ![r] = IF MoreRounds(r) THEN "begin" ELSE "leftover"]
        BY <3>1 DEF Return, Goto
      <4>2. CASE q = r
        <5>1. round'[q] = round[q] + 1 /\ round[q] < NumCommRound /\ round[q] \in Nat
          <6>1. round \in [Rank -> Nat]
            BY <1>1
          <6>2. round'[q] = round[q] + 1 /\ round[q] \in Nat
            BY <4>1, <4>2, <6>1
          <6>3. pc[q] = "return"
            BY <4>1, <4>2
          <6>4. round[q] <= NumCommRound /\ round[q] # NumCommRound
            BY <2>1, <6>3
          <6> QED BY <1>4, <6>2, <6>4
        <5>2. pc'[q] = IF round[q] + 1 < NumCommRound THEN "begin" ELSE "leftover"
          BY <1>1, <4>1, <4>2 DEF MoreRounds
        <5> QED BY <1>4, <5>1, <5>2
      <4> QED BY <1>1, <2>1, <4>1, <4>2
    <3>2. CASE RemoveUnprocessed(r)
      <4>1. pc[r] = "leftover" /\ UNCHANGED round /\ pc' = [pc EXCEPT ![r] = "done"]
        BY <3>2 DEF RemoveUnprocessed, Goto
      <4> QED BY <1>1, <2>1, <4>1
    <3>3. CASE ~ Return(r) /\ ~ RemoveUnprocessed(r)
      <4>1. UNCHANGED round /\ pc[r] \notin {"leftover", "done"} /\ pc'[r] \notin {"leftover", "done"}
        BY <1>1, <2>3, <3>3 DEF Step, Begin, EndRecvCount, EndSendCount, ResizeInjectLocal, EndRecvData,
                          EndSendData, EndLoop, At, Follow, Goto
      <4>2. q # r => pc'[q] = pc[q]
        BY <1>1, <2>3, <3>3 DEF Step, Begin, EndRecvCount, EndSendCount, ResizeInjectLocal,
                          EndRecvData, EndSendData, EndLoop, Goto
      <4> QED BY <2>1, <4>1, <4>2, Zenon
    <3> QED BY <3>1, <3>2, <3>3
  <2> QED BY <2>2, <2>3 DEF Next, Finished, vars
<1> QED BY <1>3, <1>5, <1>6 DEF Bounded

(* They are bounded.                                                       *)
LEMMA BoundedAlways == Spec => []Bounded
<1>1. Init => Bounded
  <2> SUFFICES ASSUME Init
               PROVE  Bounded
    OBVIOUS
  <2>1. pc = [r \in Rank |-> "begin"] /\ round = [r \in Rank |-> 0]
        /\ n_recv = [r \in Rank |-> [f \in Face |-> 0]]
    BY Zenon DEF Init
  <2>2. Fixed
    BY InitIs
  <2>3. NumCommRound \in Nat \ {0}
    BY <2>2, FixedIs, BoundaryPAssumption DEF NumCommRound
  <2>4. Cardinality(Ids) \in Nat
    BY <2>2, FixedIs, NamesFinite, FS_CardinalityType
  <2> QED BY <2>1, <2>3, <2>4 DEF Bounded
<1>2. Lists /\ Exchange /\ Bounded /\ Named' /\ [Next]_vars => Bounded'
  BY NextBounded
<1> QED BY <1>1, <1>2, ListsAlways, ExchangeAlways, NamedAlways, PTL DEF Spec

(* Every variable keeps its range: in particular no rank goes round more   *)
(* often than num_comm_round, takes a number of injectors that no list     *)
(* could hold, or has more than two messages of a port under way.          *)
THEOREM TypeIsOK == Spec => []TypeOK
<1>1. Lists /\ Exchange /\ Bounded => TypeOK
  <2> SUFFICES ASSUME Lists, Exchange, Bounded, NEW r \in Rank
               PROVE  /\ pc[r] \in Phase /\ face[r] \in 0..6 /\ round[r] \in 0..NumCommRound
                      /\ \A s \in Species :
                           /\ \A k \in DOMAIN p[r][s] : p[r][s][k].id \in Ids /\ p[r][s][k].i \in Nat
                           /\ \A k \in DOMAIN pm[r][s] : pm[r][s][k].i \in DOMAIN p[r][s]
                      /\ \A f \in Face : /\ n_recv[r][f] \in 0..Cardinality(Ids)
                                         /\ posted[r][f] \in Nat
                                         /\ Len(wire[r][f]) <= 2
    BY DEF TypeOK, Phase
  <2>1. Fixed /\ NumCommRound \in Nat
    BY FixedIs, BoundaryPAssumption DEF Lists, NumCommRound
  <2>2. Cardinality(Ids) \in Nat
    BY <2>1, FixedIs, NamesFinite, FS_CardinalityType
  <2>3. pc[r] \in Phase /\ face[r] \in 0..6 /\ round[r] \in Nat
    BY DEF Lists, Controls
  <2>4. round[r] \in 0..NumCommRound
    BY <2>1, <2>3 DEF Bounded
  <2>5. ASSUME NEW s \in Species
        PROVE  /\ \A k \in DOMAIN p[r][s] : p[r][s][k].id \in Ids /\ p[r][s][k].i \in Nat
               /\ \A k \in DOMAIN pm[r][s] : pm[r][s][k].i \in DOMAIN p[r][s]
    <3>1. Listed(r, p[r][s], pm[r][s])
      BY ListsAre, Zenon
    <3>2. \A k \in DOMAIN p[r][s] : p[r][s][k] \in Part
      <4> HIDE DEF Part
      <4> QED BY <3>1 DEF Listed
    <3> QED BY <3>1, <3>2, Zenon DEF Listed, Indexes, Part
  <2>6. ASSUME NEW f \in Face
        PROVE  /\ n_recv[r][f] \in 0..Cardinality(Ids)
               /\ posted[r][f] \in Nat
               /\ Len(wire[r][f]) <= 2
    <3>1. n_recv[r][f] \in Nat /\ posted[r][f] \in Nat
      BY DEF Lists, Ranges
    <3>2. n_recv[r][f] <= Cardinality(Ids)
      BY DEF Bounded
    <3>3. CASE shared(r, f)
      <4>1. InStep(r, f)
        BY <3>3 DEF Exchange
      <4>2. Len(wire[r][f]) <= 2
        BY <4>1 DEF InStep, Channel
      <4> QED BY <2>2, <3>1, <3>2, <4>2
    <3>4. CASE ~shared(r, f)
      <4>1. Len(wire[r][f]) = 0
        BY <3>4 DEF Exchange
      <4> QED BY <2>2, <3>1, <3>2, <4>1
    <3> QED BY <3>3, <3>4
  <2> QED BY <2>3, <2>4, <2>5, <2>6
<1> QED BY <1>1, ListsAlways, ExchangeAlways, BoundedAlways, PTL

-----------------------------------------------------------------------------
(* Particles bound for their goals, as they are injected.  One that has n  *)
(* faces to cross at least has k to cross if k is less.                    *)
LEMMA HeadedLess ==
  ASSUME NEW id, NEW G, NEW n \in Int, NEW M, Headed(id, G, n, M), NEW k \in Int, k <= n,
         Len(track[id]) \in Nat
  PROVE  Headed(id, G, k, M)
  BY DEF Headed

(* A particle that stays where it is put is where its goal is ...          *)
LEMMA HeadedFree ==
  ASSUME NEW r, NEW q, NEW m, NEW n, NEW M, Listed(r, q, m), ListHeaded(r, q, m, n, M),
         NEW e \in Part, Headed(e.id, {Home(r, e.i)}, 0, M)
  PROVE  ListHeaded(r, Append(q, e), m, n, M)
<1> DEFINE l == Len(q)
           b == Append(q, e)
<1>1. /\ l \in Nat /\ DOMAIN q = 1 .. l /\ DOMAIN b = 1 .. l + 1
      /\ b[l + 1] = e /\ \A k \in 1 .. l : b[k] = q[k]
  BY AppendIs DEF Listed
<1> HIDE DEF l, b
<1>2. ASSUME NEW k \in DOMAIN b, ~Moving(m, k)
      PROVE  Headed(b[k].id, {Home(r, b[k].i)}, 0, M)
  <2>1. CASE k = l + 1
    BY <1>1, <2>1
  <2>2. CASE k # l + 1
    <3>1. k \in DOMAIN q /\ b[k] = q[k]
      BY <1>1, <1>2, <2>2
    <3> QED BY <1>2, <3>1, Zenon DEF ListHeaded
  <2> QED BY <2>1, <2>2
<1>3. ASSUME NEW j \in DOMAIN m
      PROVE  Headed(b[m[j].i].id, Beyond(r, b[m[j].i].i, m[j].disp), Len(m[j].disp) + 1 + n, M)
  <2>1. m[j].i \in 1 .. l
    BY <1>1 DEF Listed, Indexes
  <2>2. b[m[j].i] = q[m[j].i]
    BY <1>1, <2>1, Zenon
  <2> QED BY <1>3, <2>2, Zenon DEF ListHeaded
<1> QED BY <1>2, <1>3, Zenon DEF ListHeaded, b

(* ... one that stops at a face goes on from there.                        *)
LEMMA HeadedStuck ==
  ASSUME NEW r, NEW q, NEW m, NEW n, NEW M, Listed(r, q, m), ListHeaded(r, q, m, n, M),
         NEW e \in Part, NEW v \in Mover, v.i = Len(q) + 1,
         Headed(e.id, Beyond(r, e.i, v.disp), Len(v.disp) + 1 + n, M)
  PROVE  ListHeaded(r, Append(q, e), Append(m, v), n, M)
<1> DEFINE l == Len(q)
           b == Append(q, e)
           h == Len(m)
           c == Append(m, v)
<1>1. /\ l \in Nat /\ DOMAIN q = 1 .. l /\ DOMAIN b = 1 .. l + 1
      /\ b[l + 1] = e /\ \A k \in 1 .. l : b[k] = q[k]
  BY AppendIs DEF Listed
<1>2. /\ h \in Nat /\ DOMAIN m = 1 .. h /\ DOMAIN c = 1 .. h + 1
      /\ c[h + 1] = v /\ \A k \in 1 .. h : c[k] = m[k]
  BY AppendIs DEF Listed
<1>3. v.i = l + 1
  OBVIOUS
<1> HIDE DEF l, b, h, c
<1>4. ASSUME NEW k \in DOMAIN b, ~Moving(c, k)
      PROVE  Headed(b[k].id, {Home(r, b[k].i)}, 0, M)
  <2>1. h + 1 \in DOMAIN c
    BY <1>2
  <2>2. k # l + 1
    BY <1>2, <1>3, <1>4, <2>1 DEF Moving
  <2>3. k \in DOMAIN q /\ b[k] = q[k]
    BY <1>1, <1>4, <2>2
  <2>4. ~Moving(m, k)
    <3>1. \A j \in DOMAIN m : j \in DOMAIN c /\ c[j] = m[j]
      BY <1>2
    <3> QED BY <1>4, <3>1, Zenon DEF Moving
  <2> QED BY <2>3, <2>4, Zenon DEF ListHeaded
<1>5. ASSUME NEW j \in DOMAIN c
      PROVE  Headed(b[c[j].i].id, Beyond(r, b[c[j].i].i, c[j].disp), Len(c[j].disp) + 1 + n, M)
  <2>1. CASE j = h + 1
    <3>1. c[j] = v /\ b[c[j].i] = e
      BY <1>1, <1>2, <1>3, <2>1
    <3> QED BY <3>1, Zenon
  <2>2. CASE j # h + 1
    <3>1. j \in DOMAIN m /\ c[j] = m[j]
      BY <1>2, <1>5, <2>2
    <3>2. m[j].i \in 1 .. l
      BY <1>1, <3>1 DEF Listed, Indexes
    <3>3. b[m[j].i] = q[m[j].i]
      BY <1>1, <3>2, Zenon
    <3> QED BY <3>1, <3>3, Zenon DEF ListHeaded
  <2> QED BY <2>1, <2>2
<1> QED BY <1>4, <1>5, Zenon DEF ListHeaded, b, c

(* So of the lists of every species.                                       *)
RoomHeaded(r, a, n, M) == \A s \in Species : ListHeaded(r, a.p[s], a.pm[s], n, M)

(* An injector's particle stays headed for its goal when it is injected.   *)
LEMMA InjectHeads ==
  ASSUME Fixed, track \in [Ids -> Seq(Face)], NEW r \in Rank, NEW a, RoomListed(r, a),
         NEW n \in Nat, NEW M, RoomHeaded(r, a, n + 1, M),
         NEW pi \in Injector, InjHeaded(r, pi, n, M)
  PROVE  RoomHeaded(r, Inject(r, a, pi), n + 1, M)
<1> DEFINE w == MoveP(r, pi.i, pi.disp)
           s == pi.sp
           q == a.p[s]
           e == [id |-> pi.id, i |-> w.i]
           v == [i |-> Len(q) + 1, disp |-> w.left]
           b == Inject(r, a, pi)
           h == Len(pi.disp)
<1>1. /\ pi.id \in Ids /\ pi.i \in CellNo /\ s \in Species /\ pi.disp \in Seq(Face)
      /\ h \in Nat /\ IsCell(pi.i)
  BY CellNos DEF Injector
<1>2. /\ w \in Travels(r)
      /\ ~w.stuck => Goal(Deck, Home(r, pi.i), pi.disp) = {Home(r, w.i)}
      /\ w.stuck => Goal(Deck, Home(r, pi.i), pi.disp) = Beyond(r, w.i, w.left) /\ Len(w.left) < h
  BY <1>1, MoveAims
<1>3. w.i \in Nat /\ w.stuck \in BOOLEAN /\ w.left \in Seq(Face)
  BY <1>2 DEF Travels
<1>4. /\ a.p \in [Species -> Seq(Part)] /\ a.pm \in [Species -> Seq(Mover)]
      /\ Listed(r, q, a.pm[s]) /\ ListHeaded(r, q, a.pm[s], n + 1, M)
  BY <1>1, Zenon DEF RoomListed, Room, RoomHeaded
<1>5. q \in Seq(Part) /\ a.pm[s] \in Seq(Mover) /\ Len(q) \in Nat
  BY <1>1, <1>4
<1>6. /\ b.p = [a.p EXCEPT ![s] = Append(q, e)]
      /\ b.pm = IF w.stuck
                 THEN [a.pm EXCEPT ![s] = Append(a.pm[s], [i |-> Len(Append(q, e)), disp |-> w.left])]
                 ELSE a.pm
  BY DEF Inject
<1>7. Headed(pi.id, Goal(Deck, Home(r, pi.i), pi.disp), h + 1 + n, M) /\ Len(track[pi.id]) \in Nat
  BY <1>1 DEF InjHeaded
<1> HIDE DEF w, s, q, b, h
<1>8. e \in Part /\ v \in Mover /\ e.id = pi.id /\ e.i = w.i /\ v.i = Len(q) + 1 /\ v.disp = w.left
  BY <1>1, <1>3, <1>5 DEF Part, Mover
<1>9. b.pm = IF w.stuck THEN [a.pm EXCEPT ![s] = Append(a.pm[s], v)] ELSE a.pm
  <2>1. Len(Append(q, e)) = Len(q) + 1
    BY <1>5, <1>8, AppendIs
  <2> QED BY <1>6, <2>1
<1> HIDE DEF e, v
<1>10. b.p[s] = Append(q, e) /\ b.pm[s] = IF w.stuck THEN Append(a.pm[s], v) ELSE a.pm[s]
  BY <1>1, <1>4, <1>6, <1>9
<1>11. \A t \in Species : t # s => b.p[t] = a.p[t] /\ b.pm[t] = a.pm[t]
  BY <1>1, <1>4, <1>6, <1>9
<1>12. CASE w.stuck
  <2>1. Headed(pi.id, Beyond(r, w.i, w.left), h + 1 + n, M)
    BY <1>2, <1>7, <1>12
  <2>2. Len(w.left) + 1 + (n + 1) \in Int /\ h + 1 + n \in Int /\ Len(w.left) + 1 + (n + 1) <= h + 1 + n
    <3>1. Len(w.left) \in Nat /\ Len(w.left) < h
      BY <1>2, <1>3, <1>12
    <3>2. \A x, y, z \in Nat : x < y => x + 1 + (z + 1) <= y + 1 + z
      OBVIOUS
    <3>3. \A x, z \in Nat : x + 1 + (z + 1) \in Int /\ x + 1 + z \in Int
      OBVIOUS
    <3> QED BY <1>1, <3>1, <3>2, <3>3, Zenon
  <2>3. Headed(pi.id, Beyond(r, w.i, w.left), Len(w.left) + 1 + (n + 1), M)
    BY <1>7, <2>1, <2>2, HeadedLess
  <2>4. ListHeaded(r, b.p[s], b.pm[s], n + 1, M)
    BY <1>4, <1>8, <1>10, <1>12, <2>3, HeadedStuck
  <2> QED BY <1>11, <2>4, Zenon DEF RoomHeaded, b
<1>13. CASE ~w.stuck
  <2>1. Headed(pi.id, {Home(r, w.i)}, h + 1 + n, M)
    BY <1>2, <1>7, <1>13
  <2>2. h + 1 + n \in Int /\ 0 <= h + 1 + n
    BY <1>1
  <2>3. Headed(pi.id, {Home(r, w.i)}, 0, M)
    BY <1>7, <2>1, <2>2, HeadedLess
  <2>4. ListHeaded(r, b.p[s], b.pm[s], n + 1, M)
    BY <1>4, <1>8, <1>10, <1>13, <2>3, HeadedFree
  <2> QED BY <1>11, <2>4, Zenon DEF RoomHeaded, b
<1> QED BY <1>12, <1>13

(* So do those of a message.                                               *)
LEMMA InjectAllHeads ==
  ASSUME Fixed, track \in [Ids -> Seq(Face)], NEW r \in Rank, NEW a, RoomListed(r, a),
         NEW n \in Nat, NEW M, RoomHeaded(r, a, n + 1, M),
         NEW inj \in Seq(Injector), \A k \in DOMAIN inj : InjHeaded(r, inj[k], n, M)
  PROVE  RoomHeaded(r, InjectAll(r, a, inj), n + 1, M)
<1> DEFINE B == {b \in Room : RoomListed(r, b) /\ RoomHeaded(r, b, n + 1, M)}
<1>1. Len(inj) \in Nat /\ DOMAIN inj = 1 .. Len(inj) /\ \A k \in DOMAIN inj : inj[k] \in Injector
  <2> HIDE DEF Injector
  <2> QED OBVIOUS
<1>2. InjectAll(r, a, inj) = Injecting!Right(r, 0, 0, a, inj)
  BY Zenon DEF InjectAll, InjectOp, Injecting!Right, FoldRight, MapThenFoldSet, Min,
               Injecting!Least
<1>3. a \in B
  BY DEF RoomListed
<1>4. \A k \in DOMAIN inj : \A b \in B : InjectOp(r, 0, 0, b, inj[k]) \in B
  <2> SUFFICES ASSUME NEW k \in DOMAIN inj, NEW b \in B
               PROVE  Inject(r, b, inj[k]) \in B
    BY DEF InjectOp
  <2> DEFINE c == Inject(r, b, inj[k])
  <2>1. RoomListed(r, b) /\ RoomHeaded(r, b, n + 1, M) /\ inj[k] \in Injector
    BY <1>1
  <2>2. RoomListed(r, c)
    BY <2>1, InjectIs
  <2>3. RoomHeaded(r, c, n + 1, M)
    BY <2>1, InjectHeads
  <2> HIDE DEF c
  <2>4. c \in B
    BY <2>2, <2>3 DEF RoomListed
  <2> QED BY <2>4 DEF c
<1> HIDE DEF B
<1>5. Injecting!Right(r, 0, 0, a, inj) \in B
  BY <1>1, <1>3, <1>4, Injecting!RightKeeps
<1> QED BY <1>2, <1>5 DEF B

(* Lists, injectors and names so headed, as sets, that a step changes only *)
(* with what the deck gives ...                                            *)
ListsAt ==
  [r \in Rank |-> {x \in Seq(Part) \X Seq(Mover) \X Nat \X SUBSET Ids :
                     ListHeaded(r, x[1], x[2], x[3], x[4])}]
InjsAt ==
  [r \in Rank |-> {x \in Injector \X Nat \X SUBSET Ids : InjHeaded(r, x[1], x[2], x[3])}]
EndsAt == {x \in Ids \X SUBSET Ids : Headed(x[1], {}, 0, x[2])}

(* ... which it does not.                                                  *)
LEMMA GivenHeads ==
  ASSUME UNCHANGED given
  PROVE  /\ ListsAt' = ListsAt /\ InjsAt' = InjsAt /\ EndsAt' = EndsAt
         /\ Rank' = Rank /\ Species' = Species /\ Ids' = Ids
         /\ \A r, f : bc(r, f)' = bc(r, f) /\ (shared(r, f)' <=> shared(r, f))
<1>1. setting' = setting /\ derived' = derived /\ track' = track
  BY DEF given
<1>2. Rank' = Rank /\ Species' = Species /\ Ids' = Ids /\ Part' = Part /\ Injector' = Injector
  BY <1>1, GivenKeeps
<1>3. ListsAt' = ListsAt
  BY <1>1, <1>2 DEF ListsAt, ListHeaded, Headed, Aims, Beyond, Ongoing, Home,
                        neighbor, bc, rangel, Tables, Load, Deck, Cells
<1>4. InjsAt' = InjsAt
  BY <1>1, <1>2 DEF InjsAt, InjHeaded, Headed, Aims, Home, Load, Deck, Cells
<1>5. EndsAt' = EndsAt
  BY <1>1, <1>2 DEF EndsAt, Headed, Aims, Load, Deck
<1>6. \A r, f : bc(r, f)' = bc(r, f) /\ (shared(r, f)' <=> shared(r, f))
  BY <1>1, <1>2 DEF shared, bc, Tables
<1> QED BY <1>2, <1>3, <1>4, <1>5, <1>6

-----------------------------------------------------------------------------
(* Fifth invariant: every particle is on its way to the goal of its name.  *)
(* Rank r is in its round-th round or past it: its movers have crossed as  *)
(* many ranks as that.  The injectors on their way to it through face f    *)
(* have crossed as many as it has taken.                                   *)
Turn(r) == IF pc[r] \in {"begin", "leftover", "done"} THEN round[r] ELSE round[r] + 1
Got(r, f) == IF RecvStage(pc[r], face[r], f) = 3 THEN round[r] + 1 ELSE round[r]

Carried(x, seq, n, M) == \A k \in DOMAIN seq : <<seq[k], n, M>> \in InjsAt[x]
Under(x, W, n, M) == \A j \in DOMAIN W : Carried(x, W[j].inj, n, M)

Course ==
  /\ track \in [Ids -> Seq(Face)]
  /\ \A r \in Rank :
       /\ \A s \in Species : <<p[r][s], pm[r][s], Turn(r), met>> \in ListsAt[r]
       /\ \A k \in DOMAIN ci[r] : ci[r][k].id \in met
       /\ \A f \in Face : shared(r, f) =>
            /\ Carried(bc(r, f), send[r][f], round[r], met)
            /\ Under(r, Arrived(r, f), Got(r, f), met)
  /\ \A id \in Ids : rhob[id] # 0 => <<id, met>> \in EndsAt

(* Rounds and turns are numbers.                                           *)
LEMMA TurnsAre ==
  ASSUME Lists, NEW r \in Rank
  PROVE  round[r] \in Nat /\ Turn(r) \in Nat /\ \A f : Got(r, f) \in Nat
<1>1. round[r] \in Nat
  BY DEF Lists, Controls
<1> QED BY <1>1 DEF Turn, Got

(* What holds is still so when more particles have met a custom boundary,  *)
(* or fewer faces are asked for.                                           *)
LEMMA InjsLess ==
  ASSUME track \in [Ids -> Seq(Face)], NEW x \in Rank, NEW e, NEW n, NEW M, <<e, n, M>> \in InjsAt[x],
         NEW k \in Nat, k <= n, NEW N \in SUBSET Ids, M \subseteq N
  PROVE  <<e, k, N>> \in InjsAt[x]
<1>1. e \in Injector /\ n \in Nat /\ InjHeaded(x, e, n, M)
  BY DEF InjsAt
<1>2. e.id \in Ids /\ Len(e.disp) \in Nat
  BY <1>1 DEF Injector
<1>3. Len(track[e.id]) \in Nat
  BY <1>2
<1>4. Headed(e.id, Goal(Deck, Home(x, e.i), e.disp), Len(e.disp) + 1 + n, M)
  BY <1>1 DEF InjHeaded
<1>5. /\ Len(e.disp) + 1 + n \in Int /\ Len(e.disp) + 1 + k \in Int
      /\ Len(e.disp) + 1 + k <= Len(e.disp) + 1 + n
  BY <1>1, <1>2
<1>6. Headed(e.id, Goal(Deck, Home(x, e.i), e.disp), Len(e.disp) + 1 + k, M)
  BY <1>3, <1>4, <1>5, HeadedLess
<1>7. InjHeaded(x, e, k, N)
  BY <1>6, HeadedMore, Zenon DEF InjHeaded
<1> QED BY <1>1, <1>7 DEF InjsAt

(* So of the injectors of a face ...                                       *)
LEMMA CarriedLess ==
  ASSUME track \in [Ids -> Seq(Face)], NEW x \in Rank, NEW seq, NEW n, NEW M, Carried(x, seq, n, M),
         NEW k \in Nat, k <= n, NEW N \in SUBSET Ids, M \subseteq N
  PROVE  Carried(x, seq, k, N)
  BY InjsLess, Zenon DEF Carried

(* ... of a list ...                                                       *)
LEMMA ListsMore ==
  ASSUME NEW r \in Rank, NEW q, NEW m, NEW n, NEW M, <<q, m, n, M>> \in ListsAt[r],
         NEW N \in SUBSET Ids, M \subseteq N
  PROVE  <<q, m, n, N>> \in ListsAt[r]
<1>1. q \in Seq(Part) /\ m \in Seq(Mover) /\ n \in Nat /\ ListHeaded(r, q, m, n, M)
  BY DEF ListsAt
<1>2. ListHeaded(r, q, m, n, N)
  BY <1>1, HeadedMore, Zenon DEF ListHeaded
<1> QED BY <1>1, <1>2 DEF ListsAt

(* ... and of what was accumulated to rhob.                                *)
LEMMA EndsMore ==
  ASSUME NEW id, NEW M, <<id, M>> \in EndsAt, NEW N \in SUBSET Ids, M \subseteq N
  PROVE  <<id, N>> \in EndsAt
<1>1. id \in Ids /\ Headed(id, {}, 0, M)
  BY DEF EndsAt
<1>2. Headed(id, {}, 0, N)
  BY <1>1, HeadedMore, Zenon
<1> QED BY <1>1, <1>2 DEF EndsAt

(* Messages that stay, or carry no injector.                               *)
LEMMA UnderKeeps ==
  ASSUME track \in [Ids -> Seq(Face)], NEW x \in Rank, NEW W, NEW n \in Nat, NEW M, Under(x, W, n, M),
         NEW N \in SUBSET Ids, M \subseteq N, NEW V,
         \A j \in DOMAIN V : V[j].inj = <<>> \/ \E i \in DOMAIN W : V[j] = W[i]
  PROVE  Under(x, V, n, N)
<1> SUFFICES ASSUME NEW j \in DOMAIN V
             PROVE  Carried(x, V[j].inj, n, N)
  BY DEF Under
<1>1. CASE V[j].inj = <<>>
  BY <1>1 DEF Carried
<1>2. CASE \E i \in DOMAIN W : V[j] = W[i]
  <2>1. n <= n
    OBVIOUS
  <2> QED BY <1>2, <2>1, CarriedLess, Zenon DEF Under
<1> QED BY <1>1, <1>2

(* A step of rank r.                                                       *)
LEMMA CourseNext ==
  ASSUME Lists, Course, UNCHANGED given, NEW r \in Rank, met' \in SUBSET Ids, met \subseteq met',
         \A q \in Rank \ {r} :
           /\ pc'[q] = pc[q] /\ round'[q] = round[q]
           /\ p'[q] = p[q] /\ pm'[q] = pm[q] /\ ci'[q] = ci[q] /\ send'[q] = send[q],
         \A s \in Species : <<p'[r][s], pm'[r][s], Turn(r)', met'>> \in ListsAt[r],
         \A k \in DOMAIN ci'[r] : ci'[r][k].id \in met',
         \A f \in Face : shared(r, f) => Carried(bc(r, f), send'[r][f], round'[r], met'),
         \A q \in Rank, f \in Face : shared(q, f) =>
           Under(q, wire'[bc(q, f)][Port(f)], Got(q, f)', met'),
         \A id \in Ids : rhob'[id] # 0 => <<id, met'>> \in EndsAt
  PROVE  Course'
<1>1. /\ ListsAt' = ListsAt /\ InjsAt' = InjsAt /\ EndsAt' = EndsAt
      /\ Rank' = Rank /\ Species' = Species /\ Ids' = Ids /\ track' = track
      /\ \A q, f : bc(q, f)' = bc(q, f) /\ (shared(q, f)' <=> shared(q, f))
  <2>1. track' = track
    BY DEF given
  <2> QED BY <2>1, GivenHeads
<1>2. track \in [Ids -> Seq(Face)]
  BY DEF Course
<1>3. ASSUME NEW q \in Rank
      PROVE  /\ \A s \in Species : <<p'[q][s], pm'[q][s], Turn(q)', met'>> \in ListsAt[q]
             /\ \A k \in DOMAIN ci'[q] : ci'[q][k].id \in met'
             /\ \A f \in Face : shared(q, f) => Carried(bc(q, f), send'[q][f], round'[q], met')
  <2>1. CASE q = r
    BY <2>1
  <2>2. CASE q # r
    <3>1. /\ p'[q] = p[q] /\ pm'[q] = pm[q] /\ ci'[q] = ci[q] /\ send'[q] = send[q]
          /\ round'[q] = round[q] /\ Turn(q)' = Turn(q)
      BY <2>2 DEF Turn
    <3>2. \A s \in Species : <<p'[q][s], pm'[q][s], Turn(q)', met'>> \in ListsAt[q]
      <4>1. \A s \in Species : <<p[q][s], pm[q][s], Turn(q), met>> \in ListsAt[q]
        BY DEF Course
      <4>2. \A s \in Species : <<p[q][s], pm[q][s], Turn(q), met'>> \in ListsAt[q]
        BY <4>1, ListsMore, Zenon
      <4> QED BY <3>1, <4>2
    <3>3. \A k \in DOMAIN ci'[q] : ci'[q][k].id \in met'
      BY <3>1 DEF Course
    <3>4. \A f \in Face : shared(q, f) => Carried(bc(q, f), send'[q][f], round'[q], met')
      <4> SUFFICES ASSUME NEW f \in Face, shared(q, f)
                   PROVE  Carried(bc(q, f), send[q][f], round[q], met')
        BY <3>1
      <4>1. Carried(bc(q, f), send[q][f], round[q], met) /\ bc(q, f) \in Rank
        BY DEF Course, shared
      <4>2. round[q] \in Nat /\ round[q] <= round[q]
        BY TurnsAre
      <4> QED BY <1>2, <4>1, <4>2, CarriedLess, Zenon
    <3> QED BY <3>2, <3>3, <3>4
  <2> QED BY <2>1, <2>2
<1>4. ASSUME NEW q \in Rank, NEW f \in Face, shared(q, f)
      PROVE  Under(q, Arrived(q, f)', Got(q, f)', met')
  <2>1. Arrived(q, f)' = wire'[bc(q, f)][Port(f)]
    BY <1>1 DEF Arrived
  <2> QED BY <1>4, <2>1
<1> QED BY <1>1, <1>2, <1>3, <1>4 DEF Course, Carried, Under

(* The messages on a wire, if a step takes none with injectors and adds    *)
(* none ...                                                                *)
LEMMA WireKeeps ==
  ASSUME Lists, Course, met' \in SUBSET Ids, met \subseteq met',
         NEW q \in Rank, NEW f \in Face, shared(q, f), Got(q, f)' = Got(q, f), NEW W,
         \A j \in DOMAIN W : W[j].inj = <<>> \/ \E i \in DOMAIN Arrived(q, f) : W[j] = Arrived(q, f)[i]
  PROVE  Under(q, W, Got(q, f)', met')
<1>1. Under(q, Arrived(q, f), Got(q, f), met) /\ track \in [Ids -> Seq(Face)]
  BY DEF Course
<1>2. Got(q, f) \in Nat
  BY TurnsAre
<1>3. Under(q, W, Got(q, f), met')
  BY <1>1, <1>2, UnderKeeps, Zenon
<1> QED BY <1>3

(* ... and on all of them.                                                 *)
LEMMA WiresKeep ==
  ASSUME Lists, Course, UNCHANGED given, NEW r \in Rank, met' \in SUBSET Ids, met \subseteq met',
         \A q \in Rank \ {r} : pc'[q] = pc[q] /\ face'[q] = face[q] /\ round'[q] = round[q],
         \A f \in Face : shared(r, f) => Got(r, f)' = Got(r, f),
         \A q \in Rank, f \in Face : \A j \in DOMAIN wire'[q][f] :
           wire'[q][f][j].inj = <<>> \/ \E i \in DOMAIN wire[q][f] : wire'[q][f][j] = wire[q][f][i]
  PROVE  \A q \in Rank, f \in Face : shared(q, f) =>
           Under(q, wire'[bc(q, f)][Port(f)], Got(q, f)', met')
<1> SUFFICES ASSUME NEW q \in Rank, NEW f \in Face, shared(q, f)
             PROVE  Under(q, wire'[bc(q, f)][Port(f)], Got(q, f)', met')
  OBVIOUS
<1>1. Got(q, f)' = Got(q, f)
  <2>1. CASE q = r
    BY <2>1
  <2>2. CASE q # r
    BY <2>2 DEF Got
  <2> QED BY <2>1, <2>2
<1>2. bc(q, f) \in Rank /\ Port(f) \in Face /\ Arrived(q, f) = wire[bc(q, f)][Port(f)]
  BY ArrivedIs
<1>3. \A j \in DOMAIN wire'[bc(q, f)][Port(f)] :
         \/ wire'[bc(q, f)][Port(f)][j].inj = <<>>
         \/ \E i \in DOMAIN Arrived(q, f) : wire'[bc(q, f)][Port(f)][j] = Arrived(q, f)[i]
  BY <1>2
<1> QED BY <1>1, <1>3, WireKeeps

(* Taking a message leaves the others.                                     *)
LEMMA TailStays ==
  ASSUME NEW W \in Seq(Message), W # <<>>
  PROVE  \A j \in DOMAIN Tail(W) : \E i \in DOMAIN W : Tail(W)[j] = W[i]
<1>1. /\ Len(W) \in Nat /\ DOMAIN W = 1 .. Len(W) /\ DOMAIN Tail(W) = 1 .. Len(W) - 1
      /\ \A k \in 1 .. Len(W) - 1 : Tail(W)[k] = W[k + 1]
  <2> HIDE DEF Message
  <2> QED OBVIOUS
<1> QED BY <1>1

(* The lists of a rank, the species together.                              *)
LEMMA RoomAt ==
  ASSUME NEW r \in Rank, NEW a, RoomListed(r, a), NEW n \in Nat, NEW M \in SUBSET Ids
  PROVE  RoomHeaded(r, a, n, M) <=> \A s \in Species : <<a.p[s], a.pm[s], n, M>> \in ListsAt[r]
<1>1. \A s \in Species : a.p[s] \in Seq(Part) /\ a.pm[s] \in Seq(Mover)
  BY DEF RoomListed, Room
<1> QED BY <1>1 DEF RoomHeaded, ListsAt

(* What a step leaves as it is that changes no list and no turn.           *)
LEMMA StillHeaded ==
  ASSUME Lists, Course, UNCHANGED local, NEW r \in Rank, Turn(r)' = Turn(r)
  PROVE  /\ met' \in SUBSET Ids /\ met \subseteq met'
         /\ \A s \in Species : <<p'[r][s], pm'[r][s], Turn(r)', met'>> \in ListsAt[r]
         /\ \A k \in DOMAIN ci'[r] : ci'[r][k].id \in met'
         /\ \A id \in Ids : rhob'[id] # 0 => <<id, met'>> \in EndsAt
<1>1. p' = p /\ pm' = pm /\ ci' = ci /\ rhob' = rhob /\ met' = met
  BY DEF local
<1>2. met \in SUBSET Ids
  BY DEF Lists, Ranges
<1> QED BY <1>1, <1>2 DEF Course

(* The number of a neighbor's injectors is taken.                          *)
LEMMA EndRecvCountCourse ==
  ASSUME Lists, Exchange, Course, NEW r \in Rank, EndRecvCount(r)
  PROVE  Course'
<1> DEFINE f == face[r]
           n == bc(r, f)
           g == Port(f)
<1>1. /\ pc[r] = "count" /\ f < 6 /\ Arrived(r, f) # <<>> /\ wire' = Received(r, f)
      /\ UNCHANGED given /\ UNCHANGED local /\ UNCHANGED <<send, round>>
      /\ UNCHANGED pc \/ pc' = [pc EXCEPT ![r] = "error"]
      /\ UNCHANGED face \/ NextFace(r)
  BY DEF EndRecvCount, At
<1>2. /\ Fixed /\ pc \in [Rank -> Phase] /\ face \in [Rank -> 0..6]
      /\ wire \in [Rank -> [Face -> Seq(Message)]]
  BY DEF Lists, Controls, Ranges
<1>3. f \in Face /\ shared(r, f)
  <2>1. f \in Face
    BY <1>1, <1>2 DEF Face
  <2> QED BY <1>1, <2>1 DEF Lists, Controls, Follow
<1> HIDE DEF f
<1>4. n \in Rank /\ g \in Face /\ Arrived(r, f) = wire[n][g] /\ wire[n][g] \in Seq(Message)
  BY <1>3, ArrivedIs
<1>5. wire' = [wire EXCEPT ![n][g] = Tail(wire[n][g])]
  BY <1>1 DEF Received
<1> HIDE DEF n, g
<1>6. Exchange'
  BY EndRecvCountExchange
<1>7. pc' = pc
  <2>1. pc'[r] # "error"
    <3>1. Rank' = Rank
      BY <1>1, GivenHeads
    <3> QED BY <1>6, <3>1 DEF Exchange
  <2> QED BY <1>1, <1>2, <2>1
<1>8. \A q \in Rank \ {r} : pc'[q] = pc[q] /\ face'[q] = face[q] /\ round'[q] = round[q]
  BY <1>1, <1>2, <1>7 DEF NextFace
<1>9. Turn(r)' = Turn(r) /\ \A e \in Face : Got(r, e)' = Got(r, e)
  BY <1>1, <1>7 DEF Turn, Got, RecvStage
<1>10. ASSUME NEW q \in Rank, NEW e \in Face, NEW j \in DOMAIN wire'[q][e]
       PROVE  \E i \in DOMAIN wire[q][e] : wire'[q][e][j] = wire[q][e][i]
  <2>1. CASE q = n /\ e = g
    <3>1. wire'[q][e] = Tail(wire[q][e]) /\ wire[q][e] \in Seq(Message) /\ wire[q][e] # <<>>
      BY <1>1, <1>2, <1>4, <1>5, <2>1
    <3> QED BY <1>10, <3>1, TailStays
  <2>2. CASE ~ (q = n /\ e = g)
    <3>1. wire'[q][e] = wire[q][e]
      BY <1>2, <1>4, <1>5, <2>2
    <3> QED BY <1>10, <3>1
  <2> QED BY <2>1, <2>2
<1>11. /\ met' \in SUBSET Ids /\ met \subseteq met'
       /\ \A s \in Species : <<p'[r][s], pm'[r][s], Turn(r)', met'>> \in ListsAt[r]
       /\ \A k \in DOMAIN ci'[r] : ci'[r][k].id \in met'
       /\ \A id \in Ids : rhob'[id] # 0 => <<id, met'>> \in EndsAt
  <2>1. Lists /\ Course /\ UNCHANGED local /\ Turn(r)' = Turn(r)
    BY <1>1, <1>9
  <2> QED BY <2>1, StillHeaded, Zenon
<1>12. \A q \in Rank, e \in Face : shared(q, e) =>
         Under(q, wire'[bc(q, e)][Port(e)], Got(q, e)', met')
  BY <1>1, <1>8, <1>9, <1>10, <1>11, WiresKeep
<1>13. /\ \A q \in Rank \ {r} :
            /\ p'[q] = p[q] /\ pm'[q] = pm[q] /\ ci'[q] = ci[q] /\ send'[q] = send[q]
       /\ \A e \in Face : shared(r, e) => Carried(bc(r, e), send'[r][e], round'[r], met')
  BY <1>1 DEF local, Course
<1> QED BY <1>1, <1>8, <1>11, <1>12, <1>13, CourseNext

(* A message more.                                                         *)
LEMMA UnderSent ==
  ASSUME NEW x, NEW W \in Seq(Message), NEW n, NEW M, Under(x, W, n, M), NEW L \in Seq(Injector),
         Carried(x, L, n, M)
  PROVE  Under(x, Append(W, DataMsg(L)), n, M)
<1> DEFINE m == DataMsg(L)
<1>1. m \in Message /\ m.inj = L
  BY MessagesAre, Zenon
<1> HIDE DEF m
<1>2. DOMAIN Append(W, m) = 1 .. Len(W) + 1 /\ Append(W, m)[Len(W) + 1] = m
      /\ \A k \in 1 .. Len(W) : Append(W, m)[k] = W[k]
  BY <1>1, AppendIs
<1>3. Len(W) \in Nat /\ DOMAIN W = 1 .. Len(W)
  <2> HIDE DEF Message
  <2> QED OBVIOUS
<1>4. \A j \in 1 .. Len(W) + 1 : j = Len(W) + 1 \/ j \in DOMAIN W
  BY <1>3
<1>5. Under(x, Append(W, m), n, M)
  BY <1>1, <1>2, <1>3, <1>4 DEF Under
<1> QED BY <1>5 DEF m

(* No rank has taken more rounds of a face than the other has sent.        *)
LEMMA GotLess ==
  ASSUME Lists, Exchange, NEW r \in Rank, NEW f \in Face, shared(r, f), SendStage(pc[r], face[r], f) = 1
  PROVE  Got(bc(r, f), Port(f)) <= round[r]
<1> DEFINE n == bc(r, f)
           g == Port(f)
           j == RecvStage(pc[n], face[n], g)
           a == round[r]
           b == round[n]
<1>1. n \in Rank /\ wire[r][f] \in Seq(Message)
  BY SharedIs DEF Lists, Ranges
<1>2. a \in Nat /\ b \in Nat /\ j \in 0..3
  BY <1>1, TurnsAre, StagesIn
<1>3. Len(wire[r][f]) = SentBy(a, 1) - TakenBy(b, j)
  <2>1. Sending(r, f, a, 1, wire[r][f], send[r][f])
    BY TwoEnds
  <2> QED BY <2>1, Zenon DEF Sending, Channel
<1>4. Len(wire[r][f]) \in Nat
  BY <1>1, WireIs
<1>5. Got(n, g) = IF j = 3 THEN b + 1 ELSE b
  BY DEF Got
<1> HIDE DEF n, g, j, a, b
<1>6. SentBy(a, 1) = 2 * a + 1 /\ (j # 3 => TakenBy(b, j) >= 2 * b) /\ TakenBy(b, 3) = 2 * b + 2
  BY <1>2, StagesAre DEF TakenBy
<1>7. CASE j = 3
  <2>1. Len(wire[r][f]) = (2 * a + 1) - (2 * b + 2)
    BY <1>3, <1>6, <1>7
  <2>2. 2 * a + 1 >= 2 * b + 2
    BY <1>2, <1>4, <2>1
  <2>3. b + 1 <= a
    BY <1>2, <2>2
  <2> QED BY <1>5, <1>7, <2>3 DEF n, g, a
<1>8. CASE j # 3
  <2>1. TakenBy(b, j) \in Int
    BY <1>2, StagesType
  <2>2. 2 * a + 1 >= 2 * b
    BY <1>2, <1>3, <1>4, <1>6, <1>8, <2>1
  <2>3. b <= a
    BY <1>2, <2>2
  <2> QED BY <1>5, <1>8, <2>3 DEF n, g, a
<1> QED BY <1>7, <1>8

(* The injectors loaded for a face go into a message.                      *)
LEMMA EndSendCountCourse ==
  ASSUME Lists, Exchange, Course, NEW r \in Rank, EndSendCount(r)
  PROVE  Course'
<1> DEFINE f == face[r]
           n == bc(r, f)
           g == Port(f)
           W == wire[r][f]
           L == send[r][f]
<1>1. /\ pc[r] = "data" /\ f < 6
      /\ wire' = [wire EXCEPT ![r][f] = Append(@, DataMsg(L))] /\ send' = [send EXCEPT ![r][f] = <<>>]
      /\ NextFace(r) /\ UNCHANGED given /\ UNCHANGED local /\ UNCHANGED <<pc, round>>
  BY DEF EndSendCount, At
<1>2. /\ Fixed /\ face \in [Rank -> 0..6] /\ wire \in [Rank -> [Face -> Seq(Message)]]
      /\ send \in [Rank -> [Face -> Seq(Injector)]] /\ met \in SUBSET Ids
      /\ track \in [Ids -> Seq(Face)]
  BY DEF Lists, Controls, Ranges, Course
<1>3. f \in Face /\ shared(r, f)
  <2>1. f \in Face
    BY <1>1, <1>2 DEF Face
  <2> QED BY <1>1, <2>1 DEF Lists, Controls, Follow
<1>4. SendStage(pc[r], f, f) = 1
  BY <1>1, <1>3 DEF SendStage, Face
<1>5. Got(n, g) <= round[r]
  BY <1>3, <1>4, GotLess
<1> HIDE DEF f
<1>6. /\ n \in Rank \ {r} /\ g \in Face /\ bc(n, g) = r /\ Port(g) = f /\ shared(n, g)
      /\ W \in Seq(Message) /\ L \in Seq(Injector)
  BY <1>2, <1>3, SharedIs
<1>7. Carried(n, L, round[r], met) /\ Under(n, W, Got(n, g), met)
  BY <1>3, <1>6 DEF Course, Arrived
<1> HIDE DEF n, g
<1>8. Turn(r)' = Turn(r) /\ \A e \in Face : Got(r, e)' = Got(r, e)
  BY <1>1 DEF Turn, Got, RecvStage
<1>9. \A q \in Rank \ {r} : pc'[q] = pc[q] /\ face'[q] = face[q] /\ round'[q] = round[q]
  BY <1>1, <1>2 DEF NextFace
<1>10. /\ met' \in SUBSET Ids /\ met \subseteq met'
       /\ \A s \in Species : <<p'[r][s], pm'[r][s], Turn(r)', met'>> \in ListsAt[r]
       /\ \A k \in DOMAIN ci'[r] : ci'[r][k].id \in met'
       /\ \A id \in Ids : rhob'[id] # 0 => <<id, met'>> \in EndsAt
  BY <1>1, <1>8, StillHeaded
<1>11. /\ wire'[r][f] = Append(W, DataMsg(L)) /\ send'[r][f] = <<>>
       /\ \A e \in Face : e # f => send'[r][e] = send[r][e]
       /\ \A q \in Rank, e \in Face : q # r \/ e # f => wire'[q][e] = wire[q][e]
       /\ \A q \in Rank \ {r} : send'[q] = send[q]
  BY <1>1, <1>2, <1>3
<1>12. ASSUME NEW q \in Rank, NEW e \in Face, shared(q, e)
       PROVE  Under(q, wire'[bc(q, e)][Port(e)], Got(q, e)', met')
  <2>1. Got(q, e)' = Got(q, e)
    <3>1. CASE q = r
      BY <1>8, <3>1
    <3>2. CASE q # r
      BY <1>9, <3>2 DEF Got
    <3> QED BY <3>1, <3>2
  <2>2. CASE q = n /\ e = g
    <3>1. round[r] \in Nat /\ Got(n, g) \in Nat
      BY <1>6, TurnsAre
    <3>2. Carried(n, L, Got(n, g), met)
      BY <1>2, <1>5, <1>6, <1>7, <3>1, CarriedLess
    <3>3. Under(n, Append(W, DataMsg(L)), Got(n, g), met)
      BY <1>6, <1>7, <3>2, UnderSent
    <3>4. wire'[bc(q, e)][Port(e)] = Append(W, DataMsg(L)) /\ met' = met
      BY <1>1, <1>6, <1>11, <2>2 DEF local
    <3> QED BY <2>1, <2>2, <3>3, <3>4
  <2>3. CASE ~ (q = n /\ e = g)
    <3>1. /\ bc(q, e) \in Rank /\ Port(e) \in Face /\ Port(Port(e)) = e /\ bc(bc(q, e), Port(e)) = q
      BY <1>2, <1>12, SharedIs
    <3>2. bc(q, e) # r \/ Port(e) # f
      BY <1>6, <2>3, <3>1 DEF n, g
    <3>3. wire'[bc(q, e)][Port(e)] = Arrived(q, e)
      BY <1>11, <3>1, <3>2 DEF Arrived
    <3> QED BY <1>10, <1>12, <2>1, <3>3, WireKeeps
  <2> QED BY <2>2, <2>3
<1>13. ASSUME NEW e \in Face, shared(r, e)
       PROVE  Carried(bc(r, e), send'[r][e], round'[r], met')
  <2>1. CASE e = f
    BY <1>11, <2>1 DEF Carried
  <2>2. CASE e # f
    BY <1>1, <1>11, <1>13, <2>2 DEF local, Course
  <2> QED BY <2>1, <2>2
<1>14. \A q \in Rank \ {r} : p'[q] = p[q] /\ pm'[q] = pm[q] /\ ci'[q] = ci[q] /\ send'[q] = send[q]
  BY <1>1, <1>11 DEF local
<1> QED BY <1>1, <1>9, <1>10, <1>12, <1>13, <1>14, CourseNext

(* The local injectors go onto the lists: they met a custom boundary.      *)
LEMMA ResizeCourse ==
  ASSUME Lists, Course, NEW r \in Rank, ResizeInjectLocal(r)
  PROVE  Course'
<1> DEFINE a == [p |-> p[r], pm |-> pm[r]]
           out == InjectAll(r, a, ci[r])
           n == round[r]
<1>1. /\ pc[r] = "resize" /\ p' = [p EXCEPT ![r] = out.p] /\ pm' = [pm EXCEPT ![r] = out.pm]
      /\ ci' = [ci EXCEPT ![r] = <<>>] /\ Goto(r, "inject")
      /\ UNCHANGED given /\ UNCHANGED <<round, rhob, met, send, wire>>
  BY DEF ResizeInjectLocal, ports
<1>2. /\ Fixed /\ pc \in [Rank -> Phase] /\ face \in [Rank -> 0..6]
      /\ p \in [Rank -> [Species -> Seq(Part)]] /\ pm \in [Rank -> [Species -> Seq(Mover)]]
      /\ ci \in [Rank -> Seq(Injector)] /\ met \in SUBSET Ids /\ n \in Nat
  BY TurnsAre DEF Lists, Controls, Ranges
<1>3. track \in [Ids -> Seq(Face)] /\ RoomListed(r, a) /\ ci[r] \in Seq(Injector)
  BY <1>2, ListsAre DEF Course
<1>4. RoomHeaded(r, a, n + 1, met)
  <2>1. Turn(r) = n + 1 /\ n + 1 \in Nat
    BY <1>1, <1>2 DEF Turn
  <2>2. \A s \in Species : <<a.p[s], a.pm[s], n + 1, met>> \in ListsAt[r]
    BY <2>1 DEF Course
  <2> HIDE DEF a
  <2> QED BY <1>2, <1>3, <2>1, <2>2, RoomAt
<1>5. \A k \in DOMAIN ci[r] : InjHeaded(r, ci[r][k], n, met)
  BY DEF Course, InjHeaded, Headed
<1> HIDE DEF a
<1>6. RoomListed(r, out) /\ RoomHeaded(r, out, n + 1, met)
  <2>1. RoomListed(r, out)
    BY <1>2, <1>3, InjectAllIs DEF Injected
  <2>2. RoomHeaded(r, out, n + 1, met)
    BY <1>2, <1>3, <1>4, <1>5, InjectAllHeads
  <2> QED BY <2>1, <2>2
<1> HIDE DEF out
<1>7. pc'[r] = "inject" /\ face'[r] = NextShared(r, 0) /\ round'[r] = n
      /\ \A q \in Rank \ {r} :
            /\ pc'[q] = pc[q] /\ face'[q] = face[q] /\ round'[q] = round[q]
            /\ p'[q] = p[q] /\ pm'[q] = pm[q] /\ ci'[q] = ci[q] /\ send'[q] = send[q]
  BY <1>1, <1>2 DEF Goto
<1>8. Turn(r)' = n + 1 /\ \A e \in Face : shared(r, e) => Got(r, e)' = Got(r, e)
  <2>1. \A e \in Face : shared(r, e) => NextShared(r, 0) <= e
    BY FacesAll
  <2> QED BY <1>1, <1>7, <2>1 DEF Turn, Got, RecvStage
<1>9. \A s \in Species : <<p'[r][s], pm'[r][s], Turn(r)', met'>> \in ListsAt[r]
  <2>1. n + 1 \in Nat
    BY <1>2
  <2>2. \A s \in Species : <<out.p[s], out.pm[s], n + 1, met>> \in ListsAt[r]
    BY <1>2, <1>6, <2>1, RoomAt
  <2>3. p'[r] = out.p /\ pm'[r] = out.pm /\ met' = met
    BY <1>1, <1>2
  <2> QED BY <1>8, <2>2, <2>3
<1>10. ci'[r] = <<>>
  BY <1>1, <1>2
<1>11. \A q \in Rank, e \in Face : shared(q, e) =>
         Under(q, wire'[bc(q, e)][Port(e)], Got(q, e)', met')
  <2>1. met' \in SUBSET Ids /\ met \subseteq met' /\ wire' = wire
    BY <1>1, <1>2
  <2>2. \A q \in Rank, e \in Face : \A j \in DOMAIN wire'[q][e] :
           wire'[q][e][j].inj = <<>> \/ \E i \in DOMAIN wire[q][e] : wire'[q][e][j] = wire[q][e][i]
    BY <2>1
  <2>3. \A q \in Rank \ {r} : pc'[q] = pc[q] /\ face'[q] = face[q] /\ round'[q] = round[q]
    BY <1>7
  <2> QED BY <1>1, <1>8, <2>1, <2>2, <2>3, WiresKeep
<1>12. /\ \A e \in Face : shared(r, e) => Carried(bc(r, e), send'[r][e], round'[r], met')
       /\ \A id \in Ids : rhob'[id] # 0 => <<id, met'>> \in EndsAt
       /\ met' \in SUBSET Ids /\ met \subseteq met'
       /\ \A k \in DOMAIN ci'[r] : ci'[r][k].id \in met'
  BY <1>1, <1>2, <1>10 DEF Course
<1> QED BY <1>1, <1>7, <1>9, <1>11, <1>12, CourseNext

(* Those of a message go onto the lists: their senders are no more than    *)
(* this round ahead, and no others follow before the next.                 *)
LEMMA EndRecvDataCourse ==
  ASSUME Lists, Exchange, Course, NEW r \in Rank, EndRecvData(r)
  PROVE  Course'
<1> DEFINE f == face[r]
           n == bc(r, f)
           g == Port(f)
           W == wire[n][g]
           m == Head(Arrived(r, f))
           a == [p |-> p[r], pm |-> pm[r]]
           out == InjectAll(r, a, m.inj)
           t == round[r]
           h == NextShared(r, f + 1)
<1>1. /\ pc[r] = "inject" /\ f < 6 /\ Arrived(r, f) # <<>> /\ wire' = Received(r, f)
      /\ UNCHANGED given /\ UNCHANGED <<round, ci, rhob, met, send>>
      /\ m.sz = posted[r][f] => /\ p' = [p EXCEPT ![r] = out.p] /\ pm' = [pm EXCEPT ![r] = out.pm]
                                /\ face' = [face EXCEPT ![r] = h] /\ UNCHANGED pc
  BY DEF EndRecvData, At, NextFace
<1>2. /\ Fixed /\ face \in [Rank -> 0..6] /\ p \in [Rank -> [Species -> Seq(Part)]]
      /\ pm \in [Rank -> [Species -> Seq(Mover)]]
      /\ wire \in [Rank -> [Face -> Seq(Message)]] /\ met \in SUBSET Ids /\ t \in Nat
      /\ track \in [Ids -> Seq(Face)]
  BY TurnsAre DEF Lists, Controls, Ranges, Course
<1>3. f \in Face /\ shared(r, f)
  <2>1. f \in Face
    BY <1>1, <1>2 DEF Face
  <2> QED BY <1>1, <2>1 DEF Lists, Controls, Follow
<1>4. /\ p' = [p EXCEPT ![r] = out.p] /\ pm' = [pm EXCEPT ![r] = out.pm]
      /\ face' = [face EXCEPT ![r] = h] /\ UNCHANGED pc
  BY <1>1, EndRecvDataExchange
<1>5. RecvStage(pc[r], f, f) = 2 /\ Got(r, f) = t /\ Turn(r) = t + 1
  BY <1>1, <1>3 DEF RecvStage, Face, Got, Turn
<1>6. Receiving(r, f, t, 2, Arrived(r, f), n_recv[r][f], posted[r][f])
  BY <1>3, <1>5, TwoEnds
<1> HIDE DEF f
<1>7. /\ n \in Rank \ {r} /\ g \in Face /\ bc(n, g) = r /\ Port(g) = f
      /\ Arrived(r, f) = W /\ W \in Seq(Message) /\ W # <<>>
  BY <1>1, <1>2, <1>3, SharedIs DEF Arrived
<1>8. \A j \in DOMAIN Tail(W) : Tail(W)[j].inj = <<>>
  <2> DEFINE d == SentBy(round[n], SendStage(pc[n], face[n], g)) - TakenBy(t, 2)
  <2>1. Len(W) = d /\ d <= 2 /\ (d = 2 => IsCount(W[2]))
    BY <1>6, <1>7, Zenon DEF Receiving, Channel
  <2> HIDE DEF d
  <2>2. Len(W) \in Nat /\ DOMAIN Tail(W) = 1 .. Len(W) - 1 /\ \A k \in 1 .. Len(W) - 1 : Tail(W)[k] = W[k + 1]
    <3> HIDE DEF W, Message
    <3> QED BY <1>7
  <2>3. \A j \in DOMAIN Tail(W) : Len(W) = 2 /\ Tail(W)[j] = W[2]
    BY <2>1, <2>2
  <2> QED BY <2>1, <2>3 DEF IsCount
<1>9. m \in Message /\ m = W[1] /\ 1 \in DOMAIN W /\ m.inj \in Seq(Injector)
  <2>1. m = W[1] /\ W[1] \in Message /\ 1 \in DOMAIN W
    <3> HIDE DEF W, Message
    <3> QED BY <1>7
  <2> QED BY <2>1 DEF Message
<1>10. \A k \in DOMAIN m.inj : InjHeaded(r, m.inj[k], t, met)
  <2>1. Under(r, W, t, met)
    BY <1>3, <1>5, <1>7 DEF Course, f
  <2>2. Carried(r, m.inj, t, met)
    BY <1>9, <2>1 DEF Under
  <2> QED BY <2>2 DEF Carried, InjsAt
<1>11. wire' = [wire EXCEPT ![n][g] = Tail(W)]
  BY <1>1 DEF Received
<1>12. RoomListed(r, a)
  BY ListsAre
<1>13. RoomHeaded(r, a, t + 1, met)
  <2>1. t + 1 \in Nat
    BY <1>2
  <2>2. \A s \in Species : <<a.p[s], a.pm[s], t + 1, met>> \in ListsAt[r]
    BY <1>5 DEF Course
  <2> HIDE DEF a
  <2> QED BY <1>2, <1>12, <2>1, <2>2, RoomAt
<1> HIDE DEF a, m
<1>14. RoomListed(r, out) /\ RoomHeaded(r, out, t + 1, met)
  <2>1. RoomListed(r, out)
    BY <1>2, <1>9, <1>12, InjectAllIs DEF Injected
  <2>2. RoomHeaded(r, out, t + 1, met)
    BY <1>2, <1>9, <1>10, <1>12, <1>13, InjectAllHeads
  <2> QED BY <2>1, <2>2
<1> HIDE DEF out, W, n, g
<1>15. h \in 0..6 /\ ~ (h <= f) /\ \A e \in Face : shared(r, e) /\ e # f => (h <= e <=> f <= e)
  BY <1>3, FacesPass
<1> HIDE DEF h
<1>16. /\ pc' = pc /\ face'[r] = h /\ round' = round
       /\ \A q \in Rank \ {r} :
            /\ pc'[q] = pc[q] /\ face'[q] = face[q] /\ round'[q] = round[q]
            /\ p'[q] = p[q] /\ pm'[q] = pm[q] /\ ci'[q] = ci[q] /\ send'[q] = send[q]
  BY <1>1, <1>2, <1>4
<1>17. Turn(r)' = t + 1 /\ \A e \in Face : shared(r, e) /\ e # f => Got(r, e)' = Got(r, e)
  BY <1>1, <1>15, <1>16 DEF Turn, Got, RecvStage, f
<1>18. \A s \in Species : <<p'[r][s], pm'[r][s], Turn(r)', met'>> \in ListsAt[r]
  <2>1. t + 1 \in Nat
    BY <1>2
  <2>2. \A s \in Species : <<out.p[s], out.pm[s], t + 1, met>> \in ListsAt[r]
    BY <1>2, <1>14, <2>1, RoomAt
  <2>3. p'[r] = out.p /\ pm'[r] = out.pm /\ met' = met
    BY <1>1, <1>2, <1>4
  <2> QED BY <1>17, <2>2, <2>3
<1>19. /\ wire'[n][g] = Tail(W)
       /\ \A q \in Rank, e \in Face : q # n \/ e # g => wire'[q][e] = wire[q][e]
  BY <1>2, <1>7, <1>11
<1>20. met' \in SUBSET Ids /\ met \subseteq met'
  BY <1>1, <1>2
<1>21. ASSUME NEW q \in Rank, NEW e \in Face, shared(q, e)
       PROVE  Under(q, wire'[bc(q, e)][Port(e)], Got(q, e)', met')
  <2>1. CASE q = r /\ e = f
    <3>1. wire'[bc(q, e)][Port(e)] = Tail(W)
      BY <1>19, <2>1 DEF n, g
    <3> QED BY <1>8, <3>1 DEF Under, Carried
  <2>2. CASE ~ (q = r /\ e = f)
    <3>1. Got(q, e)' = Got(q, e)
      <4>1. CASE q = r
        BY <1>17, <1>21, <2>2, <4>1
      <4>2. CASE q # r
        BY <1>16, <4>2 DEF Got
      <4> QED BY <4>1, <4>2
    <3>2. /\ bc(q, e) \in Rank /\ Port(e) \in Face /\ Port(Port(e)) = e /\ bc(bc(q, e), Port(e)) = q
      BY <1>2, <1>21, SharedIs
    <3>3. bc(q, e) # n \/ Port(e) # g
      BY <1>7, <2>2, <3>2
    <3>4. wire'[bc(q, e)][Port(e)] = Arrived(q, e)
      BY <1>19, <3>2, <3>3 DEF Arrived
    <3> QED BY <1>20, <1>21, <3>1, <3>4, WireKeeps
  <2> QED BY <2>1, <2>2
<1>22. /\ \A e \in Face : shared(r, e) => Carried(bc(r, e), send'[r][e], round'[r], met')
       /\ \A id \in Ids : rhob'[id] # 0 => <<id, met'>> \in EndsAt
       /\ \A k \in DOMAIN ci'[r] : ci'[r][k].id \in met'
  BY <1>1 DEF Course
<1> QED BY <1>1, <1>16, <1>18, <1>20, <1>21, <1>22, CourseNext

(* A step that touches no list and no message.                             *)
LEMMA QuietCourse ==
  ASSUME Lists, Course, UNCHANGED given, UNCHANGED local, UNCHANGED <<send, wire>>, NEW r \in Rank,
         \A q \in Rank \ {r} : pc'[q] = pc[q] /\ face'[q] = face[q] /\ round'[q] = round[q],
         Turn(r)' = Turn(r), \A f \in Face : shared(r, f) => Got(r, f)' = Got(r, f),
         round'[r] = round[r] \/ \A f \in Face : shared(r, f) => send[r][f] = <<>>
  PROVE  Course'
<1>1. /\ met' \in SUBSET Ids /\ met \subseteq met'
      /\ \A s \in Species : <<p'[r][s], pm'[r][s], Turn(r)', met'>> \in ListsAt[r]
      /\ \A k \in DOMAIN ci'[r] : ci'[r][k].id \in met'
      /\ \A id \in Ids : rhob'[id] # 0 => <<id, met'>> \in EndsAt
  BY StillHeaded
<1>2. \A q \in Rank, e \in Face : shared(q, e) =>
        Under(q, wire'[bc(q, e)][Port(e)], Got(q, e)', met')
  <2>1. \A q \in Rank, e \in Face : \A j \in DOMAIN wire'[q][e] :
           wire'[q][e][j].inj = <<>> \/ \E i \in DOMAIN wire[q][e] : wire'[q][e][j] = wire[q][e][i]
    OBVIOUS
  <2> QED BY <1>1, <2>1, WiresKeep
<1>3. \A f \in Face : shared(r, f) => Carried(bc(r, f), send'[r][f], round'[r], met')
  <2>1. send' = send /\ met' = met
    BY DEF local
  <2>2. CASE round'[r] = round[r]
    BY <2>1, <2>2 DEF Course
  <2>3. CASE \A f \in Face : shared(r, f) => send[r][f] = <<>>
    BY <2>1, <2>3 DEF Carried
  <2> QED BY <2>2, <2>3
<1>4. \A q \in Rank \ {r} :
        /\ pc'[q] = pc[q] /\ round'[q] = round[q]
        /\ p'[q] = p[q] /\ pm'[q] = pm[q] /\ ci'[q] = ci[q] /\ send'[q] = send[q]
  BY DEF local
<1> QED BY <1>1, <1>2, <1>3, <1>4, CourseNext

(* A loop goes on, ends, or the round does.                                *)
LEMMA LoopCourse ==
  ASSUME Lists, Exchange, Course, NEW r \in Rank, EndSendData(r) \/ EndLoop(r) \/ Return(r)
  PROVE  Course'
<1>1. /\ pc \in [Rank -> Phase] /\ face \in [Rank -> 0..6] /\ round \in [Rank -> Nat]
  BY DEF Lists, Controls
<1>2. CASE EndSendData(r)
  <2>1. /\ pc[r] = "finish" /\ NextFace(r) /\ UNCHANGED given /\ UNCHANGED local
        /\ UNCHANGED <<pc, round, send, wire>>
    BY <1>2 DEF EndSendData, At, ports
  <2>2. \A q \in Rank \ {r} : pc'[q] = pc[q] /\ face'[q] = face[q] /\ round'[q] = round[q]
    BY <1>1, <2>1 DEF NextFace
  <2>3. Turn(r)' = Turn(r) /\ \A f \in Face : Got(r, f)' = Got(r, f)
    BY <2>1 DEF Turn, Got, RecvStage
  <2> QED BY <2>1, <2>2, <2>3, QuietCourse
<1>3. CASE EndLoop(r)
  <2>1. /\ pc[r] \in DOMAIN Follow /\ face[r] = 6 /\ Goto(r, Follow[pc[r]])
        /\ UNCHANGED given /\ UNCHANGED local /\ UNCHANGED <<round, send, wire>>
    BY <1>3 DEF EndLoop, ports
  <2>2. /\ \A q \in Rank \ {r} : pc'[q] = pc[q] /\ face'[q] = face[q] /\ round'[q] = round[q]
        /\ pc'[r] = Follow[pc[r]] /\ face'[r] = NextShared(r, 0) /\ round' = round
    BY <1>1, <2>1 DEF Goto
  <2>3. Turn(r)' = Turn(r) /\ \A f \in Face : Got(r, f)' = Got(r, f)
    <3>1. \A f \in Face : ~ (6 <= f)
      BY DEF Face
    <3>2. CASE pc[r] = "count"
      <4>1. pc'[r] = "data"
        BY <2>2, <3>2 DEF Follow
      <4> QED BY <2>1, <2>2, <3>1, <3>2, <4>1 DEF Turn, Got, RecvStage
    <3>3. CASE pc[r] = "data"
      <4>1. pc'[r] = "resize"
        BY <2>2, <3>3 DEF Follow
      <4> QED BY <2>1, <2>2, <3>1, <3>3, <4>1 DEF Turn, Got, RecvStage
    <3>4. CASE pc[r] = "inject"
      <4>1. pc'[r] = "finish"
        BY <2>2, <3>4 DEF Follow
      <4> QED BY <2>1, <2>2, <3>1, <3>4, <4>1 DEF Turn, Got, RecvStage
    <3>5. CASE pc[r] = "finish"
      <4>1. pc'[r] = "return"
        BY <2>2, <3>5 DEF Follow
      <4> QED BY <2>1, <2>2, <3>1, <3>5, <4>1 DEF Turn, Got, RecvStage
    <3> QED BY <2>1, <3>2, <3>3, <3>4, <3>5 DEF Follow
  <2> QED BY <2>1, <2>2, <2>3, QuietCourse
<1>4. CASE Return(r)
  <2> DEFINE ph == IF MoreRounds(r) THEN "begin" ELSE "leftover"
  <2>1. /\ pc[r] = "return" /\ Goto(r, ph) /\ round' = [round EXCEPT ![r] = @ + 1]
        /\ UNCHANGED given /\ UNCHANGED local /\ UNCHANGED <<send, wire>>
    BY <1>4 DEF Return, ports
  <2>2. ph \in {"begin", "leftover"}
    OBVIOUS
  <2> HIDE DEF ph
  <2>3. /\ \A q \in Rank \ {r} : pc'[q] = pc[q] /\ face'[q] = face[q] /\ round'[q] = round[q]
        /\ pc'[r] = ph /\ round'[r] = round[r] + 1
    BY <1>1, <2>1 DEF Goto
  <2>4. Turn(r)' = Turn(r) /\ \A f \in Face : Got(r, f)' = Got(r, f)
    BY <2>1, <2>2, <2>3 DEF Turn, Got, RecvStage
  <2>5. ASSUME NEW f \in Face, shared(r, f)
        PROVE  send[r][f] = <<>>
    <3>1. SendStage(pc[r], face[r], f) = 3
      BY <2>1 DEF SendStage
    <3>2. Sending(r, f, round[r], 3, wire[r][f], send[r][f])
      BY <2>5, <3>1, TwoEnds
    <3> QED BY <3>2 DEF Sending, Channel
  <2> QED BY <2>1, <2>3, <2>4, <2>5, QuietCourse
<1> QED BY <1>2, <1>3, <1>4

(* The particles that stay on a list when its movers are removed.          *)
LEMMA StayedHeaded ==
  ASSUME NEW r \in Rank, NEW s \in Species, NEW q, Stayed(r, s, q), p[r][s] \in Seq(Part),
         NEW n, NEW M \in SUBSET Ids, ListHeaded(r, p[r][s], pm[r][s], n, M), NEW k \in Nat
  PROVE  <<q, <<>>, k, M>> \in ListsAt[r]
<1>1. q \in Seq(Part)
  BY DEF Stayed, Listed
<1>2. \A i \in DOMAIN q : Headed(q[i].id, {Home(r, q[i].i)}, 0, M)
  <2>1. ASSUME NEW i \in DOMAIN q
        PROVE  \E h \in DOMAIN p[r][s] : ~Moving(pm[r][s], h) /\ q[i] = p[r][s][h]
    BY DEF Stayed, Stay
  <2> QED BY <2>1, Zenon DEF ListHeaded
<1> DEFINE e == <<>>
<1>3. e \in Seq(Mover) /\ DOMAIN e = {}
  OBVIOUS
<1> HIDE DEF e
<1>4. ListHeaded(r, q, e, k, M)
  BY <1>2, <1>3, Zenon DEF ListHeaded
<1>5. <<q, e, k, M>> \in ListsAt[r]
  BY <1>1, <1>3, <1>4 DEF ListsAt
<1> QED BY <1>5 DEF e

(* Before a round the particles of a rank are headed for their goals.      *)
LEMMA SetoffIs ==
  ASSUME Lists, Course, NEW r \in Rank, pc[r] \in {"begin", "leftover"}
  PROVE  Setoff(r)
<1>1. Turn(r) = round[r] /\ round[r] \in Nat /\ track \in [Ids -> Seq(Face)]
  BY TurnsAre DEF Turn, Course
<1>2. \A s \in Species : ListHeaded(r, p[r][s], pm[r][s], round[r], met)
  BY <1>1 DEF Course, ListsAt
<1>3. \A id \in Ids : rhob[id] # 0 => Headed(id, {}, 0, met)
  BY DEF Course, EndsAt
<1> QED BY <1>1, <1>2, <1>3 DEF Setoff

(* A round begins: the injectors it loads are headed for their goals, and  *)
(* a neighbor has taken none of them yet.                                  *)
LEMMA BeginCourse ==
  ASSUME Lists, Course, NEW r \in Rank, Begin(r)
  PROVE  Course'
<1> PICK back \in Draws(r) :
      LET out == LoadAll(r, back) IN
      /\ p' = [p EXCEPT ![r] = out.p]
      /\ pm' = [pm EXCEPT ![r] = [s \in Species |-> <<>>]]
      /\ ci' = [ci EXCEPT ![r] = out.ci]
      /\ send' = [send EXCEPT ![r] = out.send]
      /\ rhob' = out.rhob
      /\ met' = out.met
      /\ wire' = [wire EXCEPT ![r] = [f \in Face |->
           IF shared(r, f) THEN Append(@[f], CountMsg(Len(out.send[f]))) ELSE @[f]]]
  BY Zenon DEF Begin
<1> DEFINE out == LoadAll(r, back)
           M == [s \in Species |-> <<>>]
<1>1. pc[r] = "begin" /\ UNCHANGED given /\ UNCHANGED round /\ Goto(r, "count")
  BY DEF Begin
<1>2. /\ Fixed /\ p \in [Rank -> [Species -> Seq(Part)]] /\ pm \in [Rank -> [Species -> Seq(Mover)]]
      /\ rhob \in [Ids -> Nat] /\ tally[r] \in [Species -> Nat] /\ met \in SUBSET Ids
      /\ dropped \in SUBSET Ids /\ wire \in [Rank -> [Face -> Seq(Message)]]
      /\ ci \in [Rank -> Seq(Injector)] /\ send \in [Rank -> [Face -> Seq(Injector)]]
      /\ pc \in [Rank -> Phase] /\ face \in [Rank -> 0..6]
  BY DEF Lists, Controls, Ranges
<1>3. Loaded(r, out) /\ Kept(r, out) /\ \A s \in Species : Stayed(r, s, out.p[s])
  BY <1>2, ListsAre, LoadAllIs, Zenon
<1>4. Setoff(r) /\ Ahead(r, out)
  BY <1>1, <1>3, SetoffIs DEF Kept
<1>5. /\ out.send \in [Face -> Seq(Injector)] /\ out.met \in SUBSET Ids /\ met \subseteq out.met
  BY <1>3, <1>4 DEF Loaded, Buffers, Ahead
<1>6. /\ p' = [p EXCEPT ![r] = out.p] /\ pm' = [pm EXCEPT ![r] = M]
      /\ ci' = [ci EXCEPT ![r] = out.ci] /\ send' = [send EXCEPT ![r] = out.send]
      /\ rhob' = out.rhob /\ met' = out.met
      /\ wire' = [wire EXCEPT ![r] = [f \in Face |->
           IF shared(r, f) THEN Append(wire[r][f], CountMsg(Len(out.send[f]))) ELSE wire[r][f]]]
  OBVIOUS
<1> HIDE DEF out
<1>7. /\ \A q \in Rank \ {r} :
           /\ pc'[q] = pc[q] /\ face'[q] = face[q] /\ round'[q] = round[q]
           /\ p'[q] = p[q] /\ pm'[q] = pm[q] /\ ci'[q] = ci[q] /\ send'[q] = send[q]
      /\ pc'[r] = "count" /\ round'[r] = round[r] /\ p'[r] = out.p /\ pm'[r] = M
      /\ ci'[r] = out.ci /\ send'[r] = out.send
  BY <1>1, <1>2, <1>6 DEF Goto
<1>8. \A f \in Face : Got(r, f)' = Got(r, f)
  BY <1>1, <1>7 DEF Got, RecvStage
<1>9. ASSUME NEW q \in Rank, NEW f \in Face, NEW j \in DOMAIN wire'[q][f]
      PROVE  wire'[q][f][j].inj = <<>> \/ \E i \in DOMAIN wire[q][f] : wire'[q][f][j] = wire[q][f][i]
  <2>1. CASE q = r /\ shared(r, f)
    <3> DEFINE m == CountMsg(Len(out.send[f]))
               W == wire[q][f]
    <3>1. wire'[q][f] = Append(W, m) /\ W \in Seq(Message)
      BY <1>2, <1>6, <2>1
    <3>2. Len(out.send[f]) \in Nat
      BY <1>5
    <3>3. m \in Message /\ m.inj = <<>>
      BY <3>2, MessagesAre, Zenon DEF IsCount
    <3> HIDE DEF m, W
    <3>4. /\ DOMAIN Append(W, m) = 1 .. Len(W) + 1 /\ Append(W, m)[Len(W) + 1] = m
          /\ \A k \in 1 .. Len(W) : Append(W, m)[k] = W[k]
      BY <3>1, <3>3, AppendIs
    <3>5. Len(W) \in Nat /\ DOMAIN W = 1 .. Len(W)
      <4> HIDE DEF Message
      <4> QED BY <3>1
    <3>6. j = Len(W) + 1 \/ j \in DOMAIN W
      BY <1>9, <3>1, <3>4, <3>5
    <3>7. Append(W, m)[j].inj = <<>> \/ \E i \in DOMAIN W : Append(W, m)[j] = W[i]
      BY <3>3, <3>4, <3>5, <3>6
    <3> QED BY <3>1, <3>7 DEF W
  <2>2. CASE ~ (q = r /\ shared(r, f))
    <3>1. wire'[q][f] = wire[q][f]
      BY <1>2, <1>6, <2>2
    <3> QED BY <1>9, <3>1
  <2> QED BY <2>1, <2>2
<1>10. met' \in SUBSET Ids /\ met \subseteq met'
  BY <1>5, <1>6
<1>11. \A q \in Rank, f \in Face : shared(q, f) =>
         Under(q, wire'[bc(q, f)][Port(f)], Got(q, f)', met')
  BY <1>1, <1>7, <1>8, <1>9, <1>10, WiresKeep, ZenonT(60)
<1>12. ASSUME NEW s \in Species
       PROVE  <<p'[r][s], pm'[r][s], Turn(r)', met'>> \in ListsAt[r]
  <2>1. Turn(r)' = round[r] + 1 /\ round[r] + 1 \in Nat
    <3>1. round[r] \in Nat
      BY TurnsAre
    <3> QED BY <1>7, <3>1 DEF Turn
  <2>2. ListHeaded(r, p[r][s], pm[r][s], round[r], met)
    BY <1>4 DEF Setoff
  <2>3. p[r][s] \in Seq(Part)
    BY <1>2
  <2>4. <<out.p[s], <<>>, round[r] + 1, met>> \in ListsAt[r]
    BY <1>2, <1>3, <2>1, <2>2, <2>3, StayedHeaded
  <2>5. <<out.p[s], <<>>, round[r] + 1, met'>> \in ListsAt[r]
    BY <1>10, <2>4, ListsMore
  <2> QED BY <1>7, <2>1, <2>5
<1>13. ASSUME NEW f \in Face, shared(r, f)
       PROVE  Carried(bc(r, f), send'[r][f], round'[r], met')
  <2>1. bc(r, f) \in Rank /\ round[r] \in Nat
    BY <1>2, <1>13, SharedIs, TurnsAre
  <2>2. \A k \in DOMAIN out.send[f] : out.send[f][k] \in Injector
    <3>1. out.send[f] \in Seq(Injector)
      BY <1>5
    <3> HIDE DEF Injector
    <3> QED BY <3>1
  <2>3. \A k \in DOMAIN out.send[f] : InjHeaded(bc(r, f), out.send[f][k], round[r], out.met)
    BY <1>4 DEF Ahead
  <2>4. Carried(bc(r, f), out.send[f], round[r], out.met)
    BY <1>5, <2>1, <2>2, <2>3 DEF Carried, InjsAt
  <2> QED BY <1>6, <1>7, <2>4
<1>14. /\ \A k \in DOMAIN ci'[r] : ci'[r][k].id \in met'
       /\ \A id \in Ids : rhob'[id] # 0 => <<id, met'>> \in EndsAt
  BY <1>4, <1>5, <1>6, <1>7 DEF Ahead, EndsAt
<1> QED BY <1>1, <1>7, <1>10, <1>11, <1>12, <1>13, <1>14, CourseNext

(* After num_comm_round rounds no movers are left but of particles that    *)
(* met a custom boundary, if no displacement has more faces than that.     *)
Enough == \A id \in Ids : Len(track[id]) <= NumCommRound

(* The particles left over are removed.                                    *)
LEMMA RemoveCourse ==
  ASSUME Lists, Course, Bounded, Enough, NEW r \in Rank, RemoveUnprocessed(r)
  PROVE  Course'
<1> DEFINE out == DropAll(r)
           M == [s \in Species |-> <<>>]
<1>1. /\ pc[r] = "leftover" /\ UNCHANGED given /\ UNCHANGED <<round, ci, met, send, wire>>
      /\ Goto(r, "done")
      /\ p' = [p EXCEPT ![r] = out.p] /\ pm' = [pm EXCEPT ![r] = M] /\ rhob' = out.rhob
  BY DEF RemoveUnprocessed, ports
<1>2. /\ Fixed /\ p \in [Rank -> [Species -> Seq(Part)]] /\ pm \in [Rank -> [Species -> Seq(Mover)]]
      /\ rhob \in [Ids -> Nat] /\ met \in SUBSET Ids
      /\ pc \in [Rank -> Phase] /\ face \in [Rank -> 0..6]
  BY DEF Lists, Controls, Ranges
<1>3. RestKept(r, out) /\ \A s \in Species : Stayed(r, s, out.p[s])
  BY <1>2, ListsAre, DropAllIs, Zenon
<1> HIDE DEF out
<1>4. Setoff(r) /\ Few(r)
  <2>1. round[r] = NumCommRound
    BY <1>1 DEF Bounded
  <2> QED BY <1>1, <2>1, SetoffIs DEF Few, Enough
<1>5. /\ \A q \in Rank \ {r} :
           /\ pc'[q] = pc[q] /\ face'[q] = face[q] /\ round'[q] = round[q]
           /\ p'[q] = p[q] /\ pm'[q] = pm[q] /\ ci'[q] = ci[q] /\ send'[q] = send[q]
      /\ pc'[r] = "done" /\ p'[r] = out.p /\ pm'[r] = M
  BY <1>1, <1>2 DEF Goto
<1>6. Turn(r)' = round[r] /\ \A f \in Face : Got(r, f)' = Got(r, f)
  BY <1>1, <1>5 DEF Turn, Got, RecvStage
<1>7. met' = met /\ met' \in SUBSET Ids /\ met \subseteq met' /\ wire' = wire
  BY <1>1, <1>2
<1>8. \A q \in Rank, f \in Face : shared(q, f) =>
         Under(q, wire'[bc(q, f)][Port(f)], Got(q, f)', met')
  <2>1. \A q \in Rank, f \in Face : \A j \in DOMAIN wire'[q][f] :
          wire'[q][f][j].inj = <<>> \/ \E i \in DOMAIN wire[q][f] : wire'[q][f][j] = wire[q][f][i]
    BY <1>7
  <2> QED BY <1>1, <1>5, <1>6, <1>7, <2>1, WiresKeep
<1>9. ASSUME NEW s \in Species
      PROVE  <<p'[r][s], pm'[r][s], Turn(r)', met'>> \in ListsAt[r]
  <2>1. ListHeaded(r, p[r][s], pm[r][s], round[r], met) /\ round[r] \in Nat
    BY <1>4 DEF Setoff
  <2>2. p[r][s] \in Seq(Part)
    BY <1>2
  <2>3. <<out.p[s], <<>>, round[r], met>> \in ListsAt[r]
    BY <1>2, <1>3, <2>1, <2>2, StayedHeaded
  <2> QED BY <1>5, <1>6, <1>7, <2>3
<1>10. \A id \in Ids : rhob'[id] # 0 => <<id, met'>> \in EndsAt
  BY <1>1, <1>2, <1>3, <1>4 DEF RestKept, EndsAt
<1>11. /\ \A f \in Face : shared(r, f) => Carried(bc(r, f), send'[r][f], round'[r], met')
       /\ \A k \in DOMAIN ci'[r] : ci'[r][k].id \in met'
  BY <1>1 DEF Course
<1> QED BY <1>1, <1>5, <1>7, <1>8, <1>9, <1>10, <1>11, CourseNext

(* A step that changes nothing.                                            *)
LEMMA StillCourse ==
  ASSUME Lists, Course, UNCHANGED vars
  PROVE  Course'
<1>1. UNCHANGED given /\ UNCHANGED <<pc, face, round, send, wire>> /\ UNCHANGED local
  BY DEF vars, ports
<1>2. 0 \in Rank
  <2>1. WellFormed(Deck) /\ Rank = Ranks(Deck)
    BY FixedIs DEF Lists
  <2> QED BY <2>1, RanksAre
<1>3. Turn(0)' = Turn(0) /\ \A f : Got(0, f)' = Got(0, f)
  BY <1>1 DEF Turn, Got
<1> QED BY <1>1, <1>2, <1>3, QuietCourse

(* It is an invariant, while displacements are that short.                 *)
LEMMA NextCourse ==
  ASSUME Lists, Exchange, Bounded, Enough, Course, [Next]_vars
  PROVE  Course'
<1>1. CASE UNCHANGED vars
  BY <1>1, StillCourse
<1>2. ASSUME NEW r \in Rank, Step(r)
      PROVE  Course'
  BY <1>2, BeginCourse, EndRecvCountCourse, EndSendCountCourse, ResizeCourse, EndRecvDataCourse,
     LoopCourse, RemoveCourse, Zenon DEF Step
<1> QED BY <1>1, <1>2, Zenon DEF Next, Finished

(* The deck loads a name once: its goal is that of its cell.               *)
LEMMA OwnGoal ==
  ASSUME Fixed, NEW r \in Rank, NEW s \in Species, NEW k \in DOMAIN Load[r][s]
  PROVE  LET l == Load[r][s][k]
         IN Aims(l.id, Goal(Deck, GlobalCoord(Deck, r, l.c), track[l.id]))
<1>1. LoadIsLegal(setting) /\ Rank = Ranks(Deck) /\ Species = SpeciesOf(setting)
  BY FixedIs
<1>2. \A x1, x2 \in Ranks(Deck), y1, y2 \in SpeciesOf(setting) :
        \A a \in DOMAIN Load[x1][y1], b \in DOMAIN Load[x2][y2] :
          Load[x1][y1][a].id = Load[x2][y2][b].id => x1 = x2 /\ y1 = y2 /\ a = b
  BY <1>1, Zenon DEF LoadIsLegal, Load, Deck
<1>3. ASSUME NEW q \in Rank, NEW t \in Species, NEW j \in DOMAIN Load[q][t],
             Load[q][t][j].id = Load[r][s][k].id
      PROVE  q = r /\ t = s /\ j = k
  <2>1. q \in Ranks(Deck) /\ r \in Ranks(Deck) /\ t \in SpeciesOf(setting) /\ s \in SpeciesOf(setting)
    BY <1>1
  <2>2. \A a \in DOMAIN Load[q][t], b \in DOMAIN Load[r][s] :
          Load[q][t][a].id = Load[r][s][b].id => q = r /\ t = s /\ a = b
    BY <1>2, <2>1
  <2> QED BY <1>3, <2>2
<1> QED BY <1>3, Zenon DEF Aims

(* At first every particle has gone as far as its rank goes.               *)
LEMMA StartHeaded ==
  ASSUME Fixed, track \in [Ids -> Seq(Face)], NEW r \in Rank, NEW s \in Species, NEW M
  PROVE  ListHeaded(r, StartP(r, s, track), StartM(r, s, track), 0, M)
<1> DEFINE L == Load[r][s]
           w == Moved(r, s, track)
           n == Len(w)
           q == StartP(r, s, track)
           m == StartM(r, s, track)
<1>1. /\ w \in Seq(Travels(r)) /\ DOMAIN w = 1 .. n /\ DOMAIN w = DOMAIN L /\ n = Len(L) /\ n \in Nat
      /\ \A k \in DOMAIN L : L[k].id \in Ids
  BY MovedIs
<1>2. q = [k \in DOMAIN L |-> [id |-> L[k].id, i |-> w[k].i]]
  BY DEF StartP
<1>3. Started(w, n, m)
  <2>1. m = FoldLeft(LAMBDA x, k : IF w[k].stuck THEN Append(x, [i |-> k, disp |-> w[k].left]) ELSE x,
                     <<>>, [k \in DOMAIN w |-> k])
    BY Zenon DEF StartM
  <2> HIDE DEF w, m
  <2> QED BY <1>1, <2>1, StartIs, Zenon DEF n
<1>4. ASSUME NEW k \in DOMAIN L
      PROVE  LET G == Goal(Deck, GlobalCoord(Deck, r, L[k].c), track[L[k].id]) IN
             /\ w[k].left \in Seq(Face) /\ track[L[k].id] \in Seq(Face)
             /\ ~w[k].stuck => G = {Home(r, w[k].i)}
             /\ w[k].stuck => G = Beyond(r, w[k].i, w[k].left) /\ Len(w[k].left) < Len(track[L[k].id])
  <2>1. L[k].c \in CellsOf(Deck)
    <3>1. L \in Seq([id : Ids, c : CellsOf(Deck)])
      BY FixedIs, Zenon DEF LoadIsLegal, Load, Deck
    <3> DEFINE S == [id : Ids, c : CellsOf(Deck)]
    <3>2. L \in Seq(S)
      BY <3>1
    <3> HIDE DEF S, L
    <3>3. L[k] \in S
      BY <3>2
    <3> QED BY <3>3 DEF S
  <2>2. L[k].c \in [1..3 -> Int] /\ Interior(L[k].c, Cells)
    <3> DEFINE c == L[k].c
    <3>1. c \in CellsOf(Deck)
      BY <2>1
    <3> HIDE DEF c
    <3>2. c \in [1..3 -> Int] /\ Interior(c, Cells)
      BY <3>1 DEF CellsOf, Interior, Cells
    <3> QED BY <3>2 DEF c
  <2>3. IsCell(VOXEL(L[k].c, Cells)) /\ Home(r, VOXEL(L[k].c, Cells)) = GlobalCoord(Deck, r, L[k].c)
    BY <2>2, CellAt, HomeIs
  <2>4. track[L[k].id] \in Seq(Face)
    BY <1>1
  <2>5. w[k] = MoveP(r, VOXEL(L[k].c, Cells), track[L[k].id])
    BY DEF Moved
  <2> HIDE DEF L, w
  <2>6. /\ w[k] \in Travels(r)
        /\ ~w[k].stuck =>
             Goal(Deck, Home(r, VOXEL(L[k].c, Cells)), track[L[k].id]) = {Home(r, w[k].i)}
        /\ w[k].stuck =>
             /\ Goal(Deck, Home(r, VOXEL(L[k].c, Cells)), track[L[k].id]) = Beyond(r, w[k].i, w[k].left)
             /\ Len(w[k].left) < Len(track[L[k].id])
    BY <2>3, <2>4, <2>5, MoveAims
  <2>7. w[k].left \in Seq(Face)
    BY <2>6 DEF Travels
  <2> QED BY <2>3, <2>4, <2>6, <2>7
<1>5. ASSUME NEW k \in DOMAIN L
      PROVE  Aims(L[k].id, Goal(Deck, GlobalCoord(Deck, r, L[k].c), track[L[k].id]))
  BY OwnGoal
<1> HIDE DEF w, L, q, m, n
<1>6. /\ DOMAIN q = 1 .. n
      /\ \A k \in 1 .. n : q[k].id = L[k].id /\ q[k].i = w[k].i
  BY <1>1, <1>2
<1>7. /\ m \in Seq(Mover) /\ \A j \in DOMAIN m : m[j].i \in 1 .. n
      /\ \A i \in 1 .. n : w[i].stuck <=> Moving(m, i)
      /\ \A j \in DOMAIN m : m[j].disp = w[m[j].i].left
  BY <1>3 DEF Started
<1>8. ASSUME NEW k \in DOMAIN q, ~Moving(m, k)
      PROVE  Headed(q[k].id, {Home(r, q[k].i)}, 0, M)
  <2>1. k \in DOMAIN L /\ ~w[k].stuck /\ q[k].id = L[k].id /\ q[k].i = w[k].i
    BY <1>1, <1>6, <1>7, <1>8
  <2>2. Aims(q[k].id, {Home(r, q[k].i)})
    BY <1>4, <1>5, <2>1, Zenon
  <2>3. 0 <= Len(track[q[k].id])
    BY <1>4, <2>1
  <2> QED BY <2>2, <2>3 DEF Headed
<1>9. ASSUME NEW j \in DOMAIN m
      PROVE  Headed(q[m[j].i].id, Beyond(r, q[m[j].i].i, m[j].disp), Len(m[j].disp) + 1 + 0, M)
  <2> DEFINE k == m[j].i
  <2>1. /\ k \in DOMAIN L /\ w[k].stuck /\ q[k].id = L[k].id /\ q[k].i = w[k].i
        /\ m[j].disp = w[k].left
    <3>1. k \in 1 .. n
      BY <1>7
    <3>2. Moving(m, k)
      BY DEF Moving
    <3> QED BY <1>1, <1>6, <1>7, <3>1, <3>2
  <2> HIDE DEF k
  <2>2. Aims(q[k].id, Beyond(r, q[k].i, m[j].disp))
    BY <1>4, <1>5, <2>1, Zenon
  <2>3. /\ Len(m[j].disp) < Len(track[q[k].id])
        /\ Len(m[j].disp) \in Nat /\ Len(track[q[k].id]) \in Nat
    BY <1>4, <2>1
  <2>4. Len(m[j].disp) + 1 + 0 <= Len(track[q[k].id])
    BY <2>3
  <2> QED BY <2>2, <2>4 DEF Headed, k
<1> QED BY <1>8, <1>9 DEF ListHeaded, q, m

(* So the invariant holds at first.                                        *)
LEMMA InitCourse ==
  ASSUME Init
  PROVE  Course
<1>1. /\ Fixed /\ track \in [Ids -> Seq(Face)]
      /\ p = [r \in Rank |-> [s \in Species |-> StartP(r, s, track)]]
      /\ pm = [r \in Rank |-> [s \in Species |-> StartM(r, s, track)]]
  BY InitIs
<1>2. /\ pc = [r \in Rank |-> "begin"] /\ round = [r \in Rank |-> 0]
      /\ ci = [r \in Rank |-> <<>>] /\ send = [r \in Rank |-> [f \in Face |-> <<>>]]
      /\ wire = [r \in Rank |-> [f \in Face |-> <<>>]] /\ rhob = [x \in Ids |-> 0] /\ met = {}
  BY Zenon DEF Init
<1>3. ASSUME NEW r \in Rank, NEW s \in Species
      PROVE  <<p[r][s], pm[r][s], Turn(r), met>> \in ListsAt[r]
  <2>1. p[r][s] = StartP(r, s, track) /\ pm[r][s] = StartM(r, s, track)
    BY <1>1
  <2>2. Turn(r) = 0 /\ met \in SUBSET Ids
    BY <1>2 DEF Turn
  <2>3. p[r][s] \in Seq(Part) /\ pm[r][s] \in Seq(Mover)
    BY <1>1, <2>1, StartListed DEF Listed
  <2>4. ListHeaded(r, p[r][s], pm[r][s], Turn(r), met)
    BY <1>1, <2>1, <2>2, StartHeaded, Zenon
  <2>5. Turn(r) \in Nat
    BY <2>2
  <2> DEFINE x == <<p[r][s], pm[r][s], Turn(r), met>>
  <2>6. x \in Seq(Part) \X Seq(Mover) \X Nat \X SUBSET Ids
    BY <2>2, <2>3, <2>5
  <2>7. x[1] = p[r][s] /\ x[2] = pm[r][s] /\ x[3] = Turn(r) /\ x[4] = met
    OBVIOUS
  <2> HIDE DEF x
  <2>8. x \in ListsAt[r]
    BY <2>4, <2>6, <2>7 DEF ListsAt
  <2> QED BY <2>8 DEF x
<1>4. ASSUME NEW r \in Rank, NEW f \in Face, shared(r, f)
      PROVE  Carried(bc(r, f), send[r][f], round[r], met) /\ Under(r, Arrived(r, f), Got(r, f), met)
  <2>1. bc(r, f) \in Rank /\ Port(f) \in Face
    BY <1>1, <1>4, SharedIs
  <2>2. send[r][f] = <<>> /\ Arrived(r, f) = <<>>
    BY <1>2, <2>1 DEF Arrived
  <2> QED BY <2>2 DEF Carried, Under
<1>5. ASSUME NEW r \in Rank
      PROVE  \A k \in DOMAIN ci[r] : ci[r][k].id \in met
  BY <1>2
<1>6. \A id \in Ids : rhob[id] # 0 => <<id, met>> \in EndsAt
  BY <1>2
<1> QED BY <1>1, <1>3, <1>4, <1>5, <1>6, Zenon DEF Course

-----------------------------------------------------------------------------
(* A cell of a rank is where the undivided box has it.                     *)
LEMMA HomeOwned ==
  ASSUME Fixed, NEW r \in Rank, NEW v, IsCell(v)
  PROVE  Owner(Deck, Home(r, v)) = r /\ range(Deck, r) + v = GlobalVoxel(Deck, Home(r, v))
<1> DEFINE c == Coord(v, Cells)
<1>1. WellFormed(Deck) /\ r \in Ranks(Deck) /\ Cells = LocalSize(Deck) /\ Cells \in Triple
  BY FixedIs, Sizes DEF Cells
<1>2. v \in 0 .. nv(Cells) - 1 /\ Interior(c, Cells)
  BY DEF IsCell
<1>3. c \in [1..3 -> Int] /\ VOXEL(c, Cells) = v
  BY <1>1, <1>2, Coords, VoxelBack
<1>4. Home(r, v) = GlobalCoord(Deck, r, c)
  BY DEF Home
<1> HIDE DEF c
<1>5. /\ Owner(Deck, GlobalCoord(Deck, r, c)) = r
      /\ GlobalVoxel(Deck, GlobalCoord(Deck, r, c)) = range(Deck, r) + VOXEL(c, LocalSize(Deck))
  BY <1>1, <1>2, <1>3, OwnHome
<1> QED BY <1>1, <1>3, <1>4, <1>5

(* When every rank is done no message is under way and no buffer loaded.   *)
LEMMA NothingUnderWay ==
  ASSUME Lists, Exchange, Bounded, Done, NEW r \in Rank
  PROVE  /\ ci[r] = <<>> /\ Turn(r) = NumCommRound
         /\ \A f \in Face : send[r][f] = <<>> /\ wire[r][f] = <<>>
<1>1. \A q \in Rank : pc[q] = "done" /\ round[q] = NumCommRound
  BY DEF Done, Bounded
<1>2. Fixed /\ NumCommRound \in Nat
  BY FixedIs, BoundaryPAssumption DEF Lists, NumCommRound
<1>3. ci[r] = <<>> /\ Turn(r) = NumCommRound
  BY <1>1 DEF Exchange, Turn
<1>4. ASSUME NEW f \in Face
      PROVE  send[r][f] = <<>> /\ wire[r][f] = <<>>
  <2>1. CASE ~shared(r, f)
    BY <2>1 DEF Exchange
  <2>2. CASE shared(r, f)
    <3> DEFINE n == bc(r, f)
               g == Port(f)
    <3>1. n \in Rank /\ g \in Face
      BY <1>2, <2>2, SharedIs
    <3>2. Channel(round[r], SendStage(pc[r], face[r], f), round[n], RecvStage(pc[n], face[n], g),
                  wire[r][f], send[r][f], n_recv[n][g], posted[n][g])
      BY <2>2 DEF Exchange, InStep
    <3> HIDE DEF n, g
    <3>3. SendStage(pc[r], face[r], f) = 0 /\ RecvStage(pc[n], face[n], g) = 0
      BY <1>1, <3>1 DEF SendStage, RecvStage
    <3>4. Channel(NumCommRound, 0, NumCommRound, 0, wire[r][f], send[r][f], n_recv[n][g], posted[n][g])
      BY <1>1, <3>1, <3>2, <3>3
    <3>5. Len(wire[r][f]) = SentBy(NumCommRound, 0) - TakenBy(NumCommRound, 0) /\ send[r][f] = <<>>
      BY <3>4 DEF Channel
    <3>6. Len(wire[r][f]) = 0
      BY <1>2, <3>5, StagesAre
    <3>7. wire[r][f] \in Seq(Message)
      BY DEF Lists, Ranges
    <3> QED BY <3>5, <3>6, <3>7
  <2> QED BY <2>1, <2>2
<1> QED BY <1>3, <1>4

(* So everybody is on a list, accumulated to rhob, or dropped.             *)
LEMMA WhoIsLeft ==
  ASSUME Lists, Exchange, Whereabouts, Bounded, Done, NEW id \in Ids
  PROVE  \/ \E q \in Rank, t \in Species : id \in Names(p[q][t])
         \/ rhob[id] = 1
         \/ id \in dropped
<1> PICK w \in [Ids -> Spots] : Located(w, p, send, ci, wire, rhob, dropped)
  BY DEF Whereabouts
<1>1. ASSUME NEW q \in Rank
      PROVE  w[id] # InCi(q) /\ \A f \in Face : w[id] # InSend(q, f) /\ w[id] # OnWire(q, f)
  <2>1. ci[q] = <<>> /\ \A f \in Face : send[q][f] = <<>> /\ wire[q][f] = <<>>
    BY NothingUnderWay
  <2>2. Box(w, InCi(q), <<>>) /\ \A f \in Face : Box(w, InSend(q, f), <<>>) /\ Boxes(w, OnWire(q, f), <<>>)
    BY <2>1, Zenon DEF Located
  <2>3. \A x : Box(w, x, <<>>) \/ Boxes(w, x, <<>>) => w[id] # x
    <3> TAKE x
    <3>1. Box(w, x, <<>>) => w[id] # x
      BY EmptyBox DEF Box
    <3>2. Boxes(w, x, <<>>) => w[id] # x
      BY DEF Boxes
    <3> QED BY <3>1, <3>2
  <2> QED BY <2>2, <2>3, Zenon
<1>2. w[id] \in Spots
  OBVIOUS
<1>3. \/ \E q \in Rank, t \in Species : w[id] = OnList(q, t)
      \/ w[id] = AtRhob \/ w[id] = Gone
  BY <1>1, <1>2 DEF Spots
<1>4. ASSUME NEW q \in Rank, NEW t \in Species, w[id] = OnList(q, t)
      PROVE  id \in Names(p[q][t])
  BY <1>4, Zenon DEF Located, Box
<1>5. /\ w[id] = AtRhob => rhob[id] = 1
      /\ w[id] = Gone => id \in dropped
  BY DEF Located, Ends
<1> QED BY <1>3, <1>4, <1>5

(* Then nobody that met no custom boundary has a mover left, and who is on *)
(* a list is where the way through the undivided box ends.                 *)
LEMMA Arrival ==
  ASSUME Lists, Exchange, Whereabouts, Bounded, Enough, Course
  PROVE  Delivered
<1> SUFFICES ASSUME Done, NEW r \in Rank, NEW s \in Species, NEW k \in DOMAIN Load[r][s],
                    Load[r][s][k].id \notin met, Load[r][s][k].id \notin dropped
             PROVE  LET l == Load[r][s][k]
                    IN Settled(l.id, Journey(GlobalCoord(Deck, r, l.c), track[l.id]))
  BY Zenon DEF Delivered
<1> DEFINE id == Load[r][s][k].id
           x == GlobalCoord(Deck, r, Load[r][s][k].c)
           w == Way(Deck, x, track[id])
<1>1. Fixed /\ track \in [Ids -> Seq(Face)] /\ NumCommRound \in Nat
  BY FixedIs, BoundaryPAssumption DEF Lists, NumCommRound, Course
<1>2. id \in Ids /\ id \notin met /\ id \notin dropped
  BY <1>1, MovedIs
<1>3. Journey(x, track[id]) = w
  BY JourneyIs
<1>4. \A G : Aims(id, G) => (IF w.absorbed THEN {} ELSE {w.x}) = G
  BY Zenon DEF Aims, Goal
<1>5. Len(track[id]) \in Nat /\ Len(track[id]) <= NumCommRound
  BY <1>1, <1>2 DEF Enough
<1> HIDE DEF id, x, w
<1>6. ASSUME NEW q \in Rank, NEW t \in Species, id \in Names(p[q][t])
      PROVE  Settled(id, w)
  <2> DEFINE P == p[q][t]
             m == pm[q][t]
  <2>1. Listed(q, P, m) /\ Turn(q) = NumCommRound
    BY ListsAre, NothingUnderWay
  <2>2. ListHeaded(q, P, m, NumCommRound, met)
    <3>1. <<P, m, Turn(q), met>> \in ListsAt[q]
      BY DEF Course
    <3> QED BY <2>1, <3>1 DEF ListsAt
  <2>3. PICK j \in DOMAIN P : P[j].id = id
    BY <1>6 DEF Names
  <2> HIDE DEF P, m
  <2>4. ~Moving(m, j)
    <3> SUFFICES ASSUME NEW a \in DOMAIN m, m[a].i = j
                 PROVE  FALSE
      BY DEF Moving
    <3>1. Headed(id, Beyond(q, P[j].i, m[a].disp), Len(m[a].disp) + 1 + NumCommRound, met)
      BY <2>2, <2>3 DEF ListHeaded
    <3>2. Len(m[a].disp) + 1 + NumCommRound <= Len(track[id])
      BY <1>2, <3>1 DEF Headed
    <3>3. Len(m[a].disp) \in Nat
      BY <2>1 DEF Listed, Mover
    <3> QED BY <1>1, <1>5, <3>2, <3>3
  <2>5. Headed(id, {Home(q, P[j].i)}, 0, met) /\ IsCell(P[j].i)
    BY <2>1, <2>2, <2>3, <2>4 DEF ListHeaded, Listed, Stands
  <2>6. (IF w.absorbed THEN {} ELSE {w.x}) = {Home(q, P[j].i)}
    BY <1>2, <1>4, <2>5 DEF Headed
  <2>7. ~w.absorbed /\ w.x = Home(q, P[j].i)
    BY <2>6
  <2>8. Owner(Deck, w.x) = q /\ range(Deck, q) + P[j].i = GlobalVoxel(Deck, w.x)
    BY <1>1, <2>5, <2>7, HomeOwned
  <2> QED BY <2>3, <2>7, <2>8, Zenon DEF Settled, P
<1>7. ASSUME rhob[id] = 1
      PROVE  Settled(id, w)
  <2>1. <<id, met>> \in EndsAt
    BY <1>2, <1>7 DEF Course
  <2>2. Headed(id, {}, 0, met)
    BY <2>1 DEF EndsAt
  <2>3. w.absorbed
    BY <1>2, <1>4, <2>2 DEF Headed
  <2> QED BY <1>7, <2>3 DEF Settled
<1>8. Settled(id, w)
  BY <1>2, <1>6, <1>7, WhoIsLeft
<1> QED BY <1>3, <1>8, Zenon DEF id, x

(* A displacement is what it was when the step began.                      *)
LEMMA EnoughAlways ==
  ASSUME RoundsEnough
  PROVE  Spec => []Enough
<1>1. Init => Enough
  <2> SUFFICES ASSUME Init, NEW id \in Ids
               PROVE  Len(track[id]) <= NumCommRound
    BY DEF Enough
  <2>1. Fixed
    BY InitIs
  <2>2. track[id] \in Tracks[id]
    BY Zenon DEF Init
  <2>3. setting \in Settings /\ id \in NamesOf(setting)
    BY <2>1, FixedIs
  <2>4. \A t \in setting.tracks[id] : Len(t) <= setting.num_comm_round
    BY <2>3, Zenon DEF RoundsEnough
  <2> QED BY <2>2, <2>4 DEF Tracks, NumCommRound
<1>2. Enough /\ [Next]_vars => Enough'
  <2> SUFFICES ASSUME Enough, [Next]_vars
               PROVE  Enough'
    OBVIOUS
  <2>1. ASSUME NEW r \in Rank, Step(r)
        PROVE  UNCHANGED given
    BY <2>1, Zenon DEF Step, Begin, EndRecvCount, EndSendCount, ResizeInjectLocal, EndRecvData, EndSendData,
                       EndLoop, Return, RemoveUnprocessed
  <2>2. UNCHANGED given
    BY <2>1, Zenon DEF Next, Finished, vars
  <2> QED BY <2>2 DEF Enough, given, Ids, NumCommRound
<1> QED BY <1>1, <1>2, PTL DEF Spec

(* If no displacement crosses more faces than advance has rounds (three by *)
(* default, and the Courant condition allows three), every particle ends   *)
(* on the rank and in the cell where it would in a box that is not         *)
(* divided, or is absorbed where it would be, in whatever order the ranks  *)
(* run; but for those that met a custom boundary or were dropped with a    *)
(* warning in boundary_p.                                                  *)
THEOREM RoundsDeliver ==
  ASSUME RoundsEnough
  PROVE  Spec => []Delivered
<1>1. Init => Course
  BY InitCourse
<1>2. Lists /\ Exchange /\ Bounded /\ Enough /\ Course /\ [Next]_vars => Course'
  BY NextCourse
<1>3. Lists /\ Exchange /\ Whereabouts /\ Bounded /\ Enough /\ Course => Delivered
  BY Arrival
<1> QED BY <1>1, <1>2, <1>3, ListsAlways, ExchangeAlways, WhereAlways, BoundedAlways, EnoughAlways, PTL
       DEF Spec
=============================================================================
