--------------------------- MODULE FieldBoundary ----------------------------
(***************************************************************************)
(* What the field array does at the faces of the local box: the conditions *)
(* of local walls (local.cc), and what ranks that share a face exchange    *)
(* (remote.cc).                                                            *)
(*                                                                         *)
(* A plane of a face with normal axis a is a loop over the other two axes, *)
(* from 1 to the number of cells, or one further along the axes in "long": *)
(* the edges along b are a plane long in the third axis, the nodes a plane *)
(* long in both, the cell faces a plane long in none.                      *)
(***************************************************************************)
EXTENDS FieldArray

symmetric_fields == -2
pmc_fields == -3

Third(a, b) == 6 - a - b
Tangential(a) == <<Follow(a), Follow(Follow(a))>>

Plane(n, a, x, long) ==
  LET up(b) == 1..(n[b] + (IF b \in long THEN 1 ELSE 0))
  IN Box(n, a, {x}, up(Follow(a)), up(Follow(Follow(a))))
EDGE_LOOP(n, a, b, x) == Plane(n, a, x, {Third(a, b)})
NODE_LOOP(n, a, x) == Plane(n, a, x, {Follow(a), Follow(Follow(a))})
FACE_LOOP(n, a, x) == Plane(n, a, x, {})

Ghost(n, f) == IF Dir(f) < 0 THEN 0 ELSE n[Axis(f)] + 1
OnWall(n, f) == IF Dir(f) < 0 THEN 1 ELSE n[Axis(f)] + 1

(* To the voxel one cell further into the box from face f.                 *)
inward(n, f, v) == v - Dir(f) * stride(n, Axis(f))

local(g, face) == g.bc[face] < 0

(* The faces are dealt with in the order of the calls in local.cc.         *)
AtWalls(g, f, Apply(_, _)) ==
  FoldLeft(LAMBDA h, face : IF local(g, face) THEN Apply(h, face) ELSE h,
           f, <<0, 1, 2, 3, 4, 5>>)

-----------------------------------------------------------------------------
(* local_ghost_tang_b: the tangential cb just outside a wall.  Absorbing   *)
(* walls advance theirs from what it was.                                  *)
higend(g) == IF \E a \in 1..3 : g.n[a] > 1 THEN 1035 ELSE 1

AbsorbTangB(g, f, face, i) ==
  LET n == g.n
      a == Axis(face)
      j == Third(a, i)
      along(b) == Times(cdt, rd[b])
      x     == Times(along(a), higend(g))
      decay == Times(1 - x, Inv((1 + x) % Prime))
      drive == Times(2 * x, Inv((1 + x) % Prime))
      sign  == IF i = Follow(a) THEN 1 ELSE -1
      wall(v) == v + (OnWall(n, face) - Ghost(n, face)) * stride(n, a)
      t1(v) == -Dir(face) * along(a) * (f.e[j][inward(n, face, wall(v))] - f.e[j][wall(v)])
      t2(v) == along(j) * (f.e[a][inward(n, face, v) + stride(n, j)] - f.e[a][inward(n, face, v)])
  IN [v \in EDGE_LOOP(n, a, j, Ghost(n, face)) |->
        (decay * f.cb[i][v] + drive * f.cb[i][inward(n, face, v)]
           + sign * ((t2(v) - t1(v)) % Prime)) % Prime]

GhostTangB(g, f, face, i) ==
  LET n == g.n
      j == Third(Axis(face), i)
      box == EDGE_LOOP(n, Axis(face), j, Ghost(n, face))
  IN CASE g.bc[face] = anti_symmetric_fields -> [v \in box |-> f.cb[i][inward(n, face, v)]]
       [] g.bc[face] \in {symmetric_fields, pmc_fields} ->
            [v \in box |-> (-f.cb[i][inward(n, face, v)]) % Prime]
       [] g.bc[face] = absorb_fields -> AbsorbTangB(g, f, face, i)

local_ghost_tang_b(g, f) ==
  AtWalls(g, f, LAMBDA h, face :
    FoldLeft(LAMBDA k, i : [k EXCEPT !.cb[i] = Overlay(@, GhostTangB(g, k, face, i))],
             h, Tangential(Axis(face))))

(* local_ghost_norm_e: the normal e, and its tca, just outside a wall.     *)
GhostNormE(g, array, face) ==
  LET n  == g.n
      in1(v) == array[inward(n, face, v)]
      in2(v) == array[inward(n, face, inward(n, face, v))]
  IN [v \in NODE_LOOP(n, Axis(face), Ghost(n, face)) |->
        CASE g.bc[face] = anti_symmetric_fields -> in1(v)
          [] g.bc[face] \in {symmetric_fields, pmc_fields} -> (-in1(v)) % Prime
          [] g.bc[face] = absorb_fields -> (2 * in1(v) - in2(v)) % Prime]
local_ghost_norm_e(g, f) ==
  AtWalls(g, f, LAMBDA h, face :
    [h EXCEPT !.e[Axis(face)]   = Overlay(@, GhostNormE(g, @, face)),
              !.tca[Axis(face)] = Overlay(@, GhostNormE(g, @, face))])

local_ghost_div_b(g, f) ==
  AtWalls(g, f, LAMBDA h, face :
    [h EXCEPT !.div_b_err[1] = Overlay(@,
       [v \in FACE_LOOP(g.n, Axis(face), Ghost(g.n, face)) |->
          CASE g.bc[face] = anti_symmetric_fields -> @[inward(g.n, face, v)]
            [] g.bc[face] \in {symmetric_fields, pmc_fields} -> (-@[inward(g.n, face, v)]) % Prime
            [] g.bc[face] = absorb_fields -> 0])])

-----------------------------------------------------------------------------
(* The conditions enforced on the walls themselves.                        *)
Scaled(array, box, k) == Overlay(array, [v \in box |-> Times(k, array[v])])

local_adjust_tang_e(g, f) ==
  AtWalls(g, f, LAMBDA h, face :
    IF g.bc[face] # anti_symmetric_fields THEN h
    ELSE FoldLeft(LAMBDA k, b :
           LET box == EDGE_LOOP(g.n, Axis(face), b, OnWall(g.n, face))
           IN [k EXCEPT !.e[b] = Scaled(@, box, 0), !.tca[b] = Scaled(@, box, 0)],
           h, Tangential(Axis(face))))

local_adjust_norm_b(g, f) ==
  AtWalls(g, f, LAMBDA h, face :
    IF g.bc[face] # symmetric_fields THEN h
    ELSE [h EXCEPT !.cb[Axis(face)] =
            Scaled(@, FACE_LOOP(g.n, Axis(face), OnWall(g.n, face)), 0)])

local_adjust_div_e(g, f) ==
  AtWalls(g, f, LAMBDA h, face :
    IF g.bc[face] \notin {anti_symmetric_fields, absorb_fields} THEN h
    ELSE [h EXCEPT !.div_e_err[1] =
            Scaled(@, NODE_LOOP(g.n, Axis(face), OnWall(g.n, face)), 0)])

(* Images: of the opposite charge they cancel what is on the wall, of the  *)
(* same charge, or for want of the cell's other half, they double it.      *)
Images(g, face) == IF g.bc[face] = anti_symmetric_fields THEN 0 ELSE 2

local_adjust_jf(g, f) ==
  AtWalls(g, f, LAMBDA h, face :
    FoldLeft(LAMBDA k, b :
      [k EXCEPT !.jf[b] = Scaled(@, EDGE_LOOP(g.n, Axis(face), b, OnWall(g.n, face)),
                                 Images(g, face))],
      h, Tangential(Axis(face))))
local_adjust_rhof(g, f) ==
  AtWalls(g, f, LAMBDA h, face :
    [h EXCEPT !.rhof[1] = Scaled(@, NODE_LOOP(g.n, Axis(face), OnWall(g.n, face)),
                                 Images(g, face))])

(* Charge bound to a wall has been accumulated corrected already.          *)
local_adjust_rhob(g, f) ==
  AtWalls(g, f, LAMBDA h, face :
    IF g.bc[face] # anti_symmetric_fields THEN h
    ELSE [h EXCEPT !.rhob[1] = Scaled(@, NODE_LOOP(g.n, Axis(face), OnWall(g.n, face)), 0)])

-----------------------------------------------------------------------------
(* What an exchange packs of face f, in the order it packs it: arrays i of *)
(* component k, over a plane long in some axes.                            *)
Items(kind, a) ==
  LET b == Follow(a)
      c == Follow(b)
      both == {b, c}
      Item(k, i, long) == [k |-> k, i |-> i, long |-> long]
  IN CASE kind = "tang_b" -> << Item("cb", b, {b}), Item("cb", c, {c}) >>
       [] kind = "norm_e" -> << Item("e", a, both) >>
       [] kind = "div_b"  -> << Item("div_b_err", 1, {}) >>
       [] kind = "jf"     -> << Item("jf", b, {c}), Item("jf", c, {b}) >>
       [] kind = "rho"    -> << Item("rhof", 1, both), Item("rhob", 1, both) >>
       [] kind = "tang_e_norm_b" ->
            << Item("cb", a, {}), Item("e", b, {c}), Item("tca", b, {c}),
               Item("e", c, {b}), Item("tca", c, {b}) >>

(* Ghosts come from the cells beside the face; shared planes are combined. *)
Ghosts(kind) == kind \in {"tang_b", "norm_e", "div_b"}

Sent(kind, n, f) == IF Ghosts(kind) THEN Edge(f, n) ELSE OnWall(n, f)
(* A message sent through face f arrives at the opposite face.             *)
Landing(kind, n, f) ==
  IF Ghosts(kind) THEN Ghost(n, Opposite(f)) ELSE OnWall(n, Opposite(f))

(* Both sides loop over the plane alike: a value's place in the message is *)
(* its place in the plane.                                                 *)
PlaceIn(n, a, v) == <<Coord(v, n)[Follow(a)], Coord(v, n)[Follow(Follow(a))]>>
VoxelAt(n, a, x, place) ==
  stride(n, a) * x + stride(n, Follow(a)) * place[1] + stride(n, Follow(Follow(a))) * place[2]
Places(n, a, long) ==
  (1..(n[Follow(a)] + (IF Follow(a) \in long THEN 1 ELSE 0)))
    \X (1..(n[Follow(Follow(a))] + (IF Follow(Follow(a)) \in long THEN 1 ELSE 0)))

Pack(kind, g, fld, f) ==
  LET a == Axis(f) IN
  [ kind   |-> kind,
    size   |-> d[a],
    values |-> [j \in DOMAIN Items(kind, a) |->
                  LET item == Items(kind, a)[j] IN
                  [place \in Places(g.n, a, item.long) |->
                     fld[item.k][item.i][VoxelAt(g.n, a, Sent(kind, g.n, f), place)]]] ]

(* Ghosts are extrapolated between the two cell sizes; currents and free   *)
(* charge on a shared plane are twice the weighted sum of the two halves,  *)
(* bound charge is their weighted mean, shared fields their mean.          *)
Combine(kind, k, own, got, beyond, da, dr) ==
  LET whole == Inv((da + dr) % Prime) IN
  CASE Ghosts(kind) -> Times(Times(2 * da, whole), got) + Times(Times(dr - da, whole), beyond)
    [] kind = "jf" \/ k = "rhof" -> 2 * (Times(Times(da, whole), own) + Times(Times(dr, whole), got))
    [] k = "rhob" -> Times(Times(da, whole), own) + Times(Times(dr, whole), got)
    [] kind = "tang_e_norm_b" -> Half * (own + got)

UnpackItem(kind, g, fld, f, msg, j) ==
  LET n == g.n
      a == Axis(f)
      item == Items(kind, a)[j]
      box == Plane(n, a, Landing(kind, n, f), item.long)
  IN [fld EXCEPT ![item.k][item.i] = Overlay(@,
        [v \in box |->
           Combine(kind, item.k, @[v], msg.values[j][PlaceIn(n, a, v)],
                   IF Ghosts(kind) THEN @[v + Dir(f) * stride(n, a)] ELSE 0,
                   d[a], msg.size) % Prime])]
Unpack(kind, g, fld, f, msg) ==
  FoldLeft(LAMBDA h, j : UnpackItem(kind, g, h, f, msg, j),
           fld, [j \in DOMAIN Items(kind, Axis(f)) |-> j])

(* What synchronize_tang_e_norm_b adds to err for a message: how far the   *)
(* two copies of cb and e had drifted apart.                               *)
Drift(g, fld, f, msg) ==
  LET n == g.n
      a == Axis(f)
      kind == "tang_e_norm_b"
      place(j) == Plane(n, a, Landing(kind, n, f), Items(kind, a)[j].long)
      apart(j, v) == fld[Items(kind, a)[j].k][Items(kind, a)[j].i][v]
                       - msg.values[j][PlaceIn(n, a, v)]
  IN FoldSet(LAMBDA j, sum : sum + SumOver(place(j), LAMBDA v : Times(apart(j, v), apart(j, v))),
             0, {1, 2, 4}) % Prime
=============================================================================
