------------------------------- MODULE Charge -------------------------------
(***************************************************************************)
(* How moving particles become currents and charges on the mesh: the       *)
(* current part of advance_p and move_p (species_advance/standard), the    *)
(* accumulators they fill, accumulate_rho_p and accumulate_rhob, and       *)
(* inject_particle (vpic/misc.cc).                                         *)
(*                                                                         *)
(* A particle is a record                                                  *)
(*   id   : its name                                                       *)
(*   i    : its voxel, or 8*voxel+face once a face has stopped it          *)
(*   dx   : its offset in the cell, a fraction in -1..1 along each axis    *)
(*   u    : its displacement in a step, in cells: the push itself is left  *)
(*          out, so that u keeps its value but for reflections             *)
(*   q    : its charge                                                     *)
(* and a mover also has disp, the displacement it has left.                *)
(* An accumulator array gives a voxel 12 numbers, four for each axis.       *)
(***************************************************************************)
EXTENDS FieldBoundary

axes == <<1, 2, 3>>
one == <<1, 1>>

(* Only the voxels with something in them are kept.                        *)
Nothing == [k \in 1..12 |-> 0]
clear_accumulator == << >>
In(acc, v) == IF v \in DOMAIN acc THEN acc[v] ELSE Nothing

(* accumulate_j: a streak of half length disp about mid deposits on the    *)
(* four edges of its cell along each axis.                                 *)
Streak(q, mid, disp) ==
  LET m == [a \in 1..3 |-> Value(mid[a])]
      s == [a \in 1..3 |-> Value(disp[a])]
      v5 == Times(Times(q, Times(s[1], Times(s[2], s[3]))), Inv(3))
      quad(a) ==
        LET b == Follow(a)
            c == Follow(b)
            j(y, z) == Times(Times(q, s[a]), Times(1 + y * m[b], 1 + z * m[c])) + y * z * v5
        IN << j(-1, -1), j(1, -1), j(-1, 1), j(1, 1) >>
  IN quad(1) \o quad(2) \o quad(3)

Deposit(acc, v, streak) ==
  [w \in DOMAIN acc \cup {v} |->
     IF w = v THEN [k \in 1..12 |-> (In(acc, v)[k] + streak[k]) % Prime] ELSE acc[w]]

(* move_p: streak by streak to the end of the displacement or to a face    *)
(* that stops the particle.  w is the particle with its mover, and the     *)
(* accumulators.                                                           *)
StreakEnd(p) ==
  LET dir(a) == IF Less(<<0, 1>>, p.disp[a]) THEN 1 ELSE -1
      v(a) == IF p.disp[a][1] = 0 THEN <<1000, 1>>
              ELSE Over(Minus(<<dir(a), 1>>, p.dx[a]), p.disp[a])
      sooner(best, a) == IF Less(v(a), best.v) THEN [v |-> v(a), axis |-> a] ELSE best
      end == FoldLeft(sooner, [v |-> <<2, 1>>, axis |-> 4], axes)
  IN [end EXCEPT !.v = Mult(@, <<1, 2>>)]

RECURSIVE move_p(_, _, _)
move_p(g, p, acc) ==
  LET end  == StreakEnd(p)
      s    == [a \in 1..3 |-> Mult(p.disp[a], end.v)]
      mid  == [a \in 1..3 |-> Plus(p.dx[a], s[a])]
      acc1 == Deposit(acc, p.i, Streak(p.q, mid, s))
      p1   == [p EXCEPT !.disp = [a \in 1..3 |-> Minus(@[a], s[a])],
                        !.dx   = [a \in 1..3 |-> Plus(mid[a], s[a])]]
      axis == end.axis
      dir  == IF Less(<<0, 1>>, p.disp[axis]) THEN 1 ELSE -1
      face == (axis - 1) + (IF dir > 0 THEN 3 ELSE 0)
      across == g.neighbor[p.i][face]
  IN CASE axis = 4 -> [p |-> p1, acc |-> acc1, in_use |-> FALSE]
       [] axis # 4 /\ across = reflect_particles ->
            move_p(g, [p1 EXCEPT !.u[axis] = Neg(@), !.disp[axis] = Neg(@)], acc1)
       [] axis # 4 /\ across # reflect_particles /\ across \notin g.rangel..g.rangeh ->
            [p |-> [p1 EXCEPT !.i = 8 * @ + face], acc |-> acc1, in_use |-> TRUE]
       [] axis # 4 /\ across \in g.rangel..g.rangeh ->
            move_p(g, [p1 EXCEPT !.i = across - g.rangel, !.dx[axis] = <<-dir, 1>>], acc1)

(* advance_p: a particle that stays in its cell deposits one streak, the   *)
(* others are left to move_p.                                              *)
InBounds(x) == \A a \in 1..3 : ~Less(one, x[a]) /\ ~Less(one, Neg(x[a]))
Advance_FarFaces(g, p, acc) ==
  LET mid == [a \in 1..3 |-> Plus(p.dx[a], p.u[a])]
      new == [a \in 1..3 |-> Plus(mid[a], p.u[a])]
  IN IF \A a \in 1..3 : ~Less(one, new[a])
     THEN [p |-> [p EXCEPT !.dx = new], acc |-> Deposit(acc, p.i, Streak(p.q, mid, p.u)),
           in_use |-> FALSE]
     ELSE move_p(g, [p EXCEPT !.disp = p.u], acc)
Advance(g, p, acc) ==
  LET mid == [a \in 1..3 |-> Plus(p.dx[a], p.u[a])]
      new == [a \in 1..3 |-> Plus(mid[a], p.u[a])]
  IN IF InBounds(new)
     THEN [p |-> [p EXCEPT !.dx = new], acc |-> Deposit(acc, p.i, Streak(p.q, mid, p.u)),
           in_use |-> FALSE]
     ELSE move_p(g, [p EXCEPT !.disp = p.u], acc)

-----------------------------------------------------------------------------
(* Trilinear weights of a charge over the nodes of its cell.               *)
Corners(n, v) == Box(n, 1, 0..1, 0..1, 0..1)
Trilinear(n, p, q, step) ==
  LET x == [a \in 1..3 |-> Value(p.dx[a])]
      toward(a) == IF (step \div stride(n, a)) % (n[a] + 2) = 1 THEN 1 + x[a] ELSE 1 - x[a]
  IN Times(Times(Times(q, r8V), toward(1)), Times(toward(2), toward(3)))

accumulate_rho_p(g, f, ps) ==
  FoldSet(LAMBDA p, h : [h EXCEPT !.rhof[1] = Overlay(@,
             [v \in {p.i + step : step \in Corners(g.n, p.i)} |->
                (@[v] + Trilinear(g.n, p, p.q, v - p.i)) % Prime])],
          f, ps)

(* accumulate_rhob doubles what it gives to the nodes of the outer planes  *)
(* of the local box, as synchronize_rho would.                             *)
Corrected(n, i, step) ==
  LET low(a)  == (step \div stride(n, a)) % (n[a] + 2) = 0
      twice(a) == IF Coord(i, n)[a] = (IF low(a) THEN 1 ELSE n[a]) THEN 2 ELSE 1
  IN twice(1) * twice(2) * twice(3)
accumulate_rhob(g, f, p, q) ==
  [f EXCEPT !.rhob[1] = Overlay(@,
     [v \in {p.i + step : step \in Corners(g.n, p.i)} |->
        (@[v] + Corrected(g.n, p.i, v - p.i) * Trilinear(g.n, p, q, v - p.i)) % Prime])]

(* inject_particle: the rank whose box holds position x (in cells from the *)
(* rank's corner) creates the particle, except on a far wall it shares.    *)
Injects(g, x) ==
  \A a \in 1..3 : /\ ~Less(x[a], <<0, 1>>) /\ ~Less(<<g.n[a], 1>>, x[a])
                  /\ (x[a] = <<g.n[a], 1>> => local(g, a + 2))
Injected(g, x, p) ==
  LET cell(a) == IF x[a] = <<g.n[a], 1>> THEN g.n[a] ELSE (x[a][1] \div x[a][2]) + 1
  IN [p EXCEPT !.i  = VOXEL(<<cell(1), cell(2), cell(3)>>, g.n),
               !.dx = [a \in 1..3 |-> Minus(Mult(<<2, 1>>, Minus(x[a], <<cell(a) - 1, 1>>)), one)]]
=============================================================================
