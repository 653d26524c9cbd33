------------------------------ MODULE MCFields ------------------------------
EXTENDS Fields

half(k) == Frac(k, 2)
P(id, x, u, q) == [id |-> id, x |-> x, u |-> u, q |-> q]
At3(x, y, z, k) == <<Frac(x, k), Frac(y, k), Frac(z, k)>>

Plain  == [sigma |-> 0, eps |-> <<2, 3, 5>>, mu |-> <<7, 11, 13>>]
Dense  == [sigma |-> 0, eps |-> <<19, 23, 29>>, mu |-> <<31, 37, 41>>]
Copper == [sigma |-> 1, eps |-> <<3, 4, 6>>, mu |-> <<8, 9, 10>>, decay |-> 501, drive |-> <<77, 78, 79>>]

None == [f \in {} |-> 0]
Base ==
  [ gn |-> <<4, 2, 2>>, gp |-> <<2, 1, 1>>, box |-> "periodic", pbc |-> [f \in Face |-> -1],
    walls |-> None, materials |-> <<Plain>>, spare |-> TRUE, damp |-> 0,
    particles |-> { P(1, At3(5, 3, 2, 4), At3(-3, 2, 1, 4), 3),
                    P(2, At3(9, 5, 7, 5), At3(4, 1, 3, 5), 7) },
    injected |-> {}, dirty |-> FALSE, drops |-> FALSE, num_comm_round |-> 3, num_step |-> 2,
    clean_div_e_interval |-> 1, clean_div_b_interval |-> 1, sync_shared_interval |-> 1,
    P |-> 2, lanes |-> 1, block |-> 1, free |-> TRUE ]

Inject(id, x, u, q, age, update_rhob) ==
  [id |-> id, x |-> x, u |-> u, q |-> q, age |-> age, update_rhob |-> update_rhob]
WallsOn(faces, fbc, pbc) == [f \in faces |-> [fbc |-> fbc, pbc |-> pbc]]

Wide ==
  [Base EXCEPT !.gn = <<10, 4, 3>>, !.gp = <<1, 1, 1>>, !.block = 16, !.free = FALSE, !.num_step = 1]

Catalogue == <<
  \* 1: the vacuum kernels against the general ones
  Base,
  \* 2: two materials, a damped field, a split along y
  [Base EXCEPT !.gn = <<2, 4, 2>>, !.gp = <<1, 2, 1>>, !.materials = <<Plain, Dense>>,
               !.spare = FALSE, !.damp = 5, !.num_step = 1,
               !.particles = { P(1, At3(3, 9, 2, 5), At3(2, 5, 3, 5), 3),
                               P(2, At3(7, 3, 4, 4), At3(-3, -3, 2, 4), 7) }],
  \* 3: conducting walls that reflect, a split along z, injection
  [Base EXCEPT !.gn = <<2, 2, 4>>, !.gp = <<1, 1, 2>>, !.box = "metal", !.spare = FALSE,
               !.particles = { P(1, At3(3, 5, 9, 5), At3(2, 4, 4, 5), 3) },
               !.injected = { Inject(2, At3(6, 5, 8, 4), At3(2, -3, 3, 4), 5, <<1, 2>>, TRUE),
                              Inject(3, At3(8, 3, 2, 4), At3(-1, 3, -3, 4), 9, <<0, 1>>, TRUE) },
               !.num_step = 1],
  \* 4: an open box that absorbs fields and particles
  [Base EXCEPT !.box = "absorbing", !.pbc = [f \in Face |-> IF f = 3 THEN -1 ELSE -2],
               !.spare = FALSE,
               !.particles = { P(1, At3(3, 5, 2, 5), At3(-2, 4, 1, 5), 3),
                               P(2, At3(9, 5, 7, 5), At3(4, 1, 3, 5), 7),
                               P(3, At3(7, 2, 3, 4), At3(3, -3, -3, 4), 11) }],
  \* 5: symmetric walls in x and magnetic ones in y
  [Base EXCEPT !.walls = [f \in {0, 1, 3, 4} |->
                  [fbc |-> IF f \in {0, 3} THEN symmetric_fields ELSE pmc_fields, pbc |-> -1]],
               !.materials = <<Plain, Dense>>, !.spare = FALSE, !.num_step = 1],
  \* 6: conductors, and a field to be cleaned
  [Base EXCEPT !.materials = <<Plain, Copper>>, !.spare = FALSE, !.dirty = TRUE, !.damp = 2],
  \* 7: two dimensions, magnetic walls
  [Base EXCEPT !.gn = <<4, 2, 1>>, !.walls = WallsOn({1, 4}, pmc_fields, -1),
               !.particles = { P(1, At3(5, 3, 2, 4), At3(-3, 2, 1, 4), 3),
                               P(2, At3(9, 5, 3, 5), At3(4, 1, 0, 5), 7) },
               !.num_step = 1],
  \* 8: too few rounds for a particle that crosses an edge
  [Base EXCEPT !.gn = <<4, 4, 2>>, !.gp = <<2, 2, 1>>, !.num_comm_round = 1, !.drops = TRUE,
               !.free = FALSE, !.num_step = 1,
               !.particles = { P(1, At3(9, 9, 2, 5), At3(4, 3, 1, 5), 3),
                               P(2, At3(9, 5, 7, 5), At3(4, 1, 3, 5), 7) }],
  \* 9: all eight ranks around a corner
  [Base EXCEPT !.gn = <<4, 4, 4>>, !.gp = <<2, 2, 2>>, !.free = FALSE, !.damp = 3, !.num_step = 1,
               !.particles = { P(1, At3(9, 9, 11, 5), At3(4, 3, -3, 5), 3),
                               P(2, At3(9, 5, 7, 5), At3(4, 1, 3, 5), 7) }],
  \* 10: three ranks in a row; cleaning now and then
  [Base EXCEPT !.gn = <<6, 2, 2>>, !.gp = <<3, 1, 1>>, !.free = FALSE, !.num_step = 3,
               !.clean_div_e_interval = 2, !.clean_div_b_interval = 3,
               !.sync_shared_interval = 2],
  \* 11-13: vectors, in a box that has whole blocks, and ends of rows in them
  [Wide EXCEPT !.lanes = 4],
  [Wide EXCEPT !.lanes = 8, !.P = 11, !.materials = <<Plain, Dense>>, !.spare = FALSE],
  [Wide EXCEPT !.lanes = 16, !.damp = 3, !.gn = <<4, 10, 3>>]
>>
MCDecks == {Catalogue[k] : k \in DOMAIN Catalogue}
=============================================================================
