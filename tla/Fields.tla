------------------------------- MODULE Fields -------------------------------
(***************************************************************************)
(* A time step of the whole program, fields and particles together: the    *)
(* order in which initialize and advance (vpic/) call the kernels, and the *)
(* order in which a kernel exchanges ghosts, runs on the pipelines and on  *)
(* the host, and waits for both.                                           *)
(*                                                                         *)
(* Process 0 is the simulation of the undivided box on one rank.  It runs  *)
(* first and leaves its state at every check; then the ranks 0..N-1 of the *)
(* divided box run, as processes 1..N, each as far ahead of the others as  *)
(* the messages let it.                                                    *)
(*                                                                         *)
(* A deck of Decks is a deck of module Grid with                           *)
(*   walls     : [fbc, pbc] of the faces whose condition the deck sets     *)
(*   materials : their parameters; spare, that the undivided box has one   *)
(*               more, so that it does not use the vacuum kernels          *)
(*   damp      : the damping of the radiation field                        *)
(*   P, lanes, block : as in a grid, for the divided box; the undivided    *)
(*               one has one pipeline and no vectors                       *)
(*   particles : particles with their position x in the box, in cells      *)
(*   injected  : particles that user_particle_injection injects, with age  *)
(*               and update_rhob                                           *)
(*   dirty     : the deck loads a field that is not divergence free, and   *)
(*               user_field_injection changes e                            *)
(*   num_comm_round, num_step, clean_div_e_interval, clean_div_b_interval, *)
(*   sync_shared_interval; drops, that particles are left on the movers    *)
(*   free      : every interleaving of the ranks is explored; otherwise    *)
(*               the first that can go on does                             *)
(***************************************************************************)
EXTENDS SfInterface

CONSTANT Decks

VARIABLES
  deck,    \* the deck
  program, \* its program, the same for every process
  grid,    \* of each process, its grid
  pc,      \* its place in the program
  field,   \* its field array
  interp,  \* its interpolators
  acc,     \* its accumulators, the host's and the pipelines'
  hydro,   \* its hydro arrays, the pipelines' and the host's
  parts,   \* its particles
  movers,  \* those a face has stopped
  job,     \* what its pipelines have still to do
  mail,    \* by face, the messages that have arrived and wait
  offered, \* what it has contributed to each sum over the ranks
  sums,    \* the results of those it knows
  err,     \* what synchronize_tang_e_norm_b has added up
  snap     \* what process 0 left at each check

vars == <<deck, program, grid, pc, field, interp, acc, hydro, parts, movers, job, mail,
          offered, sums, err, snap>>

-----------------------------------------------------------------------------
(* The boxes of the processes.                                             *)
Procs(x) == 0..Volume(x.gp)
World(n, x) == IF n = 0 THEN {0} ELSE Procs(x) \ {0}
DeckOf(n, x) == IF n = 0 THEN [x EXCEPT !.gp = <<1, 1, 1>>] ELSE x
RankOf(n) == IF n = 0 THEN 0 ELSE n - 1

Walled(x, a) == (x.box # "periodic" /\ x.gn[a] > 1) \/ a + 2 \in DOMAIN x.walls

(* Global coordinates of a voxel; around a periodic box, of the same point.*)
Global(n, x, c) == GlobalCoord(DeckOf(n, x), RankOf(n), c)
Point(x, c) == [a \in 1..3 |-> IF Walled(x, a) THEN c[a] ELSE ((c[a] - 1) % x.gn[a]) + 1]

(* set_domain_field_bc and set_domain_particle_bc, as decks use them.      *)
SetDomain(g, y, rank, walls) ==
  FoldLeft(LAMBDA h, f :
             IF f \in DOMAIN walls /\ Outer(y, rank, f)
             THEN SetBoundary(h, y, f, walls[f].fbc, walls[f].pbc) ELSE h,
           g, <<0, 1, 2, 3, 4, 5>>)

(* set_region_material gives ghosts a material too: around a periodic box, *)
(* and beyond a wall the mirror image's.                                   *)
GridFor(x, n) ==
  LET y == DeckOf(n, x)
      rank == RankOf(n)
      t == SetDomain(Partition(y, rank), y, rank, x.walls)
      size == LocalSize(y)
      count == Len(x.materials) + (IF n = 0 /\ x.spare THEN 1 ELSE 0)
      within(c) == [a \in 1..3 |->
        IF Walled(x, a) THEN Max({1, Min({c[a], x.gn[a]})}) ELSE Point(x, c)[a]]
      material(v, a) ==
        LET p == within(Global(n, x, Coord(v, size)))
        IN (p[1] + 2 * p[2] + p[3] + a) % Len(x.materials)
      by(a) == [v \in 0..(nv(size) - 1) |-> material(v, a)]
  IN [ n |-> size, bc |-> t.bc, neighbor |-> t.neighbor,
       rangel |-> range(y, rank), rangeh |-> range(y, rank + 1) - 1,
       fmat |-> <<by(1), by(2), by(3)>>, emat |-> <<by(4), by(5), by(6)>>, nmat |-> by(7),
       mc |-> [m \in 0..(Len(x.materials) - 1) |-> material_coefficient(x.materials[m + 1])],
       one |-> count = 1, damp |-> x.damp,
       P |-> IF n = 0 THEN 1 ELSE x.P, lanes |-> IF n = 0 THEN 1 ELSE x.lanes,
       block |-> IF n = 0 THEN 16 ELSE x.block ]

G(n) == grid[n]

(* What the deck loads: any numbers, the same for all who hold a point.    *)
Noise(k, p) ==
  (31 * k + 101 * p[1] + 1009 * p[2] * p[1] + 5003 * p[3] + 77 * p[2] * p[3] * p[3]
     + k * p[1] * p[1] * p[3]) % Prime
Curl(x, p, a) ==
  LET b == Follow(a)
      c == Follow(b)
      slope(i) == IF x.gn[i] > 1 THEN rd[i] ELSE 0
      bare(i, q) == \E f \in DOMAIN x.walls :
                      /\ x.walls[f].fbc = symmetric_fields /\ Axis(f) # i
                      /\ q[Axis(f)] = IF Dir(f) < 0 THEN 1 ELSE x.gn[Axis(f)] + 1
      A(i, q) == IF bare(i, q) THEN 0 ELSE Noise(i, Point(x, q))
  IN (slope(b) * (A(c, [p EXCEPT ![b] = @ + 1]) - A(c, p))
        - slope(c) * (A(b, [p EXCEPT ![c] = @ + 1]) - A(b, p))) % Prime

(* A magnetic field is the curl of some potential, normal to the walls     *)
(* that want no flux through them, unless it is to be dirty.               *)
Loaded(x, n, size) ==
  LET at(v) == Point(x, Global(n, x, Coord(v, size)))
      some(k, a, v) == IF k = "e" THEN Noise(10 + a, at(v))
                       ELSE IF x.dirty THEN Noise(20 + a, at(v)) ELSE Curl(x, at(v), a)
      fill(k) == [a \in 1..3 |-> Overlay(Zero(size), [v \in Nodes(size) |-> some(k, a, v)])]
  IN [CLEAR(size) EXCEPT !.e = fill("e"), !.cb = fill("cb")]

(* inject_particle with no age, for those of ps that fall to this rank.    *)
InBox(p, n, x) ==
  LET corner == Global(n, x, <<0, 0, 0>>)
  IN [a \in 1..3 |-> Minus(p.x[a], <<corner[a], 1>>)]
Particle(p) == [id |-> p.id, i |-> 0, dx |-> <<one, one, one>>, u |-> p.u, q |-> p.q, disp |-> p.u]
Mine(ps, n, x, g) ==
  {Injected(g, InBox(p, n, x), Particle(p)) : p \in {p \in ps : Injects(g, InBox(p, n, x))}}

-----------------------------------------------------------------------------
(* The program, as the instructions it comes down to:                      *)
(*   host k           : phase k, on the host                               *)
(*   exec k, wait k   : phase k, on the pipelines; their end, then phase k *)
(*   stragglers k     : the host's share of k                              *)
(*   begin kind faces : pack and send through the faces, then phase k      *)
(*   end kind faces   : receive through the faces and unpack               *)
(*   offer k, collect : a sum over the ranks                               *)
(*   do k             : an operation on particles                          *)
(*   check            : nothing; the processes are compared here           *)
Host(k) == [op |-> "host", k |-> k]
Exec(k) == [op |-> "exec", k |-> k]
EXEC_PIPELINES(k) == << Exec(k), [op |-> "stragglers", k |-> k] >>
Wait(k) == [op |-> "wait", k |-> k]
Pipelined(k) == EXEC_PIPELINES(k) \o << Wait("none") >>
Begin(kind, faces, k) == [op |-> "begin", kind |-> kind, faces |-> faces, k |-> k]
End(kind, faces) == [op |-> "end", kind |-> kind, faces |-> faces]
mp_allsum(k) == << [op |-> "offer", k |-> k], [op |-> "collect"] >>
Do(k) == [op |-> "do", k |-> k]
Check == << [op |-> "check"] >>

AllFaces == <<0, 1, 2, 3, 4, 5>>

advance_b == EXEC_PIPELINES("advance_b") \o << Host("advance_b"), Wait("local_adjust_norm_b") >>

(* In advance_e and the like the ghosts travel while the inside, which     *)
(* needs none, is computed.                                                *)
advance_e_StaleGhosts ==
  << Begin("tang_b", AllFaces, "local_ghost_tang_b") >> \o EXEC_PIPELINES("advance_e")
    \o << Host("advance_e"), Wait("none"),
          Host("advance_e_exterior"),
          End("tang_b", AllFaces), Host("local_adjust_tang_e") >>
advance_e ==
  << Begin("tang_b", AllFaces, "local_ghost_tang_b") >> \o EXEC_PIPELINES("advance_e")
    \o << Host("advance_e"), Wait("none"),
          End("tang_b", AllFaces),
          Host("advance_e_exterior"), Host("local_adjust_tang_e") >>
compute_curl_b ==
  << Begin("tang_b", AllFaces, "local_ghost_tang_b") >> \o EXEC_PIPELINES("compute_curl_b")
    \o << Host("compute_curl_b"), Wait("none"),
          End("tang_b", AllFaces), Host("compute_curl_b_exterior") >>

compute_rhob ==
  << Begin("norm_e", AllFaces, "local_ghost_norm_e") >> \o EXEC_PIPELINES("compute_rhob")
    \o << End("norm_e", AllFaces), Host("compute_rhob"), Wait("local_adjust_rhob") >>
compute_div_e_err ==
  << Begin("norm_e", AllFaces, "local_ghost_norm_e") >> \o EXEC_PIPELINES("compute_div_e_err")
    \o << End("norm_e", AllFaces), Host("compute_div_e_err"), Wait("local_adjust_div_e") >>
clean_div_e ==
  EXEC_PIPELINES("clean_div_e") \o << Host("clean_div_e"), Wait("local_adjust_tang_e") >>

compute_div_b_err == EXEC_PIPELINES("compute_div_b_err") \o << Wait("none") >>
clean_div_b ==
  << Begin("div_b", AllFaces, "local_ghost_div_b") >> \o EXEC_PIPELINES("clean_div_b")
    \o << Host("clean_div_b"),
          End("div_b", AllFaces), Host("clean_div_b_exterior"), Wait("local_adjust_norm_b") >>

(* Shared planes are synchronized an axis at a time, so that what lies on  *)
(* several of them is combined over all their ranks.                       *)
Passes_AtOnce(kind) == << Begin(kind, AllFaces, "none"), End(kind, AllFaces) >>
Passes(kind) ==
  << Begin(kind, <<0, 3>>, "none"), End(kind, <<0, 3>>),
     Begin(kind, <<1, 4>>, "none"), End(kind, <<1, 4>>),
     Begin(kind, <<2, 5>>, "none"), End(kind, <<2, 5>>) >>

synchronize_jf == <<Host("local_adjust_jf")>> \o Passes("jf")
synchronize_rho == <<Host("local_adjust_rho")>> \o Passes("rho")
synchronize_tang_e_norm_b ==
  <<Host("local_adjust_tang_e_norm_b")>> \o Passes("tang_e_norm_b") \o mp_allsum("err")

synchronize_hydro_array ==
  Pipelined("reduce_hydro") \o << Do("local_adjust_hydro") >> \o Passes("hydro")
dump_hydro ==
  Pipelined("clear_hydro") \o Pipelined("accumulate_hydro_p") \o synchronize_hydro_array

initialize ==
  synchronize_tang_e_norm_b
    \o compute_div_b_err \o mp_allsum("rms_div_b_err") \o clean_div_b
    \o compute_curl_b
    \o << Host("clear_rhof"), Do("accumulate_rho_p") >> \o synchronize_rho
    \o compute_rhob
    \o compute_div_e_err \o mp_allsum("rms_div_e_err") \o clean_div_e
    \o synchronize_tang_e_norm_b \o Pipelined("load_interpolator") \o Check

Every(interval, step) == interval > 0 /\ step % interval = 0
advance(x, step) ==
  Pipelined("clear_accumulators") \o Pipelined("advance_p")
    \o << Do("user_particle_injection") >> \o Pipelined("reduce_accumulators")
    \o FlattenSeq([round \in 1..x.num_comm_round |-> << Do("boundary_p"), Do("boundary_p_receive") >>])
    \o << Do("drop"), Host("clear_jf") >> \o Pipelined("unload_accumulator") \o synchronize_jf
    \o advance_b \o advance_e \o << Host("user_field_injection") >> \o advance_b
    \o (IF Every(x.clean_div_e_interval, step)
        THEN << Host("clear_rhof"), Do("accumulate_rho_p") >> \o synchronize_rho
               \o compute_div_e_err \o mp_allsum("rms_div_e_err") \o clean_div_e
        ELSE << >>)
    \o (IF Every(x.clean_div_b_interval, step)
        THEN compute_div_b_err \o mp_allsum("rms_div_b_err") \o clean_div_b ELSE << >>)
    \o (IF Every(x.sync_shared_interval, step) THEN synchronize_tang_e_norm_b ELSE << >>)
    \o Pipelined("load_interpolator")
    \o mp_allsum("energy_f") \o dump_hydro \o Check

Program(x) ==
  initialize \o FlattenSeq([step \in 1..x.num_step |-> advance(x, step - 1)])

Done(n) == pc[n] > Len(program)
Now(n) == program[pc[n]]

-----------------------------------------------------------------------------
(* The phases that only work on the field array.                           *)
user_field_injection(g, f, n) ==
  IF ~deck.dirty THEN f
  ELSE [f EXCEPT !.e = [a \in 1..3 |-> Overlay(@[a],
          [v \in Nodes(g.n) |-> (@[a][v] + Noise(a, Point(deck, Global(n, deck, Coord(v, g.n))))) % Prime])]]

HostPhase(k, n, f) ==
  LET g == G(n) IN
  CASE k = "none" -> f
    [] k = "clear_jf" -> clear_jf(g, f)
    [] k = "clear_rhof" -> clear_rhof(g, f)
    [] k = "advance_b" -> advance_b_host(g, f)
    [] k = "advance_e" -> IF g.one THEN vacuum_advance_e_host(g, f) ELSE advance_e_host(g, f)
    [] k = "advance_e_exterior" ->
         IF g.one THEN vacuum_advance_e_exterior(g, f) ELSE advance_e_exterior(g, f)
    [] k = "compute_curl_b" ->
         IF g.one THEN vacuum_compute_curl_b_host(g, f) ELSE compute_curl_b_host(g, f)
    [] k = "compute_curl_b_exterior" ->
         IF g.one THEN vacuum_compute_curl_b_exterior(g, f) ELSE compute_curl_b_exterior(g, f)
    [] k = "compute_rhob" ->
         IF g.one THEN vacuum_compute_rhob_exterior(g, f) ELSE compute_rhob_exterior(g, f)
    [] k = "compute_div_e_err" ->
         IF g.one THEN vacuum_compute_div_e_err_exterior(g, f) ELSE compute_div_e_err_exterior(g, f)
    [] k = "clean_div_e" -> IF g.one THEN vacuum_clean_div_e_host(g, f) ELSE clean_div_e_host(g, f)
    [] k = "clean_div_b" -> clean_div_b_host(g, f)
    [] k = "clean_div_b_exterior" -> clean_div_b_exterior(g, f)
    [] k = "local_ghost_tang_b" -> local_ghost_tang_b(g, f)
    [] k = "local_ghost_norm_e" -> local_ghost_norm_e(g, f)
    [] k = "local_ghost_div_b" -> local_ghost_div_b(g, f)
    [] k = "local_adjust_tang_e" -> local_adjust_tang_e(g, f)
    [] k = "local_adjust_norm_b" -> local_adjust_norm_b(g, f)
    [] k = "local_adjust_tang_e_norm_b" -> local_adjust_norm_b(g, local_adjust_tang_e(g, f))
    [] k = "local_adjust_div_e" -> local_adjust_div_e(g, f)
    [] k = "local_adjust_rhob" -> local_adjust_rhob(g, f)
    [] k = "local_adjust_rho" -> local_adjust_rhob(g, local_adjust_rhof(g, f))
    [] k = "local_adjust_jf" -> local_adjust_jf(g, f)
    [] k = "user_field_injection" -> user_field_injection(g, f, n)

-----------------------------------------------------------------------------
(* Operations on more than fields.  A process's state is taken as one      *)
(* record: field, interpolators, accumulators, hydro, particles, movers.   *)
All(n) == [f |-> field[n], fi |-> interp[n], acc |-> acc[n], h |-> hydro[n],
           p |-> parts[n], m |-> movers[n]]
Put(n, w) ==
  /\ field' = [field EXCEPT ![n] = w.f]
  /\ interp' = [interp EXCEPT ![n] = w.fi]
  /\ acc' = [acc EXCEPT ![n] = w.acc]
  /\ hydro' = [hydro EXCEPT ![n] = w.h]
  /\ parts' = [parts EXCEPT ![n] = w.p]
  /\ movers' = [movers EXCEPT ![n] = w.m]

(* A particle in w.p has come to w.h.p, in use as a mover or not.          *)
Settle(w, h, which) ==
  IF h.in_use THEN [w EXCEPT !.acc[which] = h.acc, !.m = @ \cup {h.p}]
              ELSE [w EXCEPT !.acc[which] = h.acc, !.p = @ \cup {h.p}]

(* Which pipeline gets a particle depends on its place in the list; here   *)
(* it is on its id, and number P, the host, has some too.                  *)
ParticleShare(g, ps, p) == {x \in ps : x.id % (g.P + 1) = g.P - p}
(* The host uses the first accumulator array, the pipelines the others.    *)
advance_p(n, w, p) ==
  LET ps == ParticleShare(G(n), w.p, p)
      which == IF p = G(n).P THEN 0 ELSE 1 + p
  IN FoldSet(LAMBDA x, z : Settle(z, Advance(G(n), x, z.acc[which]), which), [w EXCEPT !.p = @ \ ps], ps)

(* user_particle_injection: inject_particle, with an age or not.           *)
inject_particle(n, w, p) ==
  LET g == G(n)
      new == CHOOSE q \in Mine({p}, n, deck, g) : TRUE
      w1 == IF p.update_rhob THEN [w EXCEPT !.f = accumulate_rhob(g, @, new, -new.q)] ELSE w
      aged == [new EXCEPT !.disp = [a \in 1..3 |-> Mult(new.u[a], p.age)]]
  IN IF Mine({p}, n, deck, g) = {} THEN w
     ELSE IF p.age[1] = 0 THEN [w1 EXCEPT !.p = @ \cup {new}]
     ELSE Settle(w1, move_p(g, aged, w1.acc[0]), 0)

Shared(n) == {f \in Face : G(n).bc[f] >= 0 /\ G(n).bc[f] # RankOf(n)}
Neighbor(n, f) == IF n = 0 THEN 0 ELSE G(n).bc[f] + 1

(* boundary_p: absorb a mover, or turn it into an injector for the rank on *)
(* the other side of the face.                                             *)
Struck(n, m) == [voxel |-> m.i \div 8, face |-> m.i % 8,
                 nn |-> G(n).neighbor[m.i \div 8][m.i % 8]]
absorb(n, f, m) ==
  accumulate_rhob(G(n), f, [m EXCEPT !.i = Struck(n, m).voxel], m.q)
injector(n, m) ==
  LET s == Struck(n, m) IN
  [m EXCEPT !.dx[Axis(s.face)] = <<-Dir(s.face), 1>>,
            !.i = s.nn - range(DeckOf(n, deck), G(n).bc[s.face])]

boundary_p(n, w) ==
  [w EXCEPT !.m = {},
            !.f = FoldSet(LAMBDA m, f : absorb(n, f, m), @,
                          {m \in w.m : Struck(n, m).nn = absorb_particles})]
Injectors(n, face) ==
  {injector(n, m) : m \in {m \in movers[n] : Struck(n, m).face = face /\ Struck(n, m).nn >= 0}}

boundary_p_receive(n, w, pi) ==
  FoldSet(LAMBDA p, z : Settle(z, move_p(G(n), p, z.acc[0]), 0), w, pi)

(* What is left on the mover list is bound to the mesh and dropped.        *)
drop_Unbound(n, w) == [w EXCEPT !.m = {}]
drop(n, w) ==
  [w EXCEPT !.m = {}, !.f = FoldSet(LAMBDA m, f : absorb(n, f, m), @, w.m)]

ParticlePhase(k, n, w) ==
  CASE k = "user_particle_injection" ->
         FoldSet(LAMBDA p, z : inject_particle(n, z, p), w, deck.injected)
    [] k = "drop" -> drop(n, w)
    [] k = "accumulate_rho_p" -> [w EXCEPT !.f = accumulate_rho_p(G(n), @, w.p)]
    [] k = "boundary_p" -> boundary_p(n, w)
    [] k = "local_adjust_hydro" -> [w EXCEPT !.h[0] = local_adjust_hydro(G(n), @)]

(* The share of pipeline p in a call, or of the host.                      *)
Job(k, n, w, p, lanes) ==
  LET g == G(n) IN
  CASE k = "advance_p" -> advance_p(n, w, p)
    [] k = "clear_accumulators" -> [w EXCEPT !.acc = clear_accumulator_array(g, @, p)]
    [] k = "reduce_accumulators" -> [w EXCEPT !.acc = reduce_accumulator_array(g, @, p, lanes)]
    [] k = "unload_accumulator" ->
         [w EXCEPT !.f = unload_accumulator_pipeline_scalar(g, @, w.acc[0], p)]
    [] k = "load_interpolator" -> [w EXCEPT !.fi = load_interpolator_array(g, w.f, @, p, lanes)]
    [] k = "clear_hydro" -> [w EXCEPT !.h = clear_hydro_array(g, @, p)]
    [] k = "accumulate_hydro_p" ->
         [w EXCEPT !.h[p] = accumulate_hydro_p(g, @, ParticleShare(g, w.p, p))]
    [] k = "reduce_hydro" -> [w EXCEPT !.h = reduce_hydro_array(g, @, p, lanes)]
    [] OTHER -> [w EXCEPT !.f = Pipeline(k, g, @, p, lanes)]

-----------------------------------------------------------------------------
Init ==
  /\ deck \in Decks
  /\ program = Program(deck)
  /\ LET x == deck IN
     /\ grid = [n \in Procs(x) |-> GridFor(x, n)]
     /\ pc = [n \in Procs(x) |-> 1]
     /\ field = [n \in Procs(x) |-> Loaded(x, n, LocalSize(DeckOf(n, x)))]
     /\ interp = [n \in Procs(x) |->
          [v \in 0..(nv(LocalSize(DeckOf(n, x))) - 1) |-> [k \in 1..18 |-> 0]]]
     /\ acc = [n \in Procs(x) |-> [p \in 0..G(n).P |-> clear_accumulator]]
     /\ hydro = [n \in Procs(x) |-> [p \in 0..G(n).P |-> clear_accumulator]]
     /\ parts = [n \in Procs(x) |-> Mine(x.particles, n, x, G(n))]
     /\ movers = [n \in Procs(x) |-> {}]
     /\ job = [n \in Procs(x) |-> "none"]
     /\ mail = [n \in Procs(x) |-> [f \in Face |-> << >>]]
     /\ offered = [n \in Procs(x) |-> << >>]
     /\ sums = [n \in Procs(x) |-> << >>]
     /\ err = [n \in Procs(x) |-> 0]
     /\ snap = << >>

Arrived(n, faces) ==
  \A i \in DOMAIN faces : G(n).bc[faces[i]] >= 0 => mail[n][faces[i]] # << >>
Summed(n) == \A m \in World(n, deck) : Len(offered[m]) > Len(sums[n])

(* Whether n can go on, if only by its pipelines.                          *)
Ready(n) ==
  /\ ~Done(n)
  /\ CASE Now(n).op = "end" -> Arrived(n, Now(n).faces)
       [] Now(n).op = "do" /\ Now(n).k = "boundary_p_receive" ->
            \A f \in Shared(n) : mail[n][f] # << >>
       [] Now(n).op = "collect" -> Summed(n)
       [] OTHER -> TRUE

Turn(n) ==
  /\ n # 0 => Done(0)
  /\ ~deck.free => \A m \in 1..(n - 1) : ~Ready(m)
At(n, op) == Turn(n) /\ ~Done(n) /\ Now(n).op = op
Next1(n) == pc' = [pc EXCEPT ![n] = @ + 1]


HostStep(n) ==
  /\ At(n, "host")
  /\ field' = [field EXCEPT ![n] = HostPhase(Now(n).k, n, @)]
  /\ Next1(n)
  /\ UNCHANGED <<deck, program, grid, interp, acc, hydro, parts, movers, job, mail, offered, sums, err, snap>>

Stragglers(n) ==
  /\ At(n, "stragglers")
  /\ Put(n, Job(Now(n).k, n, All(n), G(n).P, 1))
  /\ Next1(n)
  /\ UNCHANGED <<deck, program, grid, job, mail, offered, sums, err, snap>>

(* EXEC_PIPELINES leaves the work to the pipelines ...                     *)
ExecPipelines(n) ==
  /\ At(n, "exec")
  /\ job' = [job EXCEPT ![n] = Now(n).k]
  /\ Next1(n)
  /\ UNCHANGED <<deck, program, grid, field, interp, acc, hydro, parts, movers, mail, offered, sums, err, snap>>

(* ... which do it some time before ...                                    *)
Pipelines(n) ==
  /\ Turn(n) /\ job[n] # "none"
  /\ Put(n, FoldLeft(LAMBDA w, p : Job(job[n], n, w, p - 1, G(n).lanes), All(n), [p \in 1..G(n).P |-> p]))
  /\ job' = [job EXCEPT ![n] = "none"]
  /\ UNCHANGED <<deck, program, grid, pc, mail, offered, sums, err, snap>>

(* ... WAIT_PIPELINES returns.                                             *)
WaitPipelines(n) ==
  /\ At(n, "wait") /\ job[n] = "none"
  /\ field' = [field EXCEPT ![n] = HostPhase(Now(n).k, n, @)]
  /\ Next1(n)
  /\ UNCHANGED <<deck, program, grid, interp, acc, hydro, parts, movers, job, mail, offered, sums, err, snap>>

(* A message through face f lands in the neighbor's port for the opposite  *)
(* face.  Both may be this process's own.                                  *)
Post(boxes, n, faces, message) ==
  FoldLeft(LAMBDA b, f : [b EXCEPT ![Neighbor(n, f)][Opposite(f)] = Append(@, message[f])],
           boxes, SelectSeq(faces, LAMBDA f : G(n).bc[f] >= 0))
Taken(boxes, n, faces) ==
  [boxes EXCEPT ![n] = [f \in Face |-> IF f \in faces THEN Tail(@[f]) ELSE @[f]]]

BeginExchange(n) ==
  /\ At(n, "begin")
  /\ mail' = Post(mail, n, Now(n).faces,
                  [f \in Face |-> IF Now(n).kind = "hydro" THEN PackHydro(G(n), hydro[n][0], f)
                                  ELSE Pack(Now(n).kind, G(n), field[n], f)])
  /\ field' = [field EXCEPT ![n] = HostPhase(Now(n).k, n, @)]
  /\ Next1(n)
  /\ UNCHANGED <<deck, program, grid, interp, acc, hydro, parts, movers, job, offered, sums, err, snap>>

(* The messages through faces, as [f |-> the face they were sent through,  *)
(* msg |-> the message], in the order they are dealt with.                 *)
Incoming(n, faces) ==
  LET ports == SelectSeq(faces, LAMBDA f : G(n).bc[Opposite(f)] >= 0)
  IN [i \in DOMAIN ports |-> [f |-> ports[i], msg |-> Head(mail[n][Opposite(ports[i])])]]

EndExchange(n) ==
  LET kind == Now(n).kind
      faces == Now(n).faces
      Receive(h, in) ==
        [f |-> IF kind = "hydro" THEN h.f ELSE Unpack(kind, G(n), h.f, in.f, in.msg),
         h |-> IF kind = "hydro" THEN UnpackHydro(G(n), h.h, in.f, in.msg) ELSE h.h,
         err |-> IF kind = "tang_e_norm_b"
                 THEN (h.err + Drift(G(n), h.f, in.f, in.msg)) % Prime ELSE h.err]
      after == FoldLeft(Receive, [f |-> field[n], h |-> hydro[n][0], err |-> err[n]],
                        Incoming(n, faces))
  IN /\ At(n, "end") /\ Arrived(n, faces)
     /\ field' = [field EXCEPT ![n] = after.f]
     /\ hydro' = [hydro EXCEPT ![n][0] = after.h]
     /\ err' = [err EXCEPT ![n] = after.err]
     /\ mail' = Taken(mail, n, {f \in Face : (\E i \in DOMAIN faces : faces[i] = f)
                                                /\ G(n).bc[f] >= 0})
     /\ Next1(n)
     /\ UNCHANGED <<deck, program, grid, interp, acc, parts, movers, job, offered, sums, snap>>

(* mp_allsum                                                               *)
Contribution(n) ==
  CASE Now(n).k = "err" -> <<err[n]>>
    [] Now(n).k = "rms_div_e_err" -> compute_rms_div_e_err(G(n), field[n])
    [] Now(n).k = "rms_div_b_err" -> compute_rms_div_b_err(G(n), field[n])
    [] Now(n).k = "energy_f" ->
         IF G(n).one THEN vacuum_energy_f(G(n), field[n]) ELSE energy_f(G(n), field[n])
Offer(n) ==
  /\ At(n, "offer")
  /\ offered' = [offered EXCEPT ![n] = Append(@, Contribution(n))]
  /\ err' = [err EXCEPT ![n] = 0]
  /\ Next1(n)
  /\ UNCHANGED <<deck, program, grid, field, interp, acc, hydro, parts, movers, job, mail, sums, snap>>
Collect(n) ==
  /\ At(n, "collect") /\ Summed(n)
  /\ LET k == Len(sums[n]) + 1
     IN sums' = [sums EXCEPT ![n] =
          Append(@, SumUp([m \in 1..Cardinality(World(n, deck)) |-> offered[IF n = 0 THEN 0 ELSE m][k]]))]
  /\ Next1(n)
  /\ UNCHANGED <<deck, program, grid, field, interp, acc, hydro, parts, movers, job, mail, offered, err, snap>>

-----------------------------------------------------------------------------
Particles(n) ==
  /\ At(n, "do") /\ Now(n).k # "boundary_p_receive"
  /\ Put(n, ParticlePhase(Now(n).k, n, All(n)))
  /\ mail' = IF Now(n).k # "boundary_p" THEN mail
             ELSE Post(mail, n, SelectSeq(AllFaces, LAMBDA f : f \in Shared(n)),
                       [f \in Face |-> Injectors(n, f)])
  /\ Next1(n)
  /\ UNCHANGED <<deck, program, grid, job, offered, sums, err, snap>>

(* The injectors are moved on; a mover may be stopped again.               *)
BoundaryReceive(n) ==
  /\ At(n, "do") /\ Now(n).k = "boundary_p_receive"
  /\ \A f \in Shared(n) : mail[n][f] # << >>
  /\ Put(n, boundary_p_receive(n, All(n), UNION {Head(mail[n][f]) : f \in Shared(n)}))
  /\ mail' = Taken(mail, n, Shared(n))
  /\ Next1(n)
  /\ UNCHANGED <<deck, program, grid, job, offered, sums, err, snap>>

(* The undivided box leaves a copy of its state at every check.            *)
Compare(n) ==
  /\ At(n, "check")
  /\ snap' = IF n = 0 THEN Append(snap, All(0)) ELSE snap
  /\ Next1(n)
  /\ UNCHANGED <<deck, program, grid, field, interp, acc, hydro, parts, movers, job, mail, offered, sums, err>>

Terminated == (\A n \in Procs(deck) : Done(n)) /\ UNCHANGED vars

Step(n) == \/ HostStep(n) \/ ExecPipelines(n) \/ Stragglers(n) \/ Pipelines(n) \/ WaitPipelines(n)
           \/ BeginExchange(n) \/ EndExchange(n) \/ Offer(n) \/ Collect(n)
           \/ Particles(n) \/ BoundaryReceive(n) \/ Compare(n)
Next == (\E n \in Procs(deck) : Step(n)) \/ Terminated
Spec == Init /\ [][Next]_vars

-----------------------------------------------------------------------------
(* Each array holds numbers of the field, each list of particles particles *)
(* that are in the box, and each port messages that its kernel reads.      *)
TypeOK ==
  /\ \A n \in Procs(deck) :
       /\ pc[n] \in 1..(Len(program) + 1)
       /\ \A k \in {"e", "tca", "cb", "jf", "rhof", "rhob", "div_e_err", "div_b_err"} :
            \A i \in DOMAIN field[n][k] : \A v \in DOMAIN field[n][k][i] :
              field[n][k][i][v] \in 0..(Prime - 1)
       /\ \A p \in parts[n] : Interior(Coord(p.i, G(n).n), G(n).n) /\ InBounds(p.dx)
       /\ \A m \in movers[n] : Interior(Coord(m.i \div 8, G(n).n), G(n).n) /\ m.i % 8 \in Face
       /\ err[n] \in 0..(Prime - 1)

AtCheck(n) == ~Done(n) /\ Now(n).op = "check"
Checked(n) == Cardinality({i \in 1..(pc[n] - 1) : program[i].op = "check"}) + 1

(* The voxels of a component that lie in a rank's box or on its faces.     *)
Held(k, i, n) ==
  LET up(a) == 1..n[a]
      far(a) == 1..(n[a] + 1)
      b == Follow(i)
      c == Follow(b)
  IN CASE k \in {"e", "tca", "jf"} -> Box(n, i, up(i), far(b), far(c))
       [] k = "cb" -> Box(n, i, far(i), up(b), up(c))
       [] k \in {"rhof", "rhob", "div_e_err"} -> Nodes(n)
       [] k = "div_b_err" -> Box(n, 1, up(1), up(2), up(3))

GlobalV(n, v) == VOXEL(Global(n, deck, Coord(v, G(n).n)), deck.gn)
InWhole(n, p) == [p EXCEPT !.i = GlobalV(n, @)]

HydroAt(h, v) == IF v \in DOMAIN h THEN h[v] ELSE <<0, 0, 0, 0>>

(* The divided box is the undivided one: at the end of every step each     *)
(* rank has the fields, interpolators, moments and particles of its part   *)
(* of the box that one rank without pipelines would have had there, and    *)
(* has been given the same sums, whatever the ranks and the pipelines did  *)
(* first (field_advance, sf_interface, boundary_p.cc).                     *)
DividedIsUndivided ==
  \A n \in Procs(deck) \ {0} :
    AtCheck(n) /\ ~deck.drops =>
      LET whole == snap[Checked(n)] IN
      /\ \A k \in DOMAIN field[n] : \A i \in DOMAIN field[n][k] :
           \A v \in Held(k, i, G(n).n) : field[n][k][i][v] = whole.f[k][i][GlobalV(n, v)]
      /\ \A v \in Cells(G(n)) : interp[n][v] = whole.fi[GlobalV(n, v)]
      /\ \A v \in Nodes(G(n).n) : HydroAt(hydro[n][0], v) = HydroAt(whole.h[0], GlobalV(n, v))
      /\ {InWhole(n, p) : p \in parts[n]}
           = {p \in whole.p : p.i \in {GlobalV(n, v) : v \in Cells(G(n))}}
      /\ \A j \in DOMAIN sums[n] : sums[n][j] = sums[0][j]

AtSum(n, k) == ~Done(n) /\ Now(n).op = "offer" /\ Now(n).k = k
Lossless == \A i \in DOMAIN deck.materials : deck.materials[i].sigma = 0

(* Gauss's law: what is left over of div eps e less the charge is zero at  *)
(* every node, as long as no field was injected and nothing conducts:      *)
(* initialize binds what the particles do not explain, and from then on    *)
(* currents, absorbed, dropped and injected charges account for every      *)
(* change (advance_p, move_p, rho_p.cc, boundary_p.cc, misc.cc, advance_e).*)
GaussLaw ==
  \A n \in Procs(deck) :
    AtSum(n, "rms_div_e_err") /\ ~deck.dirty /\ Lossless =>
      \A v \in Nodes(G(n).n) : field[n].div_e_err[1][v] = 0

(* A magnetic field loaded without divergence keeps none, whatever the     *)
(* ghosts and the walls but symmetric ones, on which local_adjust_norm_b   *)
(* clears the flux whatever the field beside them is (advance_b,           *)
(* clean_div_b).                                                           *)
ClearsFlux == \E f \in DOMAIN deck.walls : deck.walls[f].fbc = symmetric_fields
NoMonopoles ==
  \A n \in Procs(deck) :
    AtSum(n, "rms_div_b_err") /\ ~deck.dirty /\ ~ClearsFlux =>
      \A v \in Cells(G(n)) : field[n].div_b_err[1][v] = 0

(* The copies that ranks hold of shared edges and faces have not drifted   *)
(* apart when they are synchronized: each computed the same from its own   *)
(* cells and ghosts (remote.cc, synchronize_tang_e_norm_b).                *)
NoDesync == \A n \in Procs(deck) : AtSum(n, "err") => err[n] = 0
=============================================================================
