----------------------------- MODULE Particles ------------------------------
(***************************************************************************)
(* What one rank does to the particle lists of its species in a time step  *)
(* (species_advance/standard, collision, vpic/advance.cc): the threaded    *)
(* sort and its legacy form, the collision operators, which find the       *)
(* particles of a voxel through the partition the last sort left, the      *)
(* advance, which fills one segment of the mover list per pipeline, the    *)
(* injection of aged particles, the removal of the particles whose movers  *)
(* nobody processed, and the kernels that read or change every momentum.   *)
(*                                                                         *)
(* Of a particle the model keeps which one it is, its voxel (8*voxel+face  *)
(* once it stopped at a face), the time its momentum is known at, in half  *)
(* steps, and how much collision it has been through. Where the push takes *)
(* it is a choice: it stays, crosses into a voxel, or stops at a face.     *)
(***************************************************************************)
EXTENDS Grid, Workload, FiniteSets, FiniteSetsExt

CONSTANTS Decks,     \* the settings explored
          UINT_MAX,  \* the largest draw of uirand
          MaxStep    \* bound: the last step taken

(* What a deck says: the box and how its voxels are numbered, the threads  *)
(* and the width of their vectors, the species and where their particles   *)
(* are loaded, what may become of them, the collision operators.           *)
BoxOf(n) == {VOXEL(<<x, y, z>>, n) : x \in 1 .. n[1], y \in 1 .. n[2], z \in 1 .. n[3]}
DeckOK(d) ==
  LET Kinds == 1 .. Len(d.species)
  IN /\ d.n \in Triple /\ d.P \in Nat \ {0} /\ d.lanes \in {1, 4, 8, 16}
     /\ d.PBUF_SIZE \in Nat \ {0}
     /\ d.species \in Seq([max_np : Nat, max_nm : Nat, sort_interval : Int]) /\ Kinds # {}
     /\ d.newId \in Nat /\ d.inject \subseteq BoxOf(d.n)
     /\ \A at \in d.at, s \in Kinds :
          /\ at[s] \in Seq(BoxOf(d.n)) /\ Len(at[s]) = d.loaded[s]
          /\ d.loaded[s] <= d.species[s].max_np /\ d.loaded[s] < d.newId
     /\ \A m \in d.motions : m.face \in Face
     /\ d.draws \subseteq 0 .. UINT_MAX
     /\ d.ops \in Seq([kind : {"takizuka_abe", "binary", "unary"}, i : Kinds, j : Kinds,
                        interval : Nat \ {0}])
ASSUME DecksAssumption ==
  /\ UINT_MAX \in Nat \ {0} /\ MaxStep \in Nat
  /\ \A d \in Decks : DeckOK(d)

VARIABLES deck, pc, step,
  p,            \* species -> the particles, from 0
  pm, nm,       \* species -> the mover list (indices of particles), its length
  partition,    \* species -> voxel -> the first particle of it
  last_sorted,  \* species -> the step of the last sort
  aux, coarse_partition, \* scratch memory of the sort
  call,         \* the call in progress: what, on which species, for whom
  todo,         \* the ranks that have not run their share of it
  seg,          \* what advance_p's ranks report, and what energy_p's sum up
  op,           \* the collision operator at work
  astray,       \* pairs that were not two particles of one voxel
  lost,         \* species -> the particles removed
  file          \* the last dump of every species

vars == <<deck, pc, step, p, pm, nm, partition, last_sorted, aux,
          coarse_partition, call, todo, seg, op, astray, lost, file>>
sortVars == <<partition, last_sorted, aux, coarse_partition>>

Species == 1 .. Len(deck.species)
N_PIPELINE == deck.P
np(s) == Cardinality(DOMAIN p[s])

n_voxel == nv(deck.n)
vl == VOXEL(<<1, 1, 1>>, deck.n)
vh == VOXEL(deck.n, deck.n)

POW2_CEIL(k, a) == a * ((k + a - 1) \div a)
Sum(S, f) == MapThenSumSet(LAMBDA x : f[x], S)
(* The numbers of S below n, in order.                                     *)
Below(n, S) ==
  LET b[k \in 0 .. n] == IF k = 0 THEN <<>>
                         ELSE IF k - 1 \in S THEN Append(b[k - 1], k - 1) ELSE b[k - 1]
  IN b[n]

(* Writes of src[i] to at[i] for every i, the later ones over the earlier. *)
Scatter(dst, src, at) ==
  [j \in DOMAIN dst |->
     LET from == {i \in DOMAIN at : at[i] = j}
     IN IF from = {} THEN dst[j] ELSE src[Max(from)]]

(* f with v at k, where there may have been nothing.                       *)
Put(f, k, v) == [j \in DOMAIN f \cup {k} |-> IF j = k THEN v ELSE f[j]]

P2V_RoundedDown(s, P) == vl + (s * (vh - vl + 1)) \div P

-----------------------------------------------------------------------------
(* The sort *)

V2P(v, P) == ((v - vl) * P) \div (vh - vl + 1)
P2V(s, P) == vl + (s * (vh - vl + 1) + P - 1) \div P
cp_stride == POW2_CEIL(N_PIPELINE, 4)

SortShare(s, rank) ==
  LET d == DISTRIBUTE(np(s), 1, rank, N_PIPELINE) IN d.i .. d.i + d.n - 1

coarse_count_pipeline_scalar(s, rank) ==
  [k \in DOMAIN coarse_partition |->
     IF k - cp_stride * rank \in 0 .. N_PIPELINE - 1
       THEN Cardinality({i \in SortShare(s, rank) :
                           V2P(p[s][i].i, N_PIPELINE) = k - cp_stride * rank})
       ELSE coarse_partition[k]]

(* Counts become places: subsort by subsort, within one rank by rank.      *)
CoarsePartition ==
  LET cell == {<<q, r>> : q \in 0 .. N_PIPELINE - 1, r \in 0 .. N_PIPELINE - 1}
      at(c) == c[1] + cp_stride * c[2]
      before(c) == {b \in cell : b[1] < c[1] \/ (b[1] = c[1] /\ b[2] < c[2])}
  IN [k \in DOMAIN coarse_partition |->
        IF \E c \in cell : at(c) = k
          THEN Sum(before(CHOOSE c \in cell : at(c) = k),
                   [b \in cell |-> coarse_partition[at(b)]])
          ELSE coarse_partition[k]]

coarse_sort_pipeline_scalar(s, rank) ==
  LET share == SortShare(s, rank)
      q == [i \in share |-> V2P(p[s][i].i, N_PIPELINE)]
  IN Scatter(aux, p[s],
       [i \in share |-> coarse_partition[cp_stride * rank + q[i]]
                        + Cardinality({h \in share : h < i /\ q[h] = q[i]})])

(* The voxels [v0,v1) of a subsort, whose particles are [i0,i1) of src.    *)
subsort_pipeline_scalar(src, dst, part, subsort, i0, i1, P) ==
  LET v0 == P2V(subsort, P)
      v1 == P2V(subsort + 1, P)
      mine == i0 .. i1 - 1
      new == [v \in DOMAIN part |->
                IF v \in v0 .. v1
                  THEN i0 + Cardinality({i \in mine : src[i].i \in v0 .. v - 1})
                  ELSE part[v]]
  IN [partition |-> new,
      p |-> Scatter(dst, src,
              [i \in mine |-> new[src[i].i]
                 + Cardinality({h \in mine : h < i /\ src[h].i = src[i].i})])]

(* The ghosts' part of the partition, which the host clears meanwhile.     *)
ClearGhosts(part, n) ==
  [v \in DOMAIN part |->
     IF v < vl THEN 0 ELSE IF v \in vh + 1 .. n_voxel - 1 THEN n ELSE part[v]]

(* The legacy sort: one pass of counting, then either a copy in order or   *)
(* cycles of swaps in place.                                               *)
CountingPartition(q) ==
  [v \in 0 .. n_voxel |-> Cardinality({i \in DOMAIN q : q[i].i < v})]

OutOfPlace(q, part) ==
  Scatter(q, q, [i \in DOMAIN q |-> part[q[i].i]
                  + Cardinality({h \in DOMAIN q : h < i /\ q[h].i = q[i].i})])

InPlace(q, part) ==
  LET Cycle(a, x) ==
        IF a.i >= n_voxel THEN a
        ELSE IF a.src = -1 /\ a.next[a.i] >= part[a.i + 1]
          THEN [a EXCEPT !.i = @ + 1]
        ELSE LET src == IF a.src = -1 THEN a.next[a.i] ELSE a.src
                 v == a.p[src].i
                 dest == a.next[v]
             IN [i |-> a.i, next |-> [a.next EXCEPT ![v] = @ + 1],
                 src |-> IF src = dest THEN -1 ELSE src,
                 p |-> [a.p EXCEPT ![dest] = a.p[src], ![src] = a.p[dest]]]
      turns == [x \in 1 .. n_voxel + Cardinality(DOMAIN q) |-> x]
  IN FoldLeft(Cycle, [i |-> 0, next |-> part, src |-> -1, p |-> q], turns).p

legacy_sort_p(s) ==
  LET part == CountingPartition(p[s])
  IN IF np(s) = 0 THEN [p |-> p[s], partition |-> partition[s]]
     ELSE [p |-> IF deck.out_of_place THEN OutOfPlace(p[s], part)
                                      ELSE InPlace(p[s], part),
           partition |-> part]

-----------------------------------------------------------------------------
(* Collisions *)

(* Fisher-Yates over the n particles from k0, every draw being d.          *)
Shuffle(q, k0, n, d) ==
  LET Swap(a, x) == LET i == k0 + x - 1
                        j == i + (d % (n - x + 1))
                    IN [a EXCEPT ![i] = a[j], ![j] = a[i]]
  IN FoldLeft(Swap, q, [x \in 1 .. n - 1 |-> x])

(* As below, were the remainder dealt to nobody.                           *)
Spread_NoRemainder(k0, nk, l0, nl) ==
  IF nk > nl THEN {<<k0 + x, l0 + x \div (nk \div nl)>> : x \in 0 .. nl * (nk \div nl) - 1}
             ELSE {<<k0 + x \div (nl \div nk), l0 + x>> : x \in 0 .. nk * (nl \div nk) - 1}

(* The pairs of nk particles from k0 and nl from l0: each of the more      *)
(* numerous meets one of the others, the first of which meet one more.     *)
Spread(k0, nk, l0, nl) ==
  LET Deal(many, few) ==
        LET ii == many \div few
            rn == many - ii * few
        IN {x \in (0 .. many - 1) \X (0 .. few - 1) :
              x[1] - (x[2] * ii + Min({x[2], rn})) \in
                0 .. ii - (IF x[2] < rn THEN 0 ELSE 1)}
  IN IF nk > nl THEN {<<k0 + x[1], l0 + x[2]>> : x \in Deal(nk, nl)}
                ELSE {<<k0 + x[2], l0 + x[1]>> : x \in Deal(nl, nk)}

(* Three particles meet pairwise, at half the strength.                    *)
Threes(k0) == {<<k0, k0 + 1>>, <<k0, k0 + 2>>, <<k0 + 1, k0 + 2>>}

Pairs(k0, nk, l0, nl, same) ==
  IF ~same THEN [half |-> {},
                 full |-> IF nk = 0 \/ nl = 0 THEN {} ELSE Spread(k0, nk, l0, nl)]
  ELSE LET odd == nk % 2 = 1 /\ nk >= 3
           k == IF odd THEN k0 + 3 ELSE k0
           h == (IF odd THEN nk - 3 ELSE nk) \div 2
       IN [half |-> IF odd THEN Threes(k0) ELSE {},
           full |-> IF h = 0 THEN {} ELSE Spread(k, h, k + h, h)]

(* What uirand/rk is for draws u, taken as it comes.                       *)
Picks_DrawnOnce(n, u) == {x \div (UINT_MAX \div n) : x \in u}

(* What it is when it is drawn again, from the deck's draws, for being n.  *)
Picks(n, u) ==
  LET k(x) == x \div (UINT_MAX \div n)
  IN {k(x) : x \in IF \E y \in u : k(y) = n THEN u \cup deck.draws ELSE u} \ {n}

(* The voxels of a rank: every n_pipeline-th, from the first to the last.  *)
Stripe(rank) == {v \in 0 .. vh : v % N_PIPELINE = rank}

Cell(s, v) == [k0 |-> partition[s][v], nk |-> partition[s][v + 1] - partition[s][v]]

takizuka_abe_pipeline_scalar(o, rank, d) ==
  LET ci(v) == Cell(o.i, v)
      cj(v) == Cell(o.j, v)
      busy == Below(vh + 1, {v \in Stripe(rank) : ci(v).nk # 0})
      Mix(q, v) == Shuffle(q, ci(v).k0, ci(v).nk, d)
      pairs(v) == Pairs(ci(v).k0, ci(v).nk, cj(v).k0, cj(v).nk, o.i = o.j)
  IN [p |-> FoldLeft(Mix, p[o.i], busy),
      half |-> UNION {pairs(v).half : v \in ToSet(busy)},
      full |-> UNION {pairs(v).full : v \in ToSet(busy)}]

(* With sample = 1: the candidates of one voxel are nc draws alike.        *)
binary_pipeline_scalar(o, rank, u) ==
  LET pairs(v) ==
        LET a == Cell(o.i, v)
            b == Cell(o.j, v)
        IN IF a.nk = 0 \/ b.nk = 0 THEN {}
           ELSE {<<a.k0 + k, b.k0 + l>> : k \in Picks(a.nk, u), l \in Picks(b.nk, u)}
  IN [p |-> p[o.i], half |-> {}, full |-> UNION {pairs(v) : v \in Stripe(rank)}]

(* Every particle of a rank put to the test.                               *)
unary_pipeline_scalar(s, rank) ==
  LET mine == Cut(np(s), rank, N_PIPELINE) .. Cut(np(s), rank + 1, N_PIPELINE) - 1
  IN [i \in DOMAIN p[s] |-> IF i \in mine THEN [p[s][i] EXCEPT !.c = @ + 2] ELSE p[s][i]]

-----------------------------------------------------------------------------
(* The kernels over the particle list *)

(* As below, in blocks of 8.                                               *)
Visited_Blocks8(n, rank, P, w) ==
  LET d == DISTRIBUTE(n, 8, rank, P) IN d.i .. d.i + w * (d.n \div w) - 1

(* The particles of a rank that goes over its share w at a time.           *)
Visited(n, rank, P, w) ==
  LET d == DISTRIBUTE(n, 16, rank, P) IN d.i .. d.i + w * (d.n \div w) - 1

(* The movers reserved for a rank.                                         *)
Reserved(n, max_nm, rank, P) ==
  LET d == DISTRIBUTE(Max({0, max_nm - (n % 16)}), 8, rank, P)
  IN [i |-> d.i, n |-> IF rank = P THEN max_nm - d.i ELSE d.n]

(* The voxel after x of a box that is its own neighbor along x.            *)
PastX(v) == IF v % (deck.n[1] + 2) = deck.n[1] THEN v - deck.n[1] + 1 ELSE v + 1

(* move_p: the voxel it leaves the particle with.                          *)
move_p(v, id, motion) ==
  IF id \in motion.leave THEN 8 * v + motion.face
  ELSE IF id \in motion.cross THEN PastX(v) ELSE v

(* As below, the voxel of a particle without a mover left as move_p set it. *)
Advance_NotPutBack(s, rank, w, motion) ==
  LET mine == Visited(np(s), rank, N_PIPELINE, w)
      room == Reserved(np(s), deck.species[s].max_nm, rank, N_PIPELINE)
      out == Below(np(s), {i \in mine : p[s][i].id \in motion.leave})
      kept == Min({Len(out), room.n})
  IN [p |-> [i \in DOMAIN p[s] |->
               IF i \notin mine THEN p[s][i]
               ELSE LET v == move_p(p[s][i].i, p[s][i].id, motion)
                    IN [p[s][i] EXCEPT !.t = @ + 2,
                          !.i = v]],
      pm |-> [k \in DOMAIN pm[s] |-> IF k - room.i \in 0 .. kept - 1
                                       THEN out[k - room.i + 1] ELSE pm[s][k]],
      seg |-> [pm |-> room.i, nm |-> kept, n_ignored |-> Len(out) - kept]]

(* One rank's part of advance_p: a particle that stops at a face gets a    *)
(* mover while there is one, and else its voxel back.                      *)
Advance(s, rank, w, motion) ==
  LET mine == Visited(np(s), rank, N_PIPELINE, w)
      room == Reserved(np(s), deck.species[s].max_nm, rank, N_PIPELINE)
      out == Below(np(s), {i \in mine : p[s][i].id \in motion.leave})
      kept == Min({Len(out), room.n})
      ignored == {out[k] : k \in kept + 1 .. Len(out)}
  IN [p |-> [i \in DOMAIN p[s] |->
               IF i \notin mine THEN p[s][i]
               ELSE LET v == move_p(p[s][i].i, p[s][i].id, motion)
                    IN [p[s][i] EXCEPT !.t = @ + 2,
                          !.i = IF i \in ignored THEN v \div 8 ELSE v]],
      pm |-> [k \in DOMAIN pm[s] |-> IF k - room.i \in 0 .. kept - 1
                                       THEN out[k - room.i + 1] ELSE pm[s][k]],
      seg |-> [pm |-> room.i, nm |-> kept, n_ignored |-> Len(out) - kept]]

advance_p_pipeline_scalar(s, rank, m) == Advance(s, rank, 1, m)
advance_p_pipeline_v4(s, rank, m) == Advance(s, rank, 4, m)
advance_p_pipeline_v8(s, rank, m) == Advance(s, rank, 8, m)
advance_p_pipeline_v16(s, rank, m) == Advance(s, rank, 16, m)

(* center_p and uncenter_p: half a step forward, and half a step back.     *)
Kick(q, mine, dt) ==
  [i \in DOMAIN q |-> IF i \in mine THEN [q[i] EXCEPT !.t = @ + dt] ELSE q[i]]

Mine(q, rank, w) == Visited(Cardinality(DOMAIN q), rank, N_PIPELINE, w)
center_p_pipeline_scalar(q, rank) == Kick(q, Mine(q, rank, 1), 1)
center_p_pipeline_v4(q, rank) == Kick(q, Mine(q, rank, 4), 1)
center_p_pipeline_v8(q, rank) == Kick(q, Mine(q, rank, 8), 1)
center_p_pipeline_v16(q, rank) == Kick(q, Mine(q, rank, 16), 1)
uncenter_p_pipeline_scalar(q, rank) == Kick(q, Mine(q, rank, 1), -1)
uncenter_p_pipeline_v4(q, rank) == Kick(q, Mine(q, rank, 4), -1)
uncenter_p_pipeline_v8(q, rank) == Kick(q, Mine(q, rank, 8), -1)
uncenter_p_pipeline_v16(q, rank) == Kick(q, Mine(q, rank, 16), -1)

(* energy_p and hydro_p: each particle adds to what its rank sums up; here *)
(* the sum is of the particles themselves, each counted as often as met.   *)
energy_p_pipeline_scalar(q, rank) == Cardinality(Mine(q, rank, 1))
energy_p_pipeline_v4(q, rank) == Cardinality(Mine(q, rank, 4))
energy_p_pipeline_v8(q, rank) == Cardinality(Mine(q, rank, 8))
energy_p_pipeline_v16(q, rank) == Cardinality(Mine(q, rank, 16))
accumulate_hydro_p_pipeline_scalar(q, rank) == Cardinality(Mine(q, rank, 1))
accumulate_hydro_p_pipeline_v4(q, rank) == Cardinality(Mine(q, rank, 4))
accumulate_hydro_p_pipeline_v8(q, rank) == Cardinality(Mine(q, rank, 8))
accumulate_hydro_p_pipeline_v16(q, rank) == Cardinality(Mine(q, rank, 16))

(* EXEC_PIPELINES: the widest version built in, and for the host, always   *)
(* the scalar one.                                                         *)
Lanes(rank) == IF rank = N_PIPELINE THEN 1 ELSE deck.lanes
advance_p_pipeline(s, rank, m) ==
  CASE Lanes(rank) = 1 -> advance_p_pipeline_scalar(s, rank, m)
    [] Lanes(rank) = 4 -> advance_p_pipeline_v4(s, rank, m)
    [] Lanes(rank) = 8 -> advance_p_pipeline_v8(s, rank, m)
    [] OTHER -> advance_p_pipeline_v16(s, rank, m)
center_p_pipeline(q, rank) ==
  CASE Lanes(rank) = 1 -> center_p_pipeline_scalar(q, rank)
    [] Lanes(rank) = 4 -> center_p_pipeline_v4(q, rank)
    [] Lanes(rank) = 8 -> center_p_pipeline_v8(q, rank)
    [] OTHER -> center_p_pipeline_v16(q, rank)
uncenter_p_pipeline(q, rank) ==
  CASE Lanes(rank) = 1 -> uncenter_p_pipeline_scalar(q, rank)
    [] Lanes(rank) = 4 -> uncenter_p_pipeline_v4(q, rank)
    [] Lanes(rank) = 8 -> uncenter_p_pipeline_v8(q, rank)
    [] OTHER -> uncenter_p_pipeline_v16(q, rank)
energy_p_pipeline(q, rank) ==
  CASE Lanes(rank) = 1 -> energy_p_pipeline_scalar(q, rank)
    [] Lanes(rank) = 4 -> energy_p_pipeline_v4(q, rank)
    [] Lanes(rank) = 8 -> energy_p_pipeline_v8(q, rank)
    [] OTHER -> energy_p_pipeline_v16(q, rank)
accumulate_hydro_p_pipeline(q, rank) ==
  CASE Lanes(rank) = 1 -> accumulate_hydro_p_pipeline_scalar(q, rank)
    [] Lanes(rank) = 4 -> accumulate_hydro_p_pipeline_v4(q, rank)
    [] Lanes(rank) = 8 -> accumulate_hydro_p_pipeline_v8(q, rank)
    [] OTHER -> accumulate_hydro_p_pipeline_v16(q, rank)

(* dump_particles: through a buffer, centered there, list left as it is.   *)
center_p(q) ==
  FoldLeft(LAMBDA a, x : center_p_pipeline(a, x - 1), q,
           [x \in 1 .. N_PIPELINE + 1 |-> x])
dump_particles(s) ==
  LET Buffer(b) ==
        LET n == Min({np(s) - b * deck.PBUF_SIZE, deck.PBUF_SIZE})
            q == center_p([i \in 0 .. n - 1 |-> p[s][b * deck.PBUF_SIZE + i]])
        IN [i \in 1 .. n |-> q[i - 1]]
  IN FlattenSeq([b \in 1 .. (np(s) + deck.PBUF_SIZE - 1) \div deck.PBUF_SIZE |->
                   Buffer(b - 1)])

-----------------------------------------------------------------------------
(* A step of the simulation (vpic/advance.cc) *)

Nobody == [id |-> 0, i |-> -1, t |-> 0, c |-> 0]
Nothing == [k |-> "none", s |-> 0]
Pipelines == 0 .. N_PIPELINE - 1

Init ==
  /\ deck \in Decks
  /\ pc = "uncenter_p" /\ step = 0 /\ op = 1 /\ astray = {} /\ lost = [s \in Species |-> {}]
  /\ \E at \in deck.at :
       p = [s \in Species |-> [i \in 0 .. Len(at[s]) - 1 |->
              [id |-> i + 1, i |-> at[s][i + 1], t |-> 0, c |-> 0]]]
  /\ pm = [s \in Species |-> [k \in 0 .. deck.species[s].max_nm - 1 |-> -1]]
  /\ nm = [s \in Species |-> 0]
  /\ partition = [s \in Species |-> [v \in 0 .. n_voxel |-> 0]]
  /\ last_sorted = [s \in Species |-> -1]
  /\ aux = <<>> /\ coarse_partition = <<>> /\ file = <<>>
  /\ call = [k |-> "uncenter_p", s |-> 1] /\ todo = 0 .. N_PIPELINE
  /\ seg = [r \in 0 .. N_PIPELINE |-> 0]

(* vpic/initialize.cc: the deck's momenta are put half a step back.        *)
uncenter_p(rank) ==
  /\ pc = "uncenter_p" /\ rank \in todo
  /\ p' = [p EXCEPT ![call.s] = uncenter_p_pipeline(@, rank)]
  /\ todo' = todo \ {rank}
  /\ UNCHANGED <<deck, pc, step, pm, nm, sortVars, call, seg, op, astray, lost, file>>

(* After a kernel over species s: the next species, or on to next.         *)
Next_species(k, next) ==
  IF call.s < Len(deck.species)
    THEN /\ pc' = k /\ call' = [call EXCEPT !.s = @ + 1] /\ todo' = 0 .. N_PIPELINE
    ELSE /\ pc' = next /\ call' = [k |-> next, s |-> 1]
         /\ todo' = IF next \in {"energy_p", "hydro_p"} THEN 0 .. N_PIPELINE ELSE {}

Uncentered ==
  /\ pc = "uncenter_p" /\ todo = {} /\ Next_species("uncenter_p", "energy_p")
  /\ UNCHANGED <<deck, step, p, pm, nm, sortVars, seg, op, astray, lost, file>>

(* The diagnostics: the energy, the moments, and a dump of the particles.  *)
energy_p(rank) ==
  /\ pc = "energy_p" /\ rank \in todo /\ todo' = todo \ {rank}
  /\ seg' = [seg EXCEPT ![rank] = energy_p_pipeline(p[call.s], rank)]
  /\ UNCHANGED <<deck, pc, step, p, pm, nm, sortVars, call, op, astray, lost, file>>

accumulate_hydro_p(rank) ==
  /\ pc = "hydro_p" /\ rank \in todo /\ todo' = todo \ {rank}
  /\ seg' = [seg EXCEPT ![rank] = accumulate_hydro_p_pipeline(p[call.s], rank)]
  /\ UNCHANGED <<deck, pc, step, p, pm, nm, sortVars, call, op, astray, lost, file>>

Summed ==
  /\ todo = {}
  /\ \/ pc = "energy_p" /\ Next_species("energy_p", "hydro_p")
     \/ pc = "hydro_p" /\ Next_species("hydro_p", "dump")
  /\ UNCHANGED <<deck, step, p, pm, nm, sortVars, seg, op, astray, lost, file>>

Dump ==
  /\ pc = "dump" /\ pc' = "begin" /\ file' = [s \in Species |-> dump_particles(s)]
  /\ UNCHANGED <<deck, step, p, pm, nm, sortVars, call, todo, seg, op, astray, lost>>

(* sort_p, called from here for the sake of what goes on at back.          *)
sort_p(s, back) ==
  /\ last_sorted' = [last_sorted EXCEPT ![s] = step]
  /\ aux' = [i \in DOMAIN p[s] |-> Nobody]
  /\ coarse_partition' = [k \in 0 .. cp_stride * N_PIPELINE |-> -1]
  /\ call' = [k |-> back, s |-> s]
  /\ IF deck.legacy
       THEN /\ p' = [p EXCEPT ![s] = legacy_sort_p(s).p]
            /\ partition' = [partition EXCEPT ![s] = legacy_sort_p(s).partition]
            /\ UNCHANGED <<pc, todo>>
     ELSE IF N_PIPELINE = 1
       THEN LET r == subsort_pipeline_scalar(p[s], aux', partition[s], 0, 0, np(s), 1)
            IN /\ p' = [p EXCEPT ![s] = r.p]
               /\ partition' = [partition EXCEPT ![s] = ClearGhosts(r.partition, np(s))]
               /\ UNCHANGED <<pc, todo>>
     ELSE /\ pc' = "coarse_count" /\ todo' = Pipelines /\ UNCHANGED <<p, partition>>

coarse_count(rank) ==
  /\ pc = "coarse_count" /\ rank \in todo
  /\ coarse_partition' = coarse_count_pipeline_scalar(call.s, rank)
  /\ todo' = todo \ {rank}
  /\ UNCHANGED <<deck, pc, step, p, pm, nm, partition, last_sorted, aux, call, seg,
                 op, astray, lost, file>>

Counted ==
  /\ pc = "coarse_count" /\ todo = {}
  /\ coarse_partition' = CoarsePartition /\ pc' = "coarse_sort" /\ todo' = Pipelines
  /\ UNCHANGED <<deck, step, p, pm, nm, partition, last_sorted, aux, call, seg,
                 op, astray, lost, file>>

coarse_sort(rank) ==
  /\ pc = "coarse_sort" /\ rank \in todo
  /\ aux' = coarse_sort_pipeline_scalar(call.s, rank)
  /\ todo' = todo \ {rank}
  /\ UNCHANGED <<deck, pc, step, p, pm, nm, partition, last_sorted, coarse_partition,
                 call, seg, op, astray, lost, file>>

CoarseSorted ==
  /\ pc = "coarse_sort" /\ todo = {}
  /\ coarse_partition' = [coarse_partition EXCEPT ![N_PIPELINE] = np(call.s)]
  /\ pc' = "subsort" /\ todo' = 0 .. N_PIPELINE
  /\ UNCHANGED <<deck, step, p, pm, nm, partition, last_sorted, aux, call, seg,
                 op, astray, lost, file>>

(* The host clears the ghosts' part while the others sort.                 *)
subsort(rank) ==
  /\ pc = "subsort" /\ rank \in todo /\ todo' = todo \ {rank}
  /\ LET s == call.s
         r == subsort_pipeline_scalar(aux, p[s], partition[s], rank,
                coarse_partition[rank], coarse_partition[rank + 1], N_PIPELINE)
     IN IF rank = N_PIPELINE
          THEN /\ partition' = [partition EXCEPT ![s] = ClearGhosts(@, np(s))]
               /\ UNCHANGED p
          ELSE /\ partition' = [partition EXCEPT ![s] = r.partition]
               /\ p' = [p EXCEPT ![s] = r.p]
  /\ UNCHANGED <<deck, pc, step, pm, nm, last_sorted, aux, coarse_partition, call,
                 seg, op, astray, lost, file>>

Subsorted ==
  /\ pc = "subsort" /\ todo = {} /\ pc' = call.k
  /\ UNCHANGED <<deck, step, p, pm, nm, sortVars, call, todo, seg, op, astray, lost, file>>

(* Sorts for performance, where the species wants one at this step.        *)
Begin ==
  /\ pc = "begin" /\ step < MaxStep
  /\ LET due == {s \in Species : /\ deck.species[s].sort_interval > 0
                                 /\ step % deck.species[s].sort_interval = 0
                                 /\ last_sorted[s] # step}
     IN IF due # {} THEN sort_p(Min(due), "begin") /\ UNCHANGED op
        ELSE /\ pc' = "collide" /\ op' = 1 /\ UNCHANGED <<p, sortVars, call, todo>>
  /\ UNCHANGED <<deck, step, pm, nm, seg, astray, lost, file>>

(* The next collision operator: its species sorted, if they are not.       *)
Collide ==
  /\ pc = "collide"
  /\ IF op > Len(deck.ops)
       THEN \E m \in deck.motions :
              /\ pc' = "advance_p" /\ todo' = 0 .. N_PIPELINE
              /\ call' = [k |-> "advance_p", s |-> 1, motion |-> m]
              /\ UNCHANGED <<p, sortVars, op>>
     ELSE LET o == deck.ops[op]
              stale == {s \in {o.i, o.j} : last_sorted[s] # step}
          IN IF step % o.interval # 0
               THEN op' = op + 1 /\ UNCHANGED <<pc, p, sortVars, call, todo>>
             ELSE IF o.kind # "unary" /\ stale # {}
               THEN /\ sort_p(IF o.i \in stale THEN o.i ELSE o.j, "collide")
                    /\ UNCHANGED op
             ELSE /\ pc' = "colliding" /\ todo' = Pipelines
                  /\ p' = [s \in Species |-> [i \in DOMAIN p[s] |->
                                               [p[s][i] EXCEPT !.c = 0]]]
                  /\ UNCHANGED <<sortVars, call, op>>
  /\ UNCHANGED <<deck, step, pm, nm, seg, astray, lost, file>>

(* One rank's share of the operator, on draws d.                           *)
colliding(rank) ==
  /\ pc = "colliding" /\ rank \in todo /\ todo' = todo \ {rank}
  /\ LET o == deck.ops[op]
     IN IF o.kind = "unary"
          THEN p' = [p EXCEPT ![o.i] = unary_pipeline_scalar(o.i, rank)] /\ UNCHANGED astray
          ELSE \E d \in deck.draws :
            LET r == IF o.kind = "takizuka_abe"
                       THEN takizuka_abe_pipeline_scalar(o, rank, d)
                       ELSE binary_pipeline_scalar(o, rank, {d})
                q == [p EXCEPT ![o.i] = r.p]
                times(s, i) ==
                  Sum({1, 2}, [w \in {1, 2} |->
                    LET of == IF w = 1 THEN r.half ELSE r.full
                    IN w * (Cardinality({x \in of : s = o.i /\ x[1] = i})
                            + Cardinality({x \in of : s = o.j /\ x[2] = i}))])
            IN /\ p' = [s \in Species |-> [i \in DOMAIN q[s] |->
                          [q[s][i] EXCEPT !.c = @ + times(s, i)]]]
               /\ astray' = astray \cup
                    {x \in r.half \cup r.full :
                       \/ x[1] \notin DOMAIN q[o.i] \/ x[2] \notin DOMAIN q[o.j]
                       \/ q[o.i][x[1]].i # q[o.j][x[2]].i}
  /\ UNCHANGED <<deck, pc, step, pm, nm, sortVars, call, seg, op, lost, file>>

Collided ==
  /\ pc = "colliding" /\ todo = {} /\ pc' = "collide" /\ op' = op + 1
  /\ UNCHANGED <<deck, step, p, pm, nm, sortVars, call, todo, seg, astray, lost, file>>

advance_p(rank) ==
  /\ pc = "advance_p" /\ rank \in todo /\ todo' = todo \ {rank}
  /\ LET r == advance_p_pipeline(call.s, rank, call.motion)
     IN /\ p' = [p EXCEPT ![call.s] = r.p]
        /\ pm' = [pm EXCEPT ![call.s] = r.pm]
        /\ seg' = [seg EXCEPT ![rank] = r.seg]
  /\ UNCHANGED <<deck, pc, step, nm, sortVars, call, op, astray, lost, file>>

(* The segments moved together, in the order of the ranks.                 *)
Compacted(list, segs) ==
  LET before(r) == Sum(0 .. r - 1, [x \in DOMAIN segs |-> segs[x].nm])
      from(k) == {r \in DOMAIN segs : k - before(r) \in 0 .. segs[r].nm - 1}
  IN [k \in DOMAIN list |->
        IF from(k) = {} THEN list[k]
        ELSE LET r == CHOOSE r \in from(k) : TRUE
             IN list[segs[r].pm + k - before(r)]]

Advanced ==
  /\ pc = "advance_p" /\ todo = {}
  /\ pm' = [pm EXCEPT ![call.s] = Compacted(@, seg)]
  /\ nm' = [nm EXCEPT ![call.s] = Sum(0 .. N_PIPELINE, [r \in DOMAIN seg |-> seg[r].nm])]
  /\ Next_species("advance_p", "inject")
  /\ seg' = [r \in 0 .. N_PIPELINE |-> 0]
  /\ UNCHANGED <<deck, step, p, sortVars, op, astray, lost, file>>

(* As below, the list allowed one particle more than it has room for.      *)
inject_particle_OneMore ==
  /\ pc = "inject" /\ pc' = "remove"
  /\ \E s \in Species, v \in deck.inject \cup {21} :
       /\ np(s) <= deck.species[s].max_np
       /\ p' = [p EXCEPT ![s] = Put(@, np(s), [id |-> deck.newId + step, i |-> v,
                                                t |-> 2 * step + 1, c |-> 0])]
  /\ UNCHANGED <<deck, step, pm, nm, sortVars, call, todo, seg, op, astray, lost, file>>

(* An aged particle, or none; it may stop at a face at once.               *)
inject_particle ==
  /\ pc = "inject"
  /\ \/ /\ pc' = "remove" /\ UNCHANGED <<p, pm, nm>>
     \/ \E s \in Species, v \in deck.inject, stops \in BOOLEAN :
          IF np(s) >= deck.species[s].max_np
            THEN pc' = "error" /\ UNCHANGED <<p, pm, nm>>
            ELSE /\ pc' = "remove"
                 /\ p' = [p EXCEPT ![s] = Put(@, np(s), [id |-> deck.newId + step,
                            i |-> IF stops THEN 8 * v ELSE v, t |-> 2 * step + 1, c |-> 0])]
                 /\ pm' = [pm EXCEPT ![s] = Put(@, nm[s], np(s))]
                 /\ nm' = [nm EXCEPT ![s] = @ + IF stops THEN 1 ELSE 0]
  /\ UNCHANGED <<deck, step, sortVars, call, todo, seg, op, astray, lost, file>>

(* The particles that still have movers, last first, each replaced by the  *)
(* last one of the list.                                                   *)
BackFill(q, i) ==
  LET n == Cardinality(DOMAIN q)
  IN [k \in 0 .. n - 2 |-> IF k = i THEN q[n - 1] ELSE q[k]]
Removed_Forward(q, list, n) ==
  FoldLeft(BackFill, q, [k \in 1 .. n |-> list[k - 1]])
Removed(q, list, n) ==
  FoldLeft(BackFill, q, [k \in 1 .. n |-> list[n - k]])

Drop ==
  /\ pc = "remove"
  /\ p' = [s \in Species |-> Removed(p[s], pm[s], nm[s])]
  /\ lost' = [s \in Species |-> lost[s] \cup
                {p[s][pm[s][k]].id : k \in 0 .. nm[s] - 1}]
  /\ nm' = [s \in Species |-> 0]
  /\ step' = step + 1 /\ pc' = "energy_p"
  /\ call' = [k |-> "energy_p", s |-> 1] /\ todo' = 0 .. N_PIPELINE
  /\ UNCHANGED <<deck, pm, sortVars, seg, op, astray, file>>

Done == (pc = "error" \/ (pc = "begin" /\ step = MaxStep)) /\ UNCHANGED vars

Next ==
  \/ \E rank \in 0 .. N_PIPELINE :
       uncenter_p(rank) \/ energy_p(rank) \/ accumulate_hydro_p(rank)
         \/ coarse_count(rank) \/ coarse_sort(rank) \/ subsort(rank)
         \/ colliding(rank) \/ advance_p(rank)
  \/ Uncentered \/ Summed \/ Dump \/ Begin \/ Counted \/ CoarseSorted
  \/ Subsorted \/ Collide \/ Collided \/ Advanced \/ inject_particle \/ Drop
  \/ Done

Spec == Init /\ [][Next]_vars

-----------------------------------------------------------------------------
(* Properties *)

Box == BoxOf(deck.n)
Faces == {8 * v + f : v \in Box, f \in Face}
Phases == {"uncenter_p", "energy_p", "hydro_p", "dump", "begin", "coarse_count",
           "coarse_sort", "subsort", "collide", "colliding", "advance_p", "inject",
           "remove", "error"}
Sorting == pc \in {"coarse_count", "coarse_sort", "subsort"}

(* A mover is written where the list has room for one (vpic/misc.cc: "No   *)
(* movers available to age injected  particle").                           *)
MoversFit == \A s \in Species : DOMAIN pm[s] = 0 .. deck.species[s].max_nm - 1

(* Types: outside a sort every particle is a whole one, in the box or, if  *)
(* it stopped, at a face of a voxel of the box; lists fit their memory.    *)
TypeOK ==
  /\ pc \in Phases /\ step \in 0 .. MaxStep /\ todo \subseteq 0 .. N_PIPELINE
  /\ MoversFit
  /\ \A s \in Species :
       /\ DOMAIN p[s] = 0 .. np(s) - 1 /\ np(s) <= deck.species[s].max_np
       /\ nm[s] \in 0 .. deck.species[s].max_nm
       /\ DOMAIN partition[s] = 0 .. n_voxel
       /\ ~(Sorting /\ call.s = s) =>
            \A i \in DOMAIN p[s] :
              p[s][i].i \in Box \/ p[s][i].i \in Faces

(* From a sort until the particles move, and collisions shuffle them, the  *)
(* partition brackets exactly the particles of every voxel, ghosts' empty  *)
(* ones too, however many ranks sorted and in whatever order they ran      *)
(* (species_advance_aos.h on partition: "immediately after a sort").       *)
Sorted ==
  pc \in {"begin", "collide", "colliding"} =>
    \A s \in Species : last_sorted[s] = step =>
      \A v \in 0 .. n_voxel - 2 :
        {i \in DOMAIN p[s] : p[s][i].i = v} = partition[s][v] .. partition[s][v + 1] - 1

(* No particle is lost or doubled by a sort, a shuffle, the compaction or  *)
(* the back filling of removed ones: those listed and those removed are    *)
(* exactly the ones loaded and injected, each once.                        *)
Accounted ==
  ~Sorting =>
    \A s \in Species :
      LET ids == {p[s][i].id : i \in DOMAIN p[s]}
          loaded == ids \cup lost[s]
      IN /\ Cardinality(ids) = np(s) /\ ids \cap lost[s] = {}
         /\ {id \in loaded : id < deck.newId} = 1 .. deck.loaded[s]

(* Pairs are two particles of one voxel (binary_pipeline.cc: "uniform prob *)
(* of getting k on 0:nk-1 and l on 0:nl-1").                               *)
PairsInCell == astray = {}

(* After takizuka_abe every particle with a partner in its voxel has been  *)
(* through one time step of collisions: among one species exactly, with    *)
(* triples at half strength; between two, the more numerous exactly once   *)
(* and the others evenly; after a unary operator every particle was tested *)
(* once, whichever rank had it.                                            *)
EveryoneCollides ==
  /\ PairsInCell
  /\ (pc = "colliding" /\ todo = {}) =>
       LET o == deck.ops[op]
           in(s, v) == {i \in DOMAIN p[s] : p[s][i].i = v}
       IN \A v \in Box :
            LET a == in(o.i, v)
                b == in(o.j, v)
                ratio == Cardinality(b) \div Cardinality(a)
            IN CASE o.kind = "unary" -> \A i \in a : p[o.i][i].c = 2
                 [] o.kind = "takizuka_abe" /\ o.i = o.j ->
                      \A i \in a : p[o.i][i].c = IF Cardinality(a) > 1 THEN 2 ELSE 0
                 [] o.kind = "takizuka_abe" /\ o.i # o.j ->
                      (a # {} /\ b # {}) =>
                        IF Cardinality(b) >= Cardinality(a)
                          THEN /\ \A i \in b : p[o.j][i].c = 2
                               /\ \A i \in a : p[o.i][i].c \in {2 * ratio, 2 * ratio + 2}
                          ELSE /\ \A i \in a : p[o.i][i].c = 2
                               /\ \A i \in b : p[o.j][i].c \div 2 - (Cardinality(a) \div
                                                  Cardinality(b)) \in {0, 1}
                 [] OTHER -> TRUE

(* Every pass of a kernel meets every particle once: whatever the version, *)
(* the momenta are all known at the time the step says, the sums count     *)
(* everyone, and a dump holds everyone centered in time.                   *)
OncePerKernel ==
  /\ pc \in {"begin", "collide", "colliding", "energy_p", "hydro_p", "dump"} =>
       \A s \in Species : \A i \in DOMAIN p[s] : p[s][i].t = 2 * step - 1
  /\ pc \in {"inject", "remove"} =>
       \A s \in Species : \A i \in DOMAIN p[s] : p[s][i].t = 2 * step + 1
  /\ (pc \in {"energy_p", "hydro_p"} /\ todo = {}) =>
       Sum(0 .. N_PIPELINE, seg) = np(call.s)
  /\ pc = "begin" => \A s \in Species :
       LET out == {file[s][k].id : k \in DOMAIN file[s]}
       IN /\ Len(file[s]) = np(s) /\ out = {p[s][i].id : i \in DOMAIN p[s]}
          /\ \A k \in DOMAIN file[s] : file[s][k].t = 2 * step

(* advance_p's segments, however full, and the injected particles leave    *)
(* the movers in the order of the particles they are of, which removal     *)
(* from the end relies on, one for each particle that stopped at a face;   *)
(* outside these phases nothing is at a face and no mover is left.         *)
MoversInOrder ==
  /\ pc \in {"inject", "remove"} =>
       \A s \in Species :
         /\ \A k \in 1 .. nm[s] - 1 : pm[s][k - 1] < pm[s][k]
         /\ \A k \in 0 .. nm[s] - 1 : pm[s][k] \in DOMAIN p[s]
         /\ \A i \in DOMAIN p[s] :
              IF \E k \in 0 .. nm[s] - 1 : pm[s][k] = i THEN p[s][i].i \in Faces
                                                      ELSE p[s][i].i \in Box
  /\ pc \in {"begin", "collide", "colliding", "energy_p", "hydro_p", "dump"} =>
       \A s \in Species : nm[s] = 0 /\ \A i \in DOMAIN p[s] : p[s][i].i \in Box
=============================================================================
