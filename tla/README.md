# VPIC in TLA+

VPIC is a relativistic particle-in-cell plasma simulation.  A job is a set of
MPI ranks, each of which owns a box of cells and the particles in it, and runs
`main` (`deck/main.cc`): boot the services, build the simulation from a deck or
restore it from a checkpoint, advance it step by step, halt.  Within a rank the
kernels are run by pipelines (threads) and, within a thread, by vector lanes.
Modelled here is what must be right whatever the numbers are: who executes which
share of a kernel and when it is finished, how the box is divided and which
ghosts a kernel may read when, that fields, charges and particles come out the
same however the box, the particles and the vectors are divided, how particles
travel between ranks without being lost, what a checkpoint holds and what a
restarted job finds.  Floats are replaced by exact numbers, in which the laws the
kernels keep up to roundoff hold exactly; how they round is out of reach.

Source paths below are relative to the repository's `src/`, except those that
begin with `deck/`, `sample/` or `test/`, which lie beside it.

## Inventory

| component | state | operations | interacts with |
|---|---|---|---|
| pthread dispatcher, `util/pipelines/pipelines_thread.cc` | number of pipelines, `Busy`, `Id` (round-robin cursor), `Done` flags; per thread a mutex, a condition variable, a state word, a job | `thread_boot`, `thread_dispatch` (`parallel_execute`), `thread_wait`, `thread_halt`, the loop `pipeline_mgr` of each thread | called by every kernel through `EXEC_PIPELINES` and `WAIT_PIPELINES` |
| serial dispatcher, `pipelines_serial.cc` | `Busy` | the same four calls | the same |
| domain decomposition, `grid/partition.cc`, `grid/ops.cc` | `bc`, `range`, `neighbor` of each rank | `partition_periodic_box`, `partition_absorbing_box`, `partition_metal_box`, `size_grid`, `join_grid`, `set_fbc`, `set_pbc` | read by every exchange and by `move_p` |
| particle exchange, `boundary/boundary_p.cc` | particle and mover lists, injection buffers, message ports, `rhob`, tallies | `boundary_p`, `num_comm_round` times a step; removal of what is left in `vpic/advance.cc` | `move_p`, particle boundary conditions, the `mp` ports, the grid |
| message ports, `util/mp/DMPPolicy.h` | buffers, outstanding requests and sizes by port | `mp_begin_send/recv`, `mp_end_send/recv`, collectives | MPI |
| checkpoint service, `util/checkpt/checkpt.cc` | registry of objects, next identifier, the open stream | `register_object`, `unregister_object`, `checkpt_objects`, `restore_objects`, `reanimate_objects`, `checkpt_ptr`, `checkpt_fptr` and their inverses | every object of the simulation |
| driver, `deck/main.cc`, `vpic/advance.cc`, `initialize.cc`, `misc.cc` | main's pointer to the simulation, `step`, `num_step`, what the deck keeps in its globals; files on disk | boot, initialize or restore, `modify`, `advance`, `user_diagnostics` and the checkpoints in it, finalize, halt | all of the above |
| particle sort and work distribution, `species_advance/standard/sort_p.cc`, `pipeline/sort_p_pipeline.cc`, `DISTRIBUTE`, `DISTRIBUTE_VOXELS` | partition of the particle list by voxel, two scratch arrays | `sort_p`: coarse count, coarse sort and subsort by pipeline; the legacy sort | pipelines; collision operators need its partition |
| particle advance, `species_advance/standard/` | particle and mover lists, a mover segment per pipeline | `advance_p`, `move_p`, `center_p`, `uncenter_p`, `energy_p`, `hydro_p`, `accumulate_rho_p`, `accumulate_rhob` | pipelines; hands movers to the exchange, currents to the accumulators |
| emitters, custom boundaries, `emitter/`, `boundary/` | components, tallies | `apply_emitter_list`, `interact_*` | append particles and movers |
| collision operators, `collision/` | their parameters | `apply_collision_op_list`: unary, binary, `takizuka_abe`, Langevin | sort, pipelines, checkpoint registry |
| field kernels, `field_advance/standard/` | 16 field components and 8 material numbers of each voxel, coefficients of the materials | `advance_b`, `advance_e`, `compute_curl_b`, `compute_rhob`, `compute_div_*`, `clean_div_*`, energies and errors, each also for one material | pipelines, local walls, ghost exchanges |
| shared-face synchronization, `field_advance/standard/remote.cc`, `local.cc`, `grid/grid_comm.cc` | message ports | begin and end of the ghost exchanges, `synchronize_*`, `local_*` | ports |
| accumulators, interpolators, hydro, `sf_interface/` | an array for each pipeline and the host | clear, reduce, unload, load, synchronize | particles on one side, fields on the other |
| SIMD wrappers, `util/v4`, `v8`, `v16` | none | loads, stores and transpositions, arithmetic, masks: a class for each instruction set | every vector kernel |
| relay message passing, `util/mp/RelayPolicy.h`, `util/io/P2P*` | request slots, write buffers | the `mp` and `io` calls relayed to a host process | a peer program that is not in the repository |
| random numbers, dumps, profiling, materials and species lists | | | |

What makes each of them correct, in the words of the properties that say it:

* dispatchers: each job of a dispatch is executed exactly once, wait returns when
  all have been, no job outlives its arguments, every call returns;
* decomposition: the divided box is the undivided one, and the ranks agree;
* exchange: no particle is lost or doubled, each arrives where its displacement
  leads, messages are never confused, storage is never outgrown, a step ends;
* checkpoints: identifiers are stable and never given twice, a restored object
  graph is the one that was saved, no address of a dead process survives;
* driver: ranks do not drift apart, there is always something to restart from,
  every job ends;
* work distribution: every item has one owner, shares are aligned and balanced;
* particle lists: a sort, a collision, a pass of a kernel and a removal each meet
  every particle of their species once, in whatever order the pipelines run;
* fields: the divided box holds what the undivided one holds, the charge that
  leaves a cell is that which flows out of it, no magnetic charge appears, the
  copies of a shared face are equal;
* vectors: the classes of one width do the same.

The behaviours that are hard here:

* **Threads.**  The host hands out jobs by trylock and state word, sleeping
  threads miss signals they do not wait for, the flags of one dispatch are
  reused by the next, the arguments live on the caller's stack.
* **Ranks.**  A rank is synchronized with its neighbours only; one may be a
  round, or several steps, ahead of another.  A port carries counts and data
  under one tag.  Each rank fills its tables from its own index.
* **Lists edited while they are walked.**  `boundary_p` removes particles by
  copying the last one into the hole, which is right only for movers in
  increasing order processed backwards; it writes into storage resized once for
  the worst case.
* **Everything twice.**  A kernel exists for one material and for many, for
  scalars and for three widths of vectors, on pipelines that take whole blocks
  and on the host that takes the rest; it starts on the interior while ghosts
  are still on their way and ends on the faces when they have arrived.
* **Conservation across seams.**  A node, edge or face at the seam of two, four or
  eight ranks is kept by all of them; currents and charges are added up over
  them, fields averaged, axis after axis.
* **Life after death.**  A checkpoint is written rank by rank over the file of
  an earlier one; a job may die between any two writes, be restarted from what
  is left with other parameters, and die again.  Pointers are restored in two
  stages into another address space.

`PROJECT.json` lists each hazard at its line with the properties that cover it.

## Modules

| module | models | checked by | state and actions |
|---|---|---|---|
| `ForkJoin` | what `pipelines_pthreads.h` promises of any dispatcher | refined by the next two | pipelines, an open dispatch, jobs running and finished; one action per promise |
| `Pipelines` | `pipelines_thread.cc`, all of it | `MCPipelines`, proofs | one action per step between two accesses to shared words; `hpc` and `tpc` are where host and threads are, the other variables have their names in the code |
| `SerialPipelines` | `pipelines_serial.cc`, all of it | itself | one action per call, two per job |
| `PipelinesProofs` | theorems about `Pipelines` | TLAPS | |
| `Grid` | `size_grid`, `join_grid`, `set_fbc`, `set_pbc`, the partition functions | `MCGrid` | functions: a rank's tables are built by the calls, in their order, that the partition function makes |
| `GridProofs`, `MCGridProofs` | theorems about the functions of `Grid` and `Workload`; about the tables as `MCGrid` builds them | TLAPS | |
| `BoundaryP` (extends `Grid`) | `boundary_p`, its rounds in `advance`, `move_p`, the ports, reflux and tally | `MCBoundaryP` | every wait of `boundary_p` is an action, with the local work up to the next wait |
| `Loops` | the rule of loop invariants for `FoldLeft` and `FoldRight` | TLAPS | |
| `BoundaryProofs` | theorems about `BoundaryP`: about the lists of a rank, then about the exchange as a whole | TLAPS | |
| `ObjectStore` | what `checkpt.h` promises | refined by the next | objects and pointers by identifier, no addresses |
| `Checkpt` | `checkpt.cc` | `MCCheckpt` | one action per call, and one per object in the loops of checkpoint, restore and reanimate; `Die` at any of them |
| `Simulation` | `main`, `advance`, `initialize`, `modify`, the checkpoints of decks, jobs | `MCSimulation` | a rank's position in `main`; an action per barrier or collective, per wait for a neighbour, per open and close of a file |
| `CheckptProofs` | theorems about `Checkpt` | TLAPS | |
| `SimulationProofs` | theorems about `Simulation` | TLAPS | |
| `Workload` | `DISTRIBUTE`, `DISTRIBUTE_VOXELS` and the walk over a share | used by the next ones; proofs | operators |
| `Particles` (uses `Workload`) | the particle lists of one rank in a step: both sorts, collisions, `advance_p`, injection, removal, centering, sums, dumps | `MCParticles` | an action per call, and one per pipeline of a call, in any order |
| `ParticlesProofs` | theorems about `Particles`: what each operation does to a list; then the inductive invariant and what follows | TLAPS | |
| `Exact` | numbers modulo a prime, and fractions for positions | | operators |
| `FieldArray` (extends `Grid`, `Workload`) | the field kernels and their split over pipelines, host and vectors | `MCFields` | operators: a kernel is a function of the field array |
| `FieldBoundary` | `local.cc`, and what `remote.cc` sends and does with what it receives | `MCFields` | operators |
| `Charge` | currents of `advance_p` and `move_p`, `accumulate_rho_p`, `accumulate_rhob`, `inject_particle` | `MCFields` | operators |
| `SfInterface` | accumulators, interpolators, hydro arrays | `MCFields` | operators |
| `Fields` (extends all of these) | `initialize` and `advance`, call by call, on every rank | `MCFields` | per rank a place in the program, which is a sequence of operations; an action for each wait: host work, the start and the end of pipelines, the begin and the end of an exchange, a collective |
| `LaneWords`, `Intrinsics` | words of a lane; the SSE, AVX and AVX-512 instructions (external) | | operators |
| `V4Portable`, `V4Sse`, `V4Avx`, `V4Avx2`, `V4Neon`, `V8Portable`, `V8Avx`, `V8Avx2`, `V16Portable`, `V16Avx512` | the register classes | `MCLanes` | operators named as the methods are |
| `Steps`, `Lanes` | a kernel that runs the same operations on several classes | `MCLanes` | `Steps` is instantiated once for each class; an action for each kind of operation |

The MC modules instantiate these for TLC.  A definition whose name ends in an
underscore and a suffix (`NextId_OffByOne`) is a plausible bug of the
definition after it; `PROJECT.json` pairs it with the property that detects it.

What the models abstract from:

* *Memory.*  The words the pipelines share are sequentially consistent, though
  the code only declares them `volatile`.  A critical section of the host (set
  state, job, flag and signal) is one step, since nothing in it is read outside
  the mutex but by the host itself; a thread's is not.
* *Messages.*  A buffer is not touched between the begin and the end of its
  nonblocking call, as in the code, so what is sent is fixed at the begin.
  Sends are synchronous (`MPI_Issend`), and messages of one port do not overtake
  each other, which is what MPI guarantees.  In `Fields` a send is over when it
  is begun, which only lets a rank run further ahead.
* *Particles.*  A particle is its name, its cell and the faces it has still to
  cross.  By the Courant condition, on which the code relies, it crosses each
  axis once at most in a step; the tracks of the instances are chosen so.  A
  reflux draws any track out of a given set.  `8*voxel+face`, which `move_p`
  writes over the voxel, is kept as the number it is.
* *Objects.*  An object is two pointers, of the kinds that `CHECKPT_PTR` and
  `CHECKPT_FPTR` write; its other data are bytes copied to and from the file.
  No object of the code points to one registered in `boot_services`.  Completed
  checkpoints are restored, and only they: `checkpt_read` ignores what a read
  past the end of a file returns.
* *Particle lists.*  In `Particles` a particle is which one it is, its voxel, the
  time of its momentum in half steps and how much collision it has been through;
  where the push takes it is a choice among the motions of a deck.  The draws of
  one call are alike (a bound), but for those that are drawn again, `sample` is 1.  Movers left over are those of
  the particles that stopped at a face; what becomes of them is in `BoundaryP`.
  Decks never inject an aged particle when the mover list is full, except in run
  `mover_overflow`, and those of the legacy sort have a particle of each species:
  the sort of an empty list notes the step but leaves the old partition.
* *Numbers.*  Field values are numbers modulo 9973 and the words of a lane numbers
  modulo 509 with a sign bit: two different polynomials in the inputs are told
  apart but for a chance of that order, and what holds up to roundoff must hold
  exactly.  Positions and displacements are fractions.  The momentum update is
  left out of the push, so that a particle keeps its displacement but for
  reflections, and `fields` shows the mesh's side of what `advance_p` does.
  Hydro has 4 of its 14 moments; the others differ only in the factor of the
  particle.  One round of cleaning stands for `num_div_e_round` and
  `num_div_b_round` rounds.
* *Field arrays.*  The pipelines of one field kernel are one step, since they write
  shares that are disjoint (`OneOwner`, `VoxelWalk`, `VoxelsAreDistinct`) and read
  nothing of one another's; the host's work between start and wait is a step of
  its own, and so is the rest of every other rank.  Ghosts' materials beyond a
  wall mirror those inside.  Scalar decks take blocks of one voxel instead of 16,
  so that a small box has some; the decks with vectors have the 16 of the code.
* *Lanes.*  A word has 10 bits.  The approximate reciprocals of the hardware are
  exact, so that the Newton step after them is checked to keep what is exact.
  There is one zero among the results of float arithmetic: the classes differ in
  the sign of zero where one multiplies and another adds.  The operands of an
  operation are different objects (the portable `swap` of a register with itself
  clears it), and the rows of a transposed store do not overlap.
* *Steps.*  In `Simulation` one exchange with the neighbours stands for all the
  exchanges of a step.  All of them wait for the same neighbours, so only how
  far ahead a rank may be is told apart, and one exchange bounds it as tightly.
* *Operators.*  Whoever restarts a job names a checkpoint of which every rank's
  file is complete, and when names are used in turn, files of one step of one job.

## Runs

| run | instance | what it shows |
|---|---|---|
| `pipelines` | up to 3 pipelines, `--tpp` in and out of range, `--dispatch_to_host` 0 or 1, 2 dispatches, any order of calls, spurious wake-ups | `NeverAmiss`, `WaitMeansDone`, `ArgsAlive`, `NoJobLost`, `ThreadsAccountedFor`; `ImplementsForkJoin`; `EveryCallReturns` under fairness |
| `dispatch_to_host_2` | `--dispatch_to_host 2` | a violation, below |
| `serial` | 0 to 10 pipelines, limit 9 | the serial dispatcher keeps the same contract |
| `grid` | every deck of 1 or 2 cells a rank and 1 to 3 ranks an axis, at most 6, for the three kinds of box | the tables the ranks fill separately are those of the undivided box (`TablesMatchTheBox`) and agree with each other (`RemoteCellsAreShared`, `PortsArePaired`) |
| `boundary` | three decks: 2 ranks that are neighbours across both x faces, 2 species; 2 ranks between walls that absorb, reflux, tally and that nobody knows, with lists that must grow and shrink; 2 by 2 ranks of one cell; 1 or 2 rounds | `Conserved`, messages matched (`SizesMatch`), `MoversMonotone`, `StorageFits`, `Delivered` (across an edge: through a third rank, in two rounds); the exchange ends (`StepCompletes`, under fairness) |
| `particles` | 1 to 3 pipelines, 2 steps, the sorts over up to 3 species, the collision operators on few and many particles of a voxel, kernels of 1, 4, 8 and 16 lanes with up to 80 particles | `Sorted`, `Accounted`, `EveryoneCollides`, `OncePerKernel`, `MoversInOrder` |
| `mover_overflow` | a list of two movers, two particles that stop at a face, one injected | a violation, below |
| `fields` | 13 decks, each undivided and divided over 1 to 8 ranks: the list below | `DividedIsUndivided`, `GaussLaw`, `NoMonopoles`, `NoDesync` |
| `lanes` | 4, 8 and 16 lanes, four sets of data, two operations in a row for 4 lanes and one for the others; the classes of an x86 machine side by side (4: portable, SSE, AVX, AVX2; 8: portable, AVX, AVX2; 16: portable, AVX-512), and those of an ARM one (portable, NEON), with the loads of 8 and 16 columns that only NEON has | `ImplementationsAgree`, `StoresUndoLoads` |
| `checkpt` | 2 addresses, 4 identifiers, one name, death at any step | `NeverRefuses`, `NoStalePointer`, `ImplementsObjectStore` |
| `simulation` | 3 ranks in a row, a checkpoint every 2 steps out of 6, `--modify` to 3 or 5, 3 jobs, death at any step, two kinds of deck | `RanksInStep`, `RecoverableByToggle`; `JobEnds` under fairness |
| `simulation_step_zero` | 2 ranks, 2 jobs | a violation, below |

Why the bounds are enough.  Three pipelines, one of them the host's in half of
the behaviours, give two or three threads, of which the round-robin cursor
passes one that is busy and one that holds its mutex; the second dispatch meets
the flags and threads of the first, and a second boot those of the first life.
The proofs below have no bounds and confirm it.  In the exchange two ranks are
enough for a rank to be a round ahead of its neighbour, and two faces between
them for their messages to be confused if they could be; four ranks are the
fewest around an edge.  A particle that leaves must be the last of its list, be
alone in it, and stand before one that leaves and one that stays, which loads of
two and three particles give.  In `checkpt` two addresses are enough for an
object to come back where another one was, and four identifiers (one of them a
static object's) for one to be deleted before a checkpoint and another made
after a restore.  In `simulation` three ranks are the fewest of which two are
not synchronized directly, and two steps between checkpoints the fewest for which
two names are enough; at step 6 the third checkpoint overwrites the first while
a rank two faces away may still be writing the second, at step 4; three jobs
allow a restart from what a restart left.
In `particles` three pipelines are the fewest of which one is neither first nor
last, the counts of particles lie on both sides of a block of 16, and one to four
particles of a voxel give the pairs and the triples of `takizuka_abe`.  `UINT_MAX`
is that of 16 bits; of the draws one is 0 or picks the last particle of any voxel
with several, and one is `UINT_MAX`, whose quotient is the number of particles,
so that it is always drawn again.  Lanes are the real ones, and so are all the
rows and columns of a transposition.

The decks of `fields` (`MCFields`): two ranks along x, general kernels on one side
and vacuum kernels on the other; two materials and a damped field, split along y;
conducting walls and injected particles, split along z; an open box that absorbs;
symmetric and magnetic walls; conductors with a field to be cleaned; two
dimensions; particles left on the movers by too few rounds; eight ranks around a
corner; three in a row with cleaning now and then; and boxes wide enough for 4, 8
and 16 lanes, one with 11 pipelines, so that the reduction of the arrays takes two
passes.  The first of these explore every interleaving of the ranks; the others,
marked `free |-> FALSE`, one schedule: a rank is a sequential program that
receives from named neighbours over channels in order, so what it computes does
not depend on the schedule, and the free decks confirm it.

`MaxDispatch`, `MaxId` and `MaxLives` bound counters that the code does not
bound; `NumCommRound`, `Interval` and `NumStep` are parameters of a deck.
Deadlock is checked except in `Simulation`, where nothing follows the last job,
and in `Lanes`, which stops after `Depth` operations.

### Fairness

`Pipelines`: weak fairness of the host, while it is in a call, and of every
thread: the operating system runs them all.  A thread that wants its mutex finds
it free, as the host's critical sections are single steps.  Spurious wake-ups
end at last.  Nothing forces the application to make a call.  `Simulation`:
weak fairness of each rank, a process of its own.  `BoundaryP`: only that some rank
steps while one can, which is less, and enough since its behaviours are finite.
Nothing is fair about crashes, restarts, spurious wake-ups or reflux draws.

### Violations: where the code and what it says of itself differ

* `dispatch_to_host_2`.  `pipelines_thread.cc` describes `--dispatch_to_host` as
  a boolean, reads an integer, subtracts it from the number of threads and of
  jobs, and tests it for zero.  With 2, a dispatch returns and leaves a workload
  that was neither handed out nor run by the host, nor will be.  There is no wait
  in the trace: `thread_wait` would go on looking at that workload's flag, which
  no thread raises.
* `simulation_step_zero`.  `main` registers its own pointer after `initialize`,
  which has already called `user_diagnostics`; a deck that writes a checkpoint
  there (`test/integrated/to_completion/dump.deck`) writes one from which `main`
  finds no simulation.
* `mover_overflow`.  `inject_particle` warns that the mover list is full and goes
  on: it writes the mover after the last one and hands it to `move_p`.

Seen while modelling, and not the subject of a run:

* `checkpt.h` (lines 193-195) says `restore_ptr` of a pointer to an object that is
  not restored yet gives an error.  The node of the object being restored is
  already in the registry, with the address it had in the process that wrote the
  checkpoint (`checkpt.cc`, lines 311-320), and that address is returned.  No
  object of the code points to itself this way; `Forward = TRUE` in `Checkpt`
  makes the application do so.
* The sample decks `interface_deck_2D_decomp` alternate between two names "for
  safety" but change the toggle after they have written it to the checkpoint.  A
  job restarted from `restart0` writes its first checkpoint to `restart0`.
  Within one job, or with the toggle changed first, there is always a complete
  checkpoint (`RecoverableByToggle`).
* `hard_sphere.cc` and `large_angle_coulomb.cc` register parameters that nobody
  unregisters, so that a run that uses them ends in the ERROR of `halt_checkpt`.
* With step numbers for names, a crash, a restart with `--modify num_step` and
  another crash can leave the files of one tag from two jobs that disagree on
  `num_step`, and a job restored from them waits for ever.  A deck with two names
  needs `Interval` to be at least the number of faces between the farthest ranks:
  three ranks in a row that write every step can overwrite both names before the
  farthest rank has closed either.
* `binary_pipeline.cc` (line 120) draws again when the quotient is `nk`; with
  65536 particles and more in a voxel it may be larger.
* `v16_avx512.h` (line 68) permits half aligned rows in `load_16x2_tr`, whose loads
  are all aligned to 64 bytes; `v8` declares 16 for `load_8x8_tr` and loads aligned
  to 32.  The rows of the runs are aligned.
* `clear_bits( m, a )` of `v4_neon.h` (line 1534) computes `m & ~a` and every other
  class `~m & a`.  Nothing in the repository calls it, and `Lanes` compares
  the NEON class in all operations but this one.
* `store_4x8_tr` of `v4_neon.h` (lines 642-650) takes the even and the odd lanes of
  two columns where it should interleave them (`vuzp` for `vzip`): TLC finds that
  it does not put back what `load_4x8_tr` took, and that it would if it
  interleaved them.  Nothing in the repository calls it; it is in `V4Neon`, and
  `StoresUndoLoads` leaves it out.
* `load_4x8_tr` and `store_4x8_tr` of `v4_neon.h` are given four rows and use the
  first and the third: they take the other two to follow at once.  The rows of
  `Lanes` are 8 words apart with 4 lanes.
* A symmetric wall sets the normal `cb` on it to zero (`local_adjust_norm_b`) while
  the tangential `e` there goes on changing it: div `cb` of the cells behind is
  not kept, and `NoMonopoles` excludes the decks that have such a wall.

## Proofs

`PipelinesProofs` proves, for every number of pipelines, threads, boots and
dispatches, `Inductive`: `Spec => []IInv`, and from it `TypeCorrect`,
`AlwaysNeverAmiss`, `AlwaysWaitMeansDone`, `AlwaysArgsAlive`, `AlwaysNoJobLost`
and `AlwaysThreadsAccountedFor`, which are the safety invariants of run
`pipelines`.  `Refinement` is that the dispatcher implements `ForkJoin`.

The assumptions of these are `PipelinesAssumption` (the parameters are numbers, at least
one pipeline may exist) and `BooleanDispatchToHost`: that the option is what its
documentation says; `dispatch_to_host_2` shows that it is needed.

None of the invariants is inductive by itself.  That a dispatch never meets a
terminated thread depends on which threads exist, hence on how far boot or halt
has come (`PopulationInv`), on the cursor, and on where each thread is when its
state says what (`ThreadInv`).  That wait means done depends on each flag
belonging to the job of this dispatch, hence on no thread still holding a job of
an earlier one (`PendingInv`: a pending job is one that the host counts as handed
out, its arguments are those of this dispatch, its flag is down and it has run
once if and only if its thread is about to raise the flag), on two threads not
holding the same job (`DistinctInv`), and on what the flags say of the jobs that
are with nobody (`DoneInv`).  `HostInv` ties the host's position to its loop
variable and to `Busy`.  `IInv` is their conjunction with `TypeOK` and
`NoJobLost`.

The proof has a lemma for every action that changes what some part speaks of,
and frame lemmas (`QuietHost`, `QuietThread`, `ThreadStepFrame`) for what a step
leaves alone.  The refinement has a lemma per group of actions: the calls and
returns are the steps of the contract, `Switch` and `HostJob` begin a job,
`SetFlag` and `HostRun` end one, and everything else stutters.

`MCGridProofs` proves, by the lemmas of `GridProofs`, the three invariants of run `grid`
for boxes of any size over any number of ranks along each axis, periodic, absorbing or metal: `TheTablesMatch`,
`RemoteCellsShared` and `PortsPaired`.  It assumes `MCGridAssumption`: ranks have whole
cells, at least one, along each axis.  `Encode` and `Decode` say that the numbers of
ranks and of voxels are coordinates, one to one; `BesideIs` that the rank beside a
rank has it on its opposite face.  `JoinStep` and `WallStepIs` say what each call of
`join_grid`, `set_fbc` and `set_pbc` changes, and `Extent` that the extent
`join_grid` works out from the numbers of voxels is the neighbour's; six of each give
`TablesAre`, which is what a rank's tables hold in the end.  On the other side
`AxisStep` follows a step along an axis of the undivided box, from inside a rank or
off its edge, and `Lands` and `Walls` put three axes together.

`GridProofs` also proves, for every number of items, block size and number of
pipelines, that the shares of `DISTRIBUTE` divide the items: `OneOwner` (each has
one owner), `Aligned` (whole blocks, what is left over to the host) and `Balanced`
(no two pipelines differ by more than a block).  `VoxelWalk` says that the walk of
`DISTRIBUTE_VOXELS` meets the voxels in the order of their numbers, and
`VoxelsAreDistinct` that different numbers are different voxels of the box.  The
cuts are rounded quotients: `CutBounds` turns each into two inequalities between
products, from which their order (`CutOrder`), their ends (`CutEnds`) and, with the
owner of a block given as a quotient itself, their covering (`CutCover`) follow by
arithmetic alone.  The code's doubles are taken to be exact here: a rounded
product could only move a cut to the next block, at a tie, the same way for both
pipelines that share it.  These theorems are why `Fields` may run the pipelines of
a field kernel as one step.

`SimulationProofs` proves `AlwaysInStep`: `RanksInStep` for every number of ranks,
of steps and of jobs, whichever of them crash.  `RanksInStep` is about steps, which
do not show what a rank has received; the invariant of `StepsCounted` is about what
has been sent.  `Sends`: a rank that does not wait has received as much as it has
sent, so that the next rank on the way to any other (`Nearer`) is as far, and no
two are apart by more than the faces between them.  `Bases`: all count from one
step; so they do because the files a job is started from agree (`Files`: one named
after a step holds that step; `Usable` for names used again) and because none is
written before the last rank has read its own, which is what the barriers behind
`restore_objects` are for (`Barriers`).  It needs `SimulationAssumption` only: the
parameters are numbers, and one of the values of `num_step` is the greatest.

`TypeIsOK` adds the bounds (`Bounds`): that a rank steps only below `num_step`, that
`num_step` comes from the deck, `--modify` or a complete file, which was written with
one, and how many barriers lie before each place of `main`.

`AlwaysRecoverable` is `RecoverableByToggle` for any number of steps, jobs and crashes,
with the hypothesis `NRank <= Interval + 1`.  It is needed: with 4 ranks in a row and a
checkpoint every 2 steps TLC finds the first rank two checkpoints ahead of the last,
and the only good one being overwritten; decks write every few hundred steps or more.
The invariant (`Dumps`) follows `Held`, the name a rank wrote last or was started
from, and `Last`, the step of that file (or, in a fresh job, that of the checkpoint
before its first).  Any two ranks hold the same name of the same step, or
opposite names an interval apart, and then the one ahead still has the
file the other wrote last (`Pair`); so they do because a rank opens a checkpoint just
an interval after its last (`Clock`) and then no rank is more than one behind
(`NotFarBehind`, from `Sends` and `Bases`).  Files are marked with their job: a rank
with none of this job has only older ones (`Mine`), so that files of a dead job are
never taken for a mate of this one's, and a fresh job, which is started when nothing is good,
leaves nothing good before every rank has opened its first (`Fresh`).

`BoundaryProofs` proves all the safety invariants of run `boundary`,
for any division of any box, any species, lists, displacements
and boundary conditions, from `BoundaryPAssumption`: the deck divides its box evenly, a particle
is on one list and the lists fit in what is allocated for them at first.  `Delivered` needs
`RoundsEnough` as well: no displacement crosses more faces than there are rounds.  The
Courant condition allows a displacement one face along each axis, and `num_comm_round`
is 3 unless the deck sets it; with fewer rounds, `advance` itself drops what is left, with a
warning to increase the number.  `MCBoundaryP` assumes it of its boxes, so that TLC evaluates it.

* `MoversInOrder` (`MoversMonotone`).  The loops of `boundary_p` over movers and
  injectors are folds.  `Loops` proves the rule of loop invariants for them, once, as
  a statement about sets: if the value before turn k is in the k-th set and a turn
  leads from each set to the next, the result is in the last.  With it `LoadAll`,
  `InjectAll`, `DropAll` have a lemma each, in which the movers yet to be treated index
  particles in increasing order: backfilling from the last mover on moves only
  particles that no mover left indexes.  `Lists` is the invariant: what the parameters
  amount to (`Fixed`), where a rank is in its loops (`Controls`), the types of what it holds
  (`Ranges`), and the order of movers outside `boundary_p` and at its waits
  (`InOrder`).  That a particle which leaves a rank finds a cell of the other is
  what the lemmas of `GridProofs` are for.
* `ReceivesMatch` (`SizesMatch`).  A channel is a face of a rank; `SentBy` and
  `TakenBy` count what a rank in each phase of a round has sent and received on it, and
  `Exchange` says of every channel that what is on the wire is the
  difference, a count before its data, and that the count is the length of what
  is still in the send buffer or follows it (`Channel`, `InStep`).  So a sender may be
  ahead by a round, and its messages still match.
* `ParticlesConserved` (`Conserved`).  `Whereabouts`: there is a map from particles
  to places such that each list has the particles mapped to it, each once.  Every
  action gives a new map (`Backfill` moves nobody; a mover taken off its list goes to
  a buffer, the buffer to the wire, the message to a list).  That the places of a particle
  are one is then counted from the map.
* `ListsFit` (`StorageFits`).  `Storage`: between the resize and the last message, the
  lists have room for what is still to come, which the counts received before bound.
* `TypeIsOK` (`TypeOK`).  `Named`: a count is of different particles, so it is no more
  than there are; `Bounded`: rounds and posted sizes.
* `RoundsDeliver` (`Delivered`).  `MoveIs` compares the walk of `move_p` on one rank with the
  way through the undivided box, face by face: while it moves it is at the same place, mirrored
  in the same axes; once it stops, what is left of its displacement, which `move_p` has
  mirrored already, leads from the cell across the face to the same end, for the two differ in
  the axes they are mirrored in by just those (`Apart`).  So moving a particle keeps its `Goal`,
  the place where its way ends, if it does not end at a wall, and leaves fewer faces to cross
  (`MoveAims`).  `Course` carries that along with the particles: one on a list without a mover is
  at the goal of its name; with a mover, or in a buffer or message, the goal is across the
  face, with as many faces less to cross as its rank has had turns (`Turn`), or its receiver has
  taken messages (`Got`); one accumulated to `rhob` had a wall for its goal.  A rank may load a
  message when its neighbor is still in the round before: that no neighbor is in a later one is
  what `Exchange` is needed for (`GotLess`).  After the last round a mover would have to be of a
  displacement longer than `num_comm_round`, and by `Whereabouts` everybody is on a list,
  in `rhob` or dropped (`WhoIsLeft`).

`CheckptProofs` proves, for any addresses, statics, names and bounds, what the
runs check of `Checkpt`: `TypeCorrect`, `NothingRefused` (`NeverRefuses`) and
`PointersRestored` (`NoStalePointer`), all from `RegistryKept`: `Spec => []IInv`.
They assume that no `CHECKPT_PTR` points to its own object or a younger one
(`~Forward`; the finding on `checkpt_ptr` is what happens otherwise) and
`CheckptAssumption`: no address and no identifier is `NULL`, and boot registers
at least one static object, each once.  What makes it inductive: in a
program that runs, identifiers and objects are registered once, identifiers are
below `next_id`, and an object's own pointers lead to registered objects, those of
`CHECKPT_PTR` to older ones (`Running`); the file being written has the identifiers
and objects the registry begins with (`Writing`); a complete file has the same
shape, with identifiers for addresses (`Files`); and a registry that is restored
runs through the identifiers of its file, statics at their own addresses, its
pointers led back up to the object that reanimate has reached (`Restoring`).
`Fresh` says that a new process has nothing in its objects.

It also proves `Refinement`: `Spec => ImplementsObjectStore`, under the same
assumptions.  A checkpoint is saved by `CheckptClose`, discarded by
`CheckptOpen`, restored by the return of reanimate; a job also dies in the eyes of
`ObjectStore` when it opens a file to restore from, since it forgets the objects
that boot has registered; everything else stutters.  The refinement needs three more
facts (`RInv`): the first static is in every registry and complete file, so that no
graph is empty (`Anchored`); what is written for a pointer is the identifier
that its object has now (`Exact`); and while a job restores, each pointer means
what the file says of it (`Faithful`).

`ParticlesProofs` proves the safety invariants of run `particles` but one, for any set of decks: any box, any species with any particles in any
voxels, any number of pipelines, the kernels of 1, 4, 8 and 16 lanes, both sorts, any
collision operators and any order in which the ranks of a call run.  It assumes
`DecksAssumption` of them: the parameters are numbers, the particles are loaded into voxels of
the box, under different names, and fit in what is allocated for them.  All rest on the
same inductive invariant, `IInv` (`ListsAreSound`), the conjunction of

* `Ctl` and `Domains`: where the host is, and the shape of lists, partitions and memory;
* `Census`: each list has its particles once (`List`), the particles that exist are the
  loaded and the injected ones less the lost, and nobody is in both.  During the last
  pass of the threaded sort the list to look at is the scratch array (`L`);
* `Momenta`: the time of each particle's momentum, in a kernel that is under way by whether
  it has come by (`Reached`);
* `Places`: everyone is in the box but those whom a mover indexes, and the movers are in
  order: in a rank's segment while the advance is under way, over the whole list after;
* `Passes`: how far the threaded sort has come, as a sum over the ranks that have run:
  the counts, the starts the host makes of them, the particles copied, the subsorts done;
* `Brackets`: the partition is right from a sort on until the particles move;
* `Sums`, `Files`: whom the energy, the moments and the dump have counted.

What makes the sort right is arithmetic of places.  `Place(key, i)` is the number of
particles of lower keys and of earlier ones of the same key.  `PlaceIs` says it is one to one
onto the list, `PlaceBracket` that the places of a key are those its counts bracket, and
`CoarseCountIs`, `CoarsePartitionIs`, `CoarseSortIs` and `SubsortIs` that each pass, rank by rank,
puts a particle where the place for its subsort, then for its voxel, says.  The in-place legacy
sort goes around cycles of exchanges: `CycleTurn` is one turn, and a measure, the particles not yet
home and the voxels left, shows that the turns the code takes are enough (`InPlaceIs`).
The advance gives each rank a room for its movers (`RoomIs`, `RunsAre`, `CompactedIs`: moved
together from the lowest rank on, no segment is overwritten before it is moved), and the removal
fills each hole with the last particle (`RemoveStep`), which is right because the
movers are taken from the last one on.

* `NoParticleLost` (`Accounted`), `KernelsMeetEveryone` (`OncePerKernel`), `MoversStayInOrder`
  (`MoversInOrder`) and `ParticlesTypedMeanwhile` (`TypeOK`) hold until a mover is written past
  the end of its list (`MoversFit`), which `inject_particle` only warns of: run
  `mover_overflow` shows that it can be.
* `RoomForMovers`: in a deck that injects nothing, or has room for a mover of every particle
  (`Roomy`), none ever is, so that `ParticlesTyped` needs no such hypothesis.  The advance itself
  never outgrows the list: a rank out of room makes no mover and gives the particle
  its voxel back, as the code does.
* `SortsBracketVoxels` (`Sorted`) assumes moreover that the legacy sort meets no species
  without particles (`NoneEmpty`): the sort of an empty list notes the step and leaves the
  old partition.  The threaded sort, and decks that keep their particles, need nothing.

Only model-checked: liveness (`EveryCallReturns`, `StepCompletes`, `JobEnds`), which
TLAPS does not prove here; `EveryoneCollides`, where the pairs of a voxel are
counted over shuffles and draws; and the modules of the runs `serial`, `fields` and `lanes`.
`Fields`, `SfInterface` and the register classes use recursive operators,
or compare computations, which are TLC's work.

## What is not modelled, and the plan

* How floats round, and the momentum update of the push and of the collision
  operators, which is arithmetic on one particle.  Random numbers are choices.
* The AltiVec class, and of the others what only prints or is a macro; the headers
  `*_v0.h` and `*_v1.h`, older versions that nobody includes.
* Dumps, profiling, OpenMP dispatch, names and look-ups: no state that another
  component depends on.  Langevin's operator and the emitters, which touch each
  particle on its own or append to the end of a list.
* The relay and P2P policies: what answers their requests is not in the
  repository.

Left to do: a proof of `EveryoneCollides`, for which the collisions of a voxel must be tied
to the shuffle that came before them.
