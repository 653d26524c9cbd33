----------------------------- MODULE BoundaryP ------------------------------
(***************************************************************************)
(* The exchange of particles between ranks at the end of a time step:      *)
(* boundary_p (boundary/boundary_p.cc), called num_comm_round times by     *)
(* advance (vpic/advance.cc), with move_p and the mp ports it uses.        *)
(*                                                                         *)
(* advance_p has left on each rank lists of particles and, for those that  *)
(* hit a face it cannot cross, movers.  A round removes the particles that *)
(* have movers, sends those bound for another rank, in two messages per    *)
(* face (their number, then the injectors), and injects those received,    *)
(* which may leave movers for the next round.                              *)
(*                                                                         *)
(* A particle is its name; where it is going is a track, the faces it has  *)
(* still to cross (the remaining displacement).  Lists count from 1.       *)
(* Nonblocking calls and local work between two waits are one step; every  *)
(* wait is a step of its own.                                              *)
(***************************************************************************)
EXTENDS Grid, FiniteSets

CONSTANT
  Settings  (* the decks looked at: records of                             *)
            (*   deck      how the box is divided                          *)
            (*   pbcs      particle_bc_list: the k-th, "reflux" or         *)
            (*             "tally", has the code -2-k                      *)
            (*   sp_list   a sequence of species                           *)
            (*   load      load[rank][sp]: sequence of [id, c], names and  *)
            (*             cells                                           *)
            (*   tracks    tracks[id]: what its displacement may be        *)
            (*   refluxed  refluxed[f]: tracks a wall at face f may give   *)
            (*             back                                            *)
            (*   max_np, max_nm  room for particles and movers at first    *)
            (*   min_np, num_comm_round                                    *)

SpeciesOf(x) == {x.sp_list[k] : k \in DOMAIN x.sp_list}
CellsOf(d) ==
  LET n == LocalSize(d) IN {<<i, j, k>> : i \in 1..n[1], j \in 1..n[2], k \in 1..n[3]}
NamesOf(x) ==
  UNION {{x.load[r][s][k].id : k \in DOMAIN x.load[r][s]} :
           r \in Ranks(x.deck), s \in SpeciesOf(x)}

(* A species is once on its list, a name on one list of one rank, within   *)
(* the room there is; what is drawn are displacements.                     *)
LoadIsLegal(x) ==
  /\ \A r \in Ranks(x.deck), s \in SpeciesOf(x) :
       /\ x.load[r][s] \in Seq([id : NamesOf(x), c : CellsOf(x.deck)])
       /\ Len(x.load[r][s]) <= x.max_np /\ Len(x.load[r][s]) <= x.max_nm
  /\ \A r1, r2 \in Ranks(x.deck), s1, s2 \in SpeciesOf(x) :
       \A j \in DOMAIN x.load[r1][s1], k \in DOMAIN x.load[r2][s2] :
         x.load[r1][s1][j].id = x.load[r2][s2][k].id => r1 = r2 /\ s1 = s2 /\ j = k

ASSUME BoundaryPAssumption ==
  \A x \in Settings :
    /\ WellFormed(x.deck) /\ LoadIsLegal(x)
    /\ x.sp_list \in Seq(SpeciesOf(x))
    /\ \A j, k \in DOMAIN x.sp_list : x.sp_list[j] = x.sp_list[k] => j = k
    /\ x.pbcs \in Seq({"reflux", "tally"})
    /\ \A id \in NamesOf(x) : x.tracks[id] \subseteq Seq(Face)
    /\ \A f \in Face : x.refluxed[f] \subseteq Seq(Face)
    /\ x.num_comm_round \in Nat \ {0}
    /\ x.max_np \in Nat /\ x.max_nm \in Nat /\ x.min_np \in Nat

VARIABLES
  setting,          (* which deck runs                                     *)
  derived,          (* what follows from it, worked out once               *)
  track,            (* the displacement each particle started with         *)
  pc, face, round,  (* where each rank is                                  *)
  p, pm,            (* particles [id, i] and movers [i, disp], by species  *)
  max_np, max_nm,   (* the room there is for them                          *)
  ci,               (* local injectors                                     *)
  send,             (* injectors loaded for each face; n_send is its length*)
  n_recv,           (* counts received                                     *)
  posted,           (* size of the outstanding receive, 0 when none        *)
  wire,             (* messages sent from each face, not received yet      *)
  rhob,             (* times each particle was accumulated to rhob         *)
  tally,            (* absorb_tally's count, by species                    *)
  met,              (* particles that met a custom boundary                *)
  dropped           (* particles dropped with a warning only               *)

given == <<setting, derived, track>>
local == <<p, pm, max_np, max_nm, ci, rhob, tally, met, dropped>>
ports == <<send, n_recv, posted, wire>>
vars == <<given, pc, face, round, local, ports>>

(* What follows from the deck: the tables of every rank, the first cell of *)
(* each, and one past the last.                                            *)
Derived(x) ==
  [grids   |-> GridOf(x.deck),
   first   |-> [r \in 0 .. Cardinality(Ranks(x.deck)) |-> range(x.deck, r)],
   species |-> SpeciesOf(x),
   ids     |-> NamesOf(x)]

Deck == setting.deck
Pbcs == setting.pbcs
SpList == setting.sp_list
Load == setting.load
Tracks == setting.tracks
Refluxed == setting.refluxed
MIN_NP == setting.min_np
NumCommRound == setting.num_comm_round

Tables == derived.grids
Species == derived.species
Ids == derived.ids
Rank == DOMAIN derived.grids
Cells == LocalSize(Deck)

neighbor(r, voxel, f) == Tables[r].neighbor[voxel][f]
bc(r, f) == Tables[r].bc[f]
rangel(r) == derived.first[r]
rangeh(r) == derived.first[r + 1] - 1
rangem == derived.first[Cardinality(Rank)]

shared(r, f) == bc(r, f) \in Rank \ {r}
nb == Len(Pbcs)

-----------------------------------------------------------------------------
(* move_p: cross cells of this rank until the displacement is used up or a *)
(* face stops the particle, which then carries 8*voxel+face.               *)
Turned(flip, f) == IF Axis(f) \in flip THEN Opposite(f) ELSE f

Cross(r, w, f) ==
  LET g  == Turned(w.flip, f)
      nn == neighbor(r, w.i, g)
  IN CASE w.stuck -> [w EXCEPT !.left = Append(@, g)]
       [] ~w.stuck /\ nn = reflect_particles ->
            [w EXCEPT !.flip = (@ \ {Axis(f)}) \cup ({Axis(f)} \ @)]
       [] ~w.stuck /\ nn # reflect_particles /\ (nn < rangel(r) \/ nn > rangeh(r)) ->
            [w EXCEPT !.i = 8 * @ + g, !.stuck = TRUE]
       [] OTHER -> [w EXCEPT !.i = nn - rangel(r)]

MoveP(r, i, disp) ==
  FoldLeft(LAMBDA w, f : Cross(r, w, f),
           [i |-> i, flip |-> {}, stuck |-> FALSE, left |-> <<>>], disp)

(* Append a particle and its mover, and move it.                           *)
Inject_NpAfter(r, acc, pi) ==
  LET w == MoveP(r, pi.i, pi.disp)
      q == Append(acc.p[pi.sp], [id |-> pi.id, i |-> w.i])
  IN [p  |-> [acc.p EXCEPT ![pi.sp] = q],
      pm |-> IF w.stuck
             THEN [acc.pm EXCEPT ![pi.sp] = Append(@, [i |-> Len(q) + 1, disp |-> w.left])]
             ELSE acc.pm]
Inject_MoverKept(r, acc, pi) ==
  LET w == MoveP(r, pi.i, pi.disp)
      q == Append(acc.p[pi.sp], [id |-> pi.id, i |-> w.i])
  IN [p  |-> [acc.p EXCEPT ![pi.sp] = q],
      pm |-> [acc.pm EXCEPT ![pi.sp] = Append(@, [i |-> Len(q), disp |-> w.left])]]
Inject(r, acc, pi) ==
  LET w == MoveP(r, pi.i, pi.disp)
      q == Append(acc.p[pi.sp], [id |-> pi.id, i |-> w.i])
  IN [p  |-> [acc.p EXCEPT ![pi.sp] = q],
      pm |-> IF w.stuck
             THEN [acc.pm EXCEPT ![pi.sp] = Append(@, [i |-> Len(q), disp |-> w.left])]
             ELSE acc.pm]

(* Injectors are taken in reverse order.                                   *)
InjectAll(r, acc, injectors) ==
  FoldRight(LAMBDA pi, a : Inject(r, a, pi), injectors, acc)

-----------------------------------------------------------------------------
(* What advance_p leaves: every particle moved as far as its rank goes.    *)
Moved(r, s, tr) ==
  [k \in DOMAIN Load[r][s] |->
     MoveP(r, VOXEL(Load[r][s][k].c, Cells), tr[Load[r][s][k].id])]

Init ==
  /\ setting \in Settings /\ derived = Derived(setting)
  /\ track \in {t \in [Ids -> UNION {Tracks[x] : x \in Ids}] : \A x \in Ids : t[x] \in Tracks[x]}
  /\ pc = [r \in Rank |-> "begin"] /\ face = [r \in Rank |-> 0]
  /\ round = [r \in Rank |-> 0]
  /\ p = [r \in Rank |-> [s \in Species |->
            [k \in DOMAIN Load[r][s] |->
               [id |-> Load[r][s][k].id, i |-> Moved(r, s, track)[k].i]]]]
  /\ pm = [r \in Rank |-> [s \in Species |->
             LET w == Moved(r, s, track)
             IN FoldLeft(LAMBDA m, k : IF w[k].stuck
                                       THEN Append(m, [i |-> k, disp |-> w[k].left]) ELSE m,
                         <<>>, [k \in DOMAIN w |-> k])]]
  /\ max_np = [r \in Rank |-> [s \in Species |-> setting.max_np]]
  /\ max_nm = [r \in Rank |-> [s \in Species |-> setting.max_nm]]
  /\ ci = [r \in Rank |-> <<>>]
  /\ send = [r \in Rank |-> [f \in Face |-> <<>>]]
  /\ n_recv = [r \in Rank |-> [f \in Face |-> 0]]
  /\ posted = [r \in Rank |-> [f \in Face |-> 0]]
  /\ wire = [r \in Rank |-> [f \in Face |-> <<>>]]
  /\ rhob = [x \in Ids |-> 0]
  /\ tally = [r \in Rank |-> [s \in Species |-> 0]]
  /\ met = {} /\ dropped = {}

-----------------------------------------------------------------------------
(* The mp ports.  Sends are synchronous (MPI_Issend): one completes when   *)
(* the receive it matches has been posted.  Messages of one port are       *)
(* matched in the order they were sent.                                    *)
Port(f) == Opposite(f)     (* f2rb, the port of the rank across face f     *)

CountSize == 4
DataSize(n) == 16 + 48 * n
CountMsg_OffByOne(n) == [sz |-> CountSize, n |-> n + 1, inj |-> <<>>]
CountMsg(n) == [sz |-> CountSize, n |-> n, inj |-> <<>>]
DataMsg(injectors) == [sz |-> DataSize(Len(injectors)), n |-> 0, inj |-> injectors]

Arrived(r, f) == wire[bc(r, f)][Port(f)]
Unmatched(r, f) ==
  Len(wire[r][f]) - (IF posted[bc(r, f)][Port(f)] # 0 THEN 1 ELSE 0)
Matched(r, f) == Unmatched(r, f) <= 0

Received(r, f) == [wire EXCEPT ![bc(r, f)][Port(f)] = Tail(@)]

-----------------------------------------------------------------------------
(* The loops over the faces.  A rank that shares none falls through them.  *)
NextShared(r, f) ==
  LET S == {g \in f..5 : shared(r, g)}
  IN IF S = {} THEN 6 ELSE CHOOSE g \in S : \A h \in S : g <= h

Follow == [count |-> "data", data |-> "resize", inject |-> "finish", finish |-> "return"]

At(r, phase) == pc[r] = phase /\ face[r] < 6
NextFace(r) == face' = [face EXCEPT ![r] = NextShared(r, face[r] + 1)]
Goto(r, phase) ==
  /\ pc' = [pc EXCEPT ![r] = phase]
  /\ face' = [face EXCEPT ![r] = NextShared(r, 0)]

EndLoop(r) ==
  /\ pc[r] \in DOMAIN Follow /\ face[r] = 6
  /\ Goto(r, Follow[pc[r]])
  /\ UNCHANGED <<given, round, local, ports>>

-----------------------------------------------------------------------------
(* Fill the hole a departing particle leaves with the last of the list.    *)
Backfill_NpKept(list, i) == [list EXCEPT ![i] = list[Len(list)]]
Backfill(list, i) == Front([list EXCEPT ![i] = list[Len(list)]])

(* The cell number an injector carries is the receiver's.                  *)
RemoteCell(r, f, nn) == nn - rangel(bc(r, f))

OnAnotherRank(r, nn) == (nn >= 0 /\ nn < rangel(r)) \/ (nn > rangeh(r) /\ nn <= rangem)

(* One mover of species s: absorb, send, let a custom boundary interact,   *)
(* or drop.  back is what the refluxing walls draw.                        *)
Load1(r, s, m, back, acc) ==
  LET q     == acc.p[s][m.i]
      f     == q.i % 8
      voxel == q.i \div 8
      nn    == neighbor(r, voxel, f)
      k     == -nn - 2
      gone  == [acc EXCEPT !.p[s] = Backfill(@, m.i)]
      injector(i, disp) == [id |-> q.id, i |-> i, sp |-> s, disp |-> disp]
  IN CASE nn = absorb_particles -> [gone EXCEPT !.rhob[q.id] = @ + 1]
       [] OnAnotherRank(r, nn) ->
            [gone EXCEPT !.send[f] = Append(@, injector(RemoteCell(r, f, nn), m.disp))]
       [] k \in 1..nb /\ Pbcs[k] = "reflux" ->
            [gone EXCEPT !.ci = Append(@, injector(voxel, back[[id |-> q.id, f |-> f]])),
                         !.met = @ \cup {q.id}]
       [] k \in 1..nb /\ Pbcs[k] = "tally" ->
            [gone EXCEPT !.rhob[q.id] = @ + 1, !.tally[s] = @ + 1, !.met = @ \cup {q.id}]
       [] OTHER -> [gone EXCEPT !.dropped = @ \cup {q.id}]

(* Species in list order, the movers of each in reverse order.             *)
LoadAll(r, back) ==
  FoldLeft(LAMBDA acc, s :
             FoldRight(LAMBDA m, a : Load1(r, s, m, back, a), pm[r][s], acc),
           [p |-> p[r], send |-> [f \in Face |-> <<>>], ci |-> <<>>, rhob |-> rhob,
            tally |-> tally[r], met |-> met, dropped |-> dropped],
           SpList)

(* The particles that stand at a refluxing wall, and what it may draw.     *)
AtReflux(r) ==
  UNION {{[id |-> p[r][s][m.i].id, f |-> p[r][s][m.i].i % 8] :
            m \in {mm \in ToSet(pm[r][s]) :
                     LET i == p[r][s][mm.i].i
                         k == -neighbor(r, i \div 8, i % 8) - 2
                     IN k \in 1..nb /\ Pbcs[k] = "reflux"}} : s \in Species}
Draws(r) == {b \in [AtReflux(r) -> UNION {Refluxed[f] : f \in Face}] :
               \A x \in AtReflux(r) : b[x] \in Refluxed[x.f]}

(* Post the receives of the counts, load the buffers, send the counts.     *)
Begin(r) ==
  /\ pc[r] = "begin"
  /\ \E back \in Draws(r) :
       LET out == LoadAll(r, back) IN
       /\ p' = [p EXCEPT ![r] = out.p]
       /\ pm' = [pm EXCEPT ![r] = [s \in Species |-> <<>>]]
       /\ ci' = [ci EXCEPT ![r] = out.ci]
       /\ send' = [send EXCEPT ![r] = out.send]
       /\ rhob' = out.rhob
       /\ tally' = [tally EXCEPT ![r] = out.tally]
       /\ met' = out.met
       /\ dropped' = out.dropped
       /\ wire' = [wire EXCEPT ![r] = [f \in Face |->
            IF shared(r, f) THEN Append(@[f], CountMsg(Len(out.send[f]))) ELSE @[f]]]
  /\ posted' = [posted EXCEPT ![r] = [f \in Face |-> IF shared(r, f) THEN CountSize ELSE 0]]
  /\ Goto(r, "count")
  /\ UNCHANGED <<given, round, max_np, max_nm, n_recv>>

(* Wait for a count and post the receive of that many injectors.           *)
EndRecvCount(r) ==
  /\ At(r, "count")
  /\ Arrived(r, face[r]) # <<>>
  /\ LET f == face[r]
         m == Head(Arrived(r, f))
     IN /\ wire' = Received(r, f)
        /\ IF m.sz # posted[r][f]
           THEN /\ pc' = [pc EXCEPT ![r] = "error"]
                /\ UNCHANGED <<face, n_recv, posted>>
           ELSE /\ n_recv' = [n_recv EXCEPT ![r][f] = m.n]
                /\ posted' = [posted EXCEPT ![r][f] = DataSize(m.n)]
                /\ NextFace(r)
                /\ UNCHANGED pc
  /\ UNCHANGED <<given, round, local, send>>

(* Wait for the count to be taken and send the injectors after it.         *)
EndSendCount(r) ==
  /\ At(r, "data")
  /\ Matched(r, face[r])
  /\ wire' = [wire EXCEPT ![r][face[r]] = Append(@, DataMsg(send[r][face[r]]))]
  /\ send' = [send EXCEPT ![r][face[r]] = <<>>]
  /\ NextFace(r)
  /\ UNCHANGED <<given, pc, round, local, n_recv, posted>>

MaxInj_Remote(r) == FoldLeft(LAMBDA n, f : n + n_recv[r][f], 0, <<0, 1, 2, 3, 4, 5>>)
MaxInj(r) ==
  FoldLeft(LAMBDA n, f : IF shared(r, f) THEN n + n_recv[r][f] ELSE n,
           Len(ci[r]), <<0, 1, 2, 3, 4, 5>>)

(* Room for the worst case, that every injector is of this species.        *)
RoomNp(n, max) ==
  IF n > max THEN (21 * n) \div 16
  ELSE IF max > MIN_NP /\ n < max \div 2
       THEN (IF (9 * n) \div 8 < MIN_NP THEN MIN_NP ELSE (9 * n) \div 8)
       ELSE max
RoomNm(n, max) == IF n > max THEN (21 * n) \div 16 ELSE max

(* Resize the lists and inject the local injectors.                        *)
ResizeInjectLocal(r) ==
  /\ pc[r] = "resize"
  /\ max_np' = [max_np EXCEPT ![r] = [s \in Species |->
       RoomNp(Len(p[r][s]) + MaxInj(r), @[s])]]
  /\ max_nm' = [max_nm EXCEPT ![r] = [s \in Species |->
       RoomNm(Len(pm[r][s]) + MaxInj(r), @[s])]]
  /\ LET out == InjectAll(r, [p |-> p[r], pm |-> pm[r]], ci[r]) IN
       /\ p' = [p EXCEPT ![r] = out.p]
       /\ pm' = [pm EXCEPT ![r] = out.pm]
  /\ ci' = [ci EXCEPT ![r] = <<>>]
  /\ Goto(r, "inject")
  /\ UNCHANGED <<given, round, rhob, tally, met, dropped, ports>>

(* Wait for a face's injectors and inject them.                            *)
EndRecvData(r) ==
  /\ At(r, "inject")
  /\ Arrived(r, face[r]) # <<>>
  /\ LET f   == face[r]
         m   == Head(Arrived(r, f))
         out == InjectAll(r, [p |-> p[r], pm |-> pm[r]], m.inj)
     IN /\ wire' = Received(r, f)
        /\ posted' = [posted EXCEPT ![r][f] = 0]
        /\ IF m.sz # posted[r][f]
           THEN pc' = [pc EXCEPT ![r] = "error"] /\ UNCHANGED <<face, p, pm>>
           ELSE /\ p' = [p EXCEPT ![r] = out.p]
                /\ pm' = [pm EXCEPT ![r] = out.pm]
                /\ NextFace(r)
                /\ UNCHANGED pc
  /\ UNCHANGED <<given, round, max_np, max_nm, ci, rhob, tally, met, dropped, send, n_recv>>

EndSendData_FaceKept(r) ==
  /\ At(r, "finish")
  /\ Matched(r, face[r])
  /\ UNCHANGED vars
EndSendData(r) ==
  /\ At(r, "finish")
  /\ Matched(r, face[r])
  /\ NextFace(r)
  /\ UNCHANGED <<given, pc, round, local, ports>>

MoreRounds_OffByOne(r) == round[r] + 1 < NumCommRound - 1
MoreRounds(r) == round[r] + 1 < NumCommRound

Return(r) ==
  /\ pc[r] = "return"
  /\ round' = [round EXCEPT ![r] = @ + 1]
  /\ Goto(r, IF MoreRounds(r) THEN "begin" ELSE "leftover")
  /\ UNCHANGED <<given, local, ports>>

(* advance drops the particles whose movers are left, in reverse order.    *)
Drop1(s, m, acc) ==
  [p    |-> [acc.p EXCEPT ![s] = Backfill(@, m.i)],
   rhob |-> [acc.rhob EXCEPT ![acc.p[s][m.i].id] = @ + 1]]

DropAll(r) ==
  FoldLeft(LAMBDA acc, s : FoldRight(LAMBDA m, a : Drop1(s, m, a), pm[r][s], acc),
           [p |-> p[r], rhob |-> rhob], SpList)

RemoveUnprocessed(r) ==
  /\ pc[r] = "leftover"
  /\ LET out == DropAll(r) IN
       /\ p' = [p EXCEPT ![r] = out.p]
       /\ rhob' = out.rhob
  /\ pm' = [pm EXCEPT ![r] = [s \in Species |-> <<>>]]
  /\ Goto(r, "done")
  /\ UNCHANGED <<given, round, max_np, max_nm, ci, tally, met, dropped, ports>>

Done == \A r \in Rank : pc[r] = "done"
Finished == Done /\ UNCHANGED vars

Step(r) ==
  \/ Begin(r) \/ EndRecvCount(r) \/ EndSendCount(r) \/ ResizeInjectLocal(r)
  \/ EndRecvData(r) \/ EndSendData(r) \/ EndLoop(r) \/ Return(r) \/ RemoveUnprocessed(r)

Next == (\E r \in Rank : Step(r)) \/ Finished

Spec == Init /\ [][Next]_vars

(* Ranks are processes that keep running: while one can step, one does.    *)
FairSpec == Spec /\ WF_vars(Next)

-----------------------------------------------------------------------------
(* Every variable keeps its range; the arrays of movers index the lists.   *)
TypeOK ==
  \A r \in Rank :
    /\ pc[r] \in DOMAIN Follow \cup {"begin", "resize", "return", "leftover", "done", "error"}
    /\ face[r] \in 0..6 /\ round[r] \in 0..NumCommRound
    /\ \A s \in Species :
         /\ \A k \in DOMAIN p[r][s] : p[r][s][k].id \in Ids /\ p[r][s][k].i \in Nat
         /\ \A k \in DOMAIN pm[r][s] : pm[r][s][k].i \in DOMAIN p[r][s]
    /\ \A f \in Face : /\ n_recv[r][f] \in 0..Cardinality(Ids)
                       /\ posted[r][f] \in Nat
                       /\ Len(wire[r][f]) <= 2

(* Where a particle is held: on a list, loaded for a face, in a message,   *)
(* in the local injection buffer, accumulated to rhob (once for every time *)
(* it was), or dropped.                                                    *)
HeldIn(seq, id) == {k \in DOMAIN seq : seq[k].id = id}

InLists(id) ==
  UNION {{<<"list", r, s, k>> : k \in HeldIn(p[r][s], id)} : r \in Rank, s \in Species}
InBuffers(id) ==
  UNION {{<<"send", r, f, k>> : k \in HeldIn(send[r][f], id)} : r \in Rank, f \in Face}
InMessages(id) ==
  UNION {UNION {{<<"wire", r, f, j, k>> : k \in HeldIn(wire[r][f][j].inj, id)} :
                  j \in DOMAIN wire[r][f]} : r \in Rank, f \in Face}
InInjectors(id) == UNION {{<<"ci", r, k>> : k \in HeldIn(ci[r], id)} : r \in Rank}
Places(id) ==
  UNION {InLists(id), InBuffers(id), InMessages(id), InInjectors(id),
         {<<"rhob", n>> : n \in 1..rhob[id]}, {<<"dropped">> : x \in dropped \cap {id}}}

(* However the ranks interleave, no particle is lost or doubled: backfill  *)
(* against the movers' indices, the two messages and the injection of      *)
(* every round keep exactly one copy of each, until it is absorbed or      *)
(* dropped.                                                                *)
Conserved == \A id \in Ids : Cardinality(Places(id)) = 1

(* "Sizes do not match" (mp_end_recv): though counts and injectors travel  *)
(* on one tag, round after round, a receive always gets the message it was *)
(* posted for.                                                             *)
SizesMatch == \A r \in Rank : pc[r] # "error"

(* A voxel of the rank's own box, and what a particle carries that stands  *)
(* at a face it cannot cross.                                              *)
IsCell(voxel) == voxel \in 0..(nv(Cells) - 1) /\ Interior(Coord(voxel, Cells), Cells)
Stopped(r, i) ==
  /\ IsCell(i \div 8) /\ i % 8 \in Face
  /\ LET nn == neighbor(r, i \div 8, i % 8)
     IN nn # reflect_particles /\ (nn < rangel(r) \/ nn > rangeh(r))

(* What the backfill relies on: movers are in increasing order of the      *)
(* particles they move, and those are just the ones that stand at a face;  *)
(* every other particle is in a cell of its rank.                          *)
MoversMonotone ==
  \A r \in Rank, s \in Species :
    /\ \A k \in 2..Len(pm[r][s]) : pm[r][s][k - 1].i < pm[r][s][k].i
    /\ \A k \in DOMAIN p[r][s] :
         IF \E j \in DOMAIN pm[r][s] : pm[r][s][j].i = k
         THEN Stopped(r, p[r][s][k].i) ELSE IsCell(p[r][s][k].i)

(* The lists never outgrow the storage boundary_p resized for them.        *)
StorageFits ==
  \A r \in Rank, s \in Species : /\ Len(p[r][s]) <= max_np[r][s]
                                 /\ Len(pm[r][s]) <= max_nm[r][s]

(* Where the displacement leads in the undivided box.                      *)
Journey(x, tr) ==
  FoldLeft(LAMBDA w, f :
             LET g == IF Axis(f) \in w.flip THEN Opposite(f) ELSE f IN
             IF w.absorbed THEN w
             ELSE IF ~AtWall(Deck, w.x, g) THEN [w EXCEPT !.x = Across(Deck, @, g)]
             ELSE IF Wall(Deck, g) = reflect_particles
                  THEN [w EXCEPT !.flip = (@ \ {Axis(f)}) \cup ({Axis(f)} \ @)]
                  ELSE [w EXCEPT !.absorbed = TRUE],
           [x |-> x, flip |-> {}, absorbed |-> FALSE], tr)

Settled(id, w) ==
  IF w.absorbed THEN rhob[id] = 1
  ELSE \E s \in Species : \E k \in DOMAIN p[Owner(Deck, w.x)][s] :
         LET q == p[Owner(Deck, w.x)][s][k]
         IN q.id = id /\ range(Deck, Owner(Deck, w.x)) + q.i = GlobalVoxel(Deck, w.x)

(* After the rounds every particle that met no custom wall is where its    *)
(* displacement leads in a box that is not divided, on the rank that owns  *)
(* the cell: num_comm_round is enough, and only particles sent on by       *)
(* a custom boundary can be dropped with their movers unprocessed.         *)
Delivered ==
  Done => \A r \in Rank, s \in Species : \A k \in DOMAIN Load[r][s] :
            LET l == Load[r][s][k] IN
            l.id \in met \cup dropped \/ Settled(l.id, Journey(GlobalCoord(Deck, r, l.c), track[l.id]))

(* That num_comm_round is enough: no displacement has more faces to cross. *)
RoundsEnough ==
  \A x \in Settings : \A id \in NamesOf(x) : \A t \in x.tracks[id] : Len(t) <= x.num_comm_round

(* No rank waits for ever for a neighbour: every time step's exchange ends *)
(* on every rank.                                                          *)
StepCompletes == <>Done
=============================================================================
