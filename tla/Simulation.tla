----------------------------- MODULE Simulation -----------------------------
(***************************************************************************)
(* A job: the ranks that run main (deck/main.cc), from boot_services to    *)
(* halt_services, the checkpoints they write and the jobs that are started *)
(* from them after a crash or a normal exit.                               *)
(*                                                                         *)
(* A rank advances its own step, held back only by what it must receive    *)
(* from the ranks across its faces (one exchange stands for all those of a *)
(* step) and by barriers.  user_diagnostics writes a checkpoint, a file    *)
(* per rank, as the decks do.  The box is divided along one axis between   *)
(* walls.  If one rank dies the job dies.                                  *)
(***************************************************************************)
EXTENDS Integers, FiniteSets

CONSTANTS
  NRank,
  NumStep,   (* num_step of the deck                                       *)
  ModSteps,  (* values of num_step in files given to --modify              *)
  Interval,  (* steps between checkpoints                                  *)
  AtZero,    (* TRUE: should_dump, true at step 0 too; FALSE: not then     *)
  Policies,  (* how the deck names checkpoints, any of "step":             *)
             (* checkpt(fbase, step()), "toggle": two names, the toggle    *)
             (* changed before the call, "late": changed after it          *)
  MaxLives   (* bound: jobs started                                        *)

ASSUME SimulationAssumption ==
  /\ NRank \in Nat \ {0} /\ NumStep \in Nat \ {0} /\ ModSteps \subseteq Nat \ {0}
  /\ Interval \in Nat \ {0} /\ MaxLives \in Nat
  /\ Policies \subseteq {"step", "toggle", "late"} /\ AtZero \in BOOLEAN
  /\ \E s \in ModSteps \cup {NumStep} : \A t \in ModSteps \cup {NumStep} : t <= s

Rank == 0 .. NRank - 1
Neighbor(r) == {r - 1, r + 1} \cap Rank
Distance(r, n) == IF r < n THEN n - r ELSE r - n

(* What a file is called, short of the rank.                               *)
LastStep == CHOOSE s \in ModSteps \cup {NumStep} : \A t \in ModSteps \cup {NumStep} : t <= s
Name == IF "step" \in Policies THEN 0 .. LastStep ELSE {0, 1}
None == -1

VARIABLES
  policy,     (* how this deck names checkpoints                           *)
  lives,      (* jobs started                                              *)
  from, mod,  (* --restore and --modify of this job (None: not given)      *)
  pc,
  entered,    (* barriers (and collectives) this rank has entered          *)
  sent,       (* exchanges this rank has sent its part of                  *)
  sim,        (* main's pointer: is it set?                                *)
  registered, (* is &simulation registered for checkpointing?              *)
  step, num_step, rtoggle,
  disk        (* [name -> [rank -> file]]; life is the job that wrote it   *)

state == <<sim, registered, step, num_step, rtoggle>>
job == <<policy, lives, from, mod>>
vars == <<job, pc, entered, sent, state, disk>>

Lost == [complete |-> FALSE, main |-> FALSE, step |-> 0, num_step |-> 0, rtoggle |-> 0,
         life |-> 0]

Stopped(r) == pc[r] \in {"off", "exited", "failed", "null"}
Over == \A r \in Rank : Stopped(r)

Init ==
  /\ policy \in Policies
  /\ lives = 0 /\ from = None /\ mod = None
  /\ pc = [r \in Rank |-> "off"]
  /\ entered = [r \in Rank |-> 0] /\ sent = [r \in Rank |-> 0]
  /\ sim = [r \in Rank |-> FALSE] /\ registered = [r \in Rank |-> FALSE]
  /\ step = [r \in Rank |-> 0] /\ num_step = [r \in Rank |-> 0]
  /\ rtoggle = [r \in Rank |-> 0]
  /\ disk = [n \in Name |-> [r \in Rank |-> Lost]]

-----------------------------------------------------------------------------
(* A checkpoint can be restored when every rank's file is complete; with   *)
(* names used again, whoever restarts the job also looks at their dates.   *)
Whole(n) == \A r \in Rank : disk[n][r].complete
Agree(n) ==
  \A r, q \in Rank : /\ disk[n][r].step = disk[n][q].step
                      /\ disk[n][r].life = disk[n][q].life
Usable(n) == Whole(n) /\ (policy # "step" => Agree(n))

(* Start a job: all memory is new, every rank runs to the barrier that     *)
(* ends boot_services.                                                     *)
Launch(n, m) ==
  /\ Over /\ lives < MaxLives
  /\ lives' = lives + 1 /\ from' = n /\ mod' = m
  /\ pc' = [r \in Rank |-> "boot"]
  /\ entered' = [r \in Rank |-> 1] /\ sent' = [r \in Rank |-> 0]
  /\ sim' = [r \in Rank |-> FALSE] /\ registered' = [r \in Rank |-> FALSE]
  /\ step' = [r \in Rank |-> 0] /\ num_step' = [r \in Rank |-> 0]
  /\ rtoggle' = [r \in Rank |-> 0]
  /\ UNCHANGED <<policy, disk>>

(* A fresh start when there is nothing to restart from.                    *)
Start == \/ (\A n \in Name : ~Usable(n)) /\ Launch(None, None)
         \/ \E n \in Name, m \in ModSteps \cup {None} : Usable(n) /\ Launch(n, m)

Crash ==
  /\ ~Over
  /\ pc' = [r \in Rank |-> "off"]
  /\ UNCHANGED <<job, entered, sent, state, disk>>

(* mp_barrier: left when all have entered.                                 *)
Together(r) == \A n \in Rank : entered[n] >= entered[r]
Enter(r) == entered' = [entered EXCEPT ![r] = @ + 1]
Goto(r, label) == pc' = [pc EXCEPT ![r] = label]

-----------------------------------------------------------------------------
(* restore_objects; main then waits for the others.                        *)
Restore(r) ==
  /\ pc[r] = "boot" /\ Together(r) /\ from # None
  /\ LET f == disk[from][r]
     IN /\ sim' = [sim EXCEPT ![r] = f.main]
        /\ registered' = [registered EXCEPT ![r] = f.main]
        /\ step' = [step EXCEPT ![r] = f.step]
        /\ num_step' = [num_step EXCEPT ![r] = f.num_step]
        /\ rtoggle' = [rtoggle EXCEPT ![r] = f.rtoggle]
  /\ Enter(r) /\ Goto(r, "restored")
  /\ UNCHANGED <<job, sent, disk>>

Reanimate(r) ==
  /\ pc[r] = "restored" /\ Together(r)
  /\ Enter(r) /\ Goto(r, "reanimated")
  /\ UNCHANGED <<job, sent, state, disk>>

Modified_Rank0(r) == IF mod = None \/ r # 0 THEN num_step[r] ELSE mod
Modified(r) == IF mod = None THEN num_step[r] ELSE mod

(* The simulation is modified and advanced through main's pointer.         *)
Modify(r) ==
  /\ pc[r] = "reanimated" /\ Together(r)
  /\ IF sim[r]
     THEN /\ Goto(r, "advance")
          /\ num_step' = [num_step EXCEPT ![r] = Modified(r)]
     ELSE Goto(r, "null") /\ UNCHANGED num_step
  /\ UNCHANGED <<job, entered, sent, sim, registered, step, rtoggle, disk>>

-----------------------------------------------------------------------------
(* No --restore: construct and initialize, which ends with the diagnostics *)
(* of step 0; then main registers its pointer.                             *)
Initialize(r) ==
  /\ pc[r] = "boot" /\ Together(r) /\ from = None
  /\ sim' = [sim EXCEPT ![r] = TRUE]
  /\ num_step' = [num_step EXCEPT ![r] = NumStep]
  /\ Enter(r) /\ Goto(r, "initializing")
  /\ UNCHANGED <<job, sent, registered, step, rtoggle, disk>>

InitialDiagnostics(r) ==
  /\ pc[r] = "initializing" /\ Together(r)
  /\ Goto(r, "diagnostics")
  /\ UNCHANGED <<job, entered, sent, state, disk>>

RegisterMain(r) == [registered EXCEPT ![r] = TRUE]

EndInitialize(r) ==
  /\ pc[r] = "initialized"
  /\ registered' = RegisterMain(r)
  /\ Goto(r, "advance")
  /\ UNCHANGED <<job, entered, sent, sim, step, num_step, rtoggle, disk>>

-----------------------------------------------------------------------------
(* advance: the test comes first, so that it is made after a restore.      *)
Done(r) == num_step[r] > 0 /\ step[r] >= num_step[r]

BeginStep(r) ==
  /\ pc[r] = "advance" /\ ~Done(r)
  /\ sent' = [sent EXCEPT ![r] = @ + 1]
  /\ Goto(r, "exchange")
  /\ UNCHANGED <<job, entered, state, disk>>

Received_OneFace(r) == \E n \in Neighbor(r) : sent[n] >= sent[r]
Received(r) == \A n \in Neighbor(r) : sent[n] >= sent[r]

EndStep(r) ==
  /\ pc[r] = "exchange" /\ Received(r)
  /\ step' = [step EXCEPT ![r] = @ + 1]
  /\ Goto(r, "diagnostics")
  /\ UNCHANGED <<job, entered, sent, sim, registered, num_step, rtoggle, disk>>

-----------------------------------------------------------------------------
(* user_diagnostics, as decks write it.                                    *)
ShouldDump(s) == s % Interval = 0 /\ (s = 0 => AtZero)
After(r) == IF registered[r] THEN "advance" ELSE "initialized"

NoCheckpt(r) ==
  /\ pc[r] = "diagnostics" /\ ~ShouldDump(step[r])
  /\ Goto(r, After(r))
  /\ UNCHANGED <<job, entered, sent, state, disk>>

Flipped_Never(t) == t
Flipped_Add(t) == t + 1
Flipped(t) == 1 - t

TagOf(s, t) == IF policy = "step" THEN s ELSE t

(* The decks that change the toggle late first ask for the uptime, which   *)
(* is a collective.                                                        *)
DumpStart(r) ==
  /\ pc[r] = "diagnostics" /\ ShouldDump(step[r]) /\ policy = "late"
  /\ Enter(r) /\ Goto(r, "dumpstart")
  /\ UNCHANGED <<job, sent, state, disk>>

AtCheckpt(r) ==
  IF policy = "late" THEN pc[r] = "dumpstart" /\ Together(r)
                     ELSE pc[r] = "diagnostics" /\ ShouldDump(step[r])

OpenCheckpt(r) ==
  /\ AtCheckpt(r)
  /\ LET t == IF policy = "toggle" THEN Flipped(rtoggle[r]) ELSE rtoggle[r]
     IN /\ rtoggle' = [rtoggle EXCEPT ![r] = t]
        /\ disk' = [disk EXCEPT ![TagOf(step[r], t)][r] =
             [complete |-> FALSE, main |-> registered[r], step |-> step[r],
              num_step |-> num_step[r], rtoggle |-> t, life |-> lives]]
  /\ Goto(r, "checkpt")
  /\ UNCHANGED <<job, entered, sent, sim, registered, step, num_step>>

CloseCheckpt(r) ==
  /\ pc[r] = "checkpt"
  /\ disk' = [disk EXCEPT ![TagOf(step[r], rtoggle[r])][r].complete = TRUE]
  /\ rtoggle' = IF policy = "late" THEN [rtoggle EXCEPT ![r] = Flipped(@)] ELSE rtoggle
  /\ Goto(r, After(r))
  /\ UNCHANGED <<job, entered, sent, sim, registered, step, num_step>>

-----------------------------------------------------------------------------
(* The run is over: main unregisters its pointer and waits in finalize,    *)
(* then deletes the simulation and halts the services, checkpt last.       *)
UnregisterMain(r) == [registered EXCEPT ![r] = FALSE]

CleanUp(r) ==
  /\ pc[r] = "advance" /\ Done(r)
  /\ registered' = UnregisterMain(r)
  /\ Enter(r)
  /\ Goto(r, IF registered[r] THEN "finalize" ELSE "failed")
  /\ UNCHANGED <<job, sent, sim, step, num_step, rtoggle, disk>>

Halt(r) ==
  /\ pc[r] = "finalize" /\ Together(r)
  /\ Goto(r, IF registered[r] THEN "failed" ELSE "exited")
  /\ sim' = [sim EXCEPT ![r] = FALSE]
  /\ UNCHANGED <<job, entered, sent, registered, step, num_step, rtoggle, disk>>

Main(r) ==
  \/ Restore(r) \/ Reanimate(r) \/ Modify(r)
  \/ Initialize(r) \/ InitialDiagnostics(r) \/ EndInitialize(r)
  \/ BeginStep(r) \/ EndStep(r)
  \/ NoCheckpt(r) \/ DumpStart(r) \/ OpenCheckpt(r) \/ CloseCheckpt(r)
  \/ CleanUp(r) \/ Halt(r)

Next == Start \/ Crash \/ \E r \in Rank : Main(r)

Spec == Init /\ [][Next]_vars

(* The operating system runs every rank.                                   *)
FairSpec == Spec /\ \A r \in Rank : WF_vars(Main(r))

-----------------------------------------------------------------------------
(* Every variable keeps its type.                                          *)
TypeOK ==
  /\ policy \in Policies /\ lives \in 0 .. MaxLives /\ from \in Name \cup {None}
  /\ mod \in ModSteps \cup {None}
  /\ pc \in [Rank -> {"off", "boot", "restored", "reanimated", "null", "initializing",
                      "initialized", "advance", "exchange", "diagnostics", "dumpstart", "checkpt",
                      "finalize", "exited", "failed"}]
  /\ entered \in [Rank -> 0 .. LastStep + 4] /\ sent \in [Rank -> 0 .. LastStep]
  /\ {sim, registered} \subseteq [Rank -> BOOLEAN]
  /\ {step, num_step} \subseteq [Rank -> 0 .. LastStep] /\ rtoggle \in [Rank -> {0, 1}]
  /\ disk \in [Name -> [Rank -> [complete : BOOLEAN, main : BOOLEAN, step : 0 .. LastStep,
                                 num_step : 0 .. LastStep, rtoggle : {0, 1},
                                 life : 0 .. MaxLives]]]

Advancing(r) == pc[r] \in {"advance", "exchange", "diagnostics", "dumpstart", "checkpt"}

(* Ranks that advance are apart by no more steps than the faces between    *)
(* them, whatever checkpoint they come from: no exchange mixes two steps.  *)
RanksInStep ==
  \A r, n \in Rank : Advancing(r) /\ Advancing(n)
                       => Distance(r, n) >= step[r] - step[n]

(* interface_deck_2D_decomp.cc:49 says that the toggle "Enables save of    *)
(* last two restart dumps for safety".                                     *)
(* Once there is a checkpoint to restart from there is always one: at no   *)
(* time, in this job or a later one, is the only good set of files the one *)
(* being overwritten (by a rank that is ahead of the others, perhaps).     *)
Recoverable == \E n \in Name : Whole(n) /\ Agree(n)
RecoverableKept == Recoverable => Recoverable'

(* So it is for a deck that changes its toggle before it writes; for one   *)
(* that changes it afterwards, within one job.                             *)
RecoverableByToggle ==
  [][policy = "toggle" \/ (policy = "late" /\ lives = 1) => RecoverableKept]_vars

(* main.cc:13-15: the pointer is set up "so both the checkpt service and   *)
(* main can see it.  This allows main to find where the restored objects   *)
(* are after a restore".                                                   *)
RestoreFindsSimulation == \A r \in Rank : pc[r] # "null"

(* A job ends: no rank stops advancing while another waits for it.         *)
JobEnds == ~Over ~> Over
=============================================================================
