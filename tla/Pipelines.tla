----------------------------- MODULE Pipelines ------------------------------
(***************************************************************************)
(* The pthread dispatcher, util/pipelines/pipelines_thread.cc.             *)
(*                                                                         *)
(* One host calls thread_boot, thread_dispatch, thread_wait and            *)
(* thread_halt; each pipeline thread runs pipeline_mgr.  Every thread has  *)
(* a mutex, a condition variable and a state word; the host hands a job to *)
(* a thread by trylocking the mutex and finding the state "sleep", and     *)
(* learns that the job ended from the flag Done[job].                      *)
(*                                                                         *)
(* The caller is arbitrary: between calls ("app") the host may call any    *)
(* function, in any order, and meets the ERROR guards.  The host's         *)
(* critical sections (assign a job, order a termination) are single steps: *)
(* the only words of them read outside the mutex are read by the host.     *)
(***************************************************************************)
EXTENDS Integers

CONSTANTS
  MaxPipeline,    (* MAX_PIPELINE                                          *)
  TppArgs,        (* values of --tpp                                       *)
  DthArgs,        (* values of --dispatch_to_host                          *)
  MaxDispatch     (* bound: dispatches per behaviour                       *)

ASSUME PipelinesAssumption ==
  /\ MaxPipeline \in Nat \ {0}
  /\ TppArgs \subseteq Int
  /\ DthArgs \subseteq Int
  /\ MaxDispatch \in Nat

Slots == 0..(MaxPipeline - 1)

VARIABLES
  n_pipeline,         (* thread.n_pipeline                                 *)
  tpp,                (* the local n_pipeline of thread_boot               *)
  Dispatch_To_Host,
  Id,                 (* the next thread parallel_execute asks             *)
  Busy,
  Done,               (* Done[j]: job j has ended                          *)
  state,              (* Pipeline[t].state                                 *)
  job,                (* Pipeline[t].job (flag is &Done[job])              *)
  args,               (* Pipeline[t].args, named by its dispatch           *)
  tpc,                (* where thread t is in pipeline_mgr                 *)
  hpc, id,            (* where the host is, and its loop variable          *)
  dispatches,         (* number of calls that dispatched: names the args   *)
  runs                (* runs[j]: times job j ran in the latest dispatch   *)

static  == <<n_pipeline, tpp, Dispatch_To_Host>>
control == <<hpc, id>>
task    == <<job, args>>
vars == <<n_pipeline, tpp, Dispatch_To_Host, Id, Busy, Done, state, job, args,
          tpc, hpc, id, dispatches, runs>>

NThread == tpp - Dispatch_To_Host

(* pthread_cond_wait releases the mutex and takes it again on the way out. *)
Holding == {"switch", "run", "flag", "doze", "wait"}
Locked(t) == tpc[t] \in Holding

(* pthread_cond_signal: lost when nobody waits.                            *)
Signalled_Forgotten(t) == tpc
Signalled(t) == IF tpc[t] = "waiting" THEN [tpc EXCEPT ![t] = "woken"] ELSE tpc

Init ==
  /\ n_pipeline = 0 /\ tpp = 0 /\ Dispatch_To_Host = 0
  /\ Id = 0 /\ Busy = FALSE
  /\ Done  = [j \in Slots |-> 0]
  /\ state = [t \in Slots |-> "sleep"]
  /\ job   = [t \in Slots |-> 0]
  /\ args  = [t \in Slots |-> 0]
  /\ tpc   = [t \in Slots |-> "none"]
  /\ hpc = "app" /\ id = 0
  /\ dispatches = 0
  /\ runs = [j \in Slots |-> 0]

-----------------------------------------------------------------------------
(* thread_boot: one thread at a time, each awaited until it sleeps.        *)
FirstId_Kept == Id
FirstId == 0

CallBoot(n, d) ==
  /\ hpc = "app"
  /\ IF n_pipeline # 0 \/ n < 1 \/ n > MaxPipeline
     THEN /\ hpc' = "error"
          /\ UNCHANGED <<tpp, Dispatch_To_Host, Id, Busy, id>>
     ELSE /\ tpp' = n
          /\ Dispatch_To_Host' = d
          /\ Id' = FirstId
          /\ Busy' = FALSE
          /\ hpc' = "create"
          /\ id' = 0
  /\ UNCHANGED <<n_pipeline, Done, state, task, tpc, dispatches, runs>>

CreateThread ==
  /\ hpc = "create"
  /\ id < NThread
  /\ state' = [state EXCEPT ![id] = "ack"]
  /\ tpc' = [tpc EXCEPT ![id] = "start"]
  /\ hpc' = "ack"
  /\ UNCHANGED <<static, Id, Busy, Done, task, id, dispatches, runs>>

SeeAck ==
  /\ hpc = "ack"
  /\ state[id] = "sleep"
  /\ hpc' = "create"
  /\ id' = id + 1
  /\ UNCHANGED <<static, Id, Busy, Done, state, task, tpc, dispatches, runs>>

BootReturn ==
  /\ hpc = "create"
  /\ id >= NThread
  /\ n_pipeline' = tpp
  /\ hpc' = "app"
  /\ UNCHANGED <<tpp, Dispatch_To_Host, Id, Busy, Done, state, task, tpc, id,
                 dispatches, runs>>

-----------------------------------------------------------------------------
(* thread_dispatch                                                         *)
DispatchRefused_NotBusy == n_pipeline = 0
DispatchRefused == n_pipeline = 0 \/ Busy

Cleared_Not(j) == Done
Cleared(j) == [Done EXCEPT ![j] = 0]

CallDispatch ==
  /\ hpc = "app"
  /\ dispatches < MaxDispatch
  /\ IF DispatchRefused
     THEN /\ hpc' = "error"
          /\ UNCHANGED <<Busy, id, dispatches, runs>>
     ELSE /\ Busy' = TRUE
          /\ hpc' = "dispatch"
          /\ id' = 0
          /\ dispatches' = dispatches + 1
          /\ runs' = [j \in Slots |-> 0]
  /\ UNCHANGED <<static, Id, Done, state, task, tpc>>

DispatchJob ==
  /\ hpc = "dispatch"
  /\ id < NThread
  /\ Done' = Cleared(id)
  /\ hpc' = "execute"
  /\ UNCHANGED <<static, Id, Busy, state, task, tpc, id, dispatches, runs>>

NextId_OffByOne == IF Id + 1 > NThread THEN 0 ELSE Id + 1
NextId == IF Id + 1 >= NThread THEN 0 ELSE Id + 1

Available_AnyState(t) == ~Locked(t)
Available(t) == ~Locked(t) /\ state[t] = "sleep"

(* parallel_execute, one turn of its loop: ask thread Id for its mutex.    *)
(* Finding a terminated thread is the ERROR that "should never happen".    *)
ParallelExecute ==
  /\ hpc = "execute"
  /\ Id' = NextId
  /\ IF Available(Id)
     THEN /\ state' = [state EXCEPT ![Id] = "execute"]
          /\ job'   = [job EXCEPT ![Id] = id]
          /\ args'  = [args EXCEPT ![Id] = dispatches]
          /\ tpc'   = Signalled(Id)
          /\ hpc' = "dispatch"
          /\ id' = id + 1
     ELSE /\ hpc' = IF ~Locked(Id) /\ state[Id] = "terminate"
                    THEN "amiss" ELSE "execute"
          /\ UNCHANGED <<state, task, tpc, id>>
  /\ UNCHANGED <<static, Busy, Done, dispatches, runs>>

HostJob ==
  /\ hpc = "dispatch"
  /\ id >= NThread
  /\ IF Dispatch_To_Host # 0
     THEN /\ Done' = Cleared(id)
          /\ hpc' = "hostrun"
     ELSE /\ hpc' = "app"
          /\ UNCHANGED Done
  /\ UNCHANGED <<static, Id, Busy, state, task, tpc, id, dispatches, runs>>

HostRun ==
  /\ hpc = "hostrun"
  /\ runs' = [runs EXCEPT ![id] = @ + 1]
  /\ Done' = [Done EXCEPT ![id] = 1]
  /\ hpc' = "app"
  /\ UNCHANGED <<static, Id, Busy, state, task, tpc, id, dispatches>>

-----------------------------------------------------------------------------
(* thread_wait                                                             *)
CallWait ==
  /\ hpc = "app"
  /\ IF n_pipeline = 0 \/ ~Busy
     THEN hpc' = "error" /\ UNCHANGED id
     ELSE hpc' = "wait" /\ id' = 0
  /\ UNCHANGED <<static, Id, Busy, Done, state, task, tpc, dispatches, runs>>

SeeDone ==
  /\ hpc = "wait"
  /\ id < n_pipeline
  /\ Done[id] = 1
  /\ id' = id + 1
  /\ UNCHANGED <<static, Id, Busy, Done, state, task, tpc, hpc, dispatches, runs>>

WaitReturn ==
  /\ hpc = "wait"
  /\ id >= n_pipeline
  /\ Busy' = FALSE
  /\ hpc' = "app"
  /\ UNCHANGED <<static, Id, Done, state, task, tpc, id, dispatches, runs>>

-----------------------------------------------------------------------------
(* thread_halt: each thread is told to terminate and joined in turn.       *)
CallHalt ==
  /\ hpc = "app"
  /\ IF n_pipeline = 0 \/ Busy
     THEN hpc' = "error" /\ UNCHANGED id
     ELSE hpc' = "halt" /\ id' = 0
  /\ UNCHANGED <<static, Id, Busy, Done, state, task, tpc, dispatches, runs>>

Terminate ==
  /\ hpc = "halt"
  /\ id < NThread
  /\ ~Locked(id)
  /\ state' = [state EXCEPT ![id] = "terminate"]
  /\ tpc' = Signalled(id)
  /\ hpc' = "join"
  /\ UNCHANGED <<static, Id, Busy, Done, task, id, dispatches, runs>>

Joined_AtOnce(t) == TRUE
Joined(t) == tpc[t] = "exited"

Join ==
  /\ hpc = "join"
  /\ Joined(id)
  /\ hpc' = "halt"
  /\ id' = id + 1
  /\ UNCHANGED <<static, Id, Busy, Done, state, task, tpc, dispatches, runs>>

HaltReturn ==
  /\ hpc = "halt"
  /\ id >= NThread
  /\ n_pipeline' = 0
  /\ hpc' = "app"
  /\ UNCHANGED <<tpp, Dispatch_To_Host, Id, Busy, Done, state, task, tpc, id,
                 dispatches, runs>>

(* ERROR aborts the process.                                               *)
Aborted == hpc \in {"error", "amiss"} /\ UNCHANGED vars

-----------------------------------------------------------------------------
(* pipeline_mgr.  The host's critical sections being single steps, a thread *)
(* that wants its mutex (ThreadStart, Relock) finds it free.               *)
Goto(t, from, to) == tpc[t] = from /\ tpc' = [tpc EXCEPT ![t] = to]

ThreadStart(t) ==
  /\ Goto(t, "start", "switch")
  /\ UNCHANGED <<static, Id, Busy, Done, state, task, control, dispatches, runs>>

Switch(t) ==
  /\ Goto(t, "switch", CASE state[t] = "terminate" -> "exited"
                         [] state[t] = "execute"   -> "run"
                         [] OTHER                  -> "doze")
  /\ UNCHANGED <<static, Id, Busy, Done, state, task, control, dispatches, runs>>

RunJob(t) ==
  /\ Goto(t, "run", "flag")
  /\ runs' = [runs EXCEPT ![job[t]] = @ + 1]
  /\ UNCHANGED <<static, Id, Busy, Done, state, task, control, dispatches>>

Flagged_OwnSlot(t) == [Done EXCEPT ![t] = 1]
Flagged(t) == [Done EXCEPT ![job[t]] = 1]

SetFlag(t) ==
  /\ Goto(t, "flag", "doze")
  /\ Done' = Flagged(t)
  /\ UNCHANGED <<static, Id, Busy, state, task, control, dispatches, runs>>

Doze(t) ==
  /\ Goto(t, "doze", "wait")
  /\ state' = [state EXCEPT ![t] = "sleep"]
  /\ UNCHANGED <<static, Id, Busy, Done, task, control, dispatches, runs>>

CondWait(t) ==
  /\ Goto(t, "wait", "waiting")
  /\ UNCHANGED <<static, Id, Busy, Done, state, task, control, dispatches, runs>>

Relock(t) ==
  /\ Goto(t, "woken", "switch")
  /\ UNCHANGED <<static, Id, Busy, Done, state, task, control, dispatches, runs>>

(* pthread_cond_wait may return with no signal.                            *)
SpuriousWake(t) ==
  /\ Goto(t, "waiting", "woken")
  /\ UNCHANGED <<static, Id, Busy, Done, state, task, control, dispatches, runs>>

-----------------------------------------------------------------------------
(* What the application decides, what the host does inside a call, and     *)
(* what a thread does.                                                     *)
Call ==
  \/ \E n \in TppArgs, d \in DthArgs : CallBoot(n, d)
  \/ CallDispatch \/ CallWait \/ CallHalt

HostStep ==
  \/ CreateThread \/ SeeAck \/ BootReturn
  \/ DispatchJob \/ ParallelExecute \/ HostJob \/ HostRun
  \/ SeeDone \/ WaitReturn
  \/ Terminate \/ Join \/ HaltReturn

ThreadStep(t) ==
  \/ ThreadStart(t) \/ Switch(t) \/ RunJob(t) \/ SetFlag(t) \/ Doze(t)
  \/ CondWait(t) \/ Relock(t)

Next ==
  \/ Call \/ HostStep \/ Aborted
  \/ \E t \in Slots : ThreadStep(t) \/ SpuriousWake(t)

Spec == Init /\ [][Next]_vars

(* The operating system schedules the host and every thread, pipelines     *)
(* return (the assumption the dispatcher's notes state) and only finitely  *)
(* many waits return spuriously.  Nothing obliges the application to make  *)
(* a call.                                                                 *)
FairSpec ==
  /\ Spec
  /\ WF_vars(HostStep)
  /\ \A t \in Slots : WF_vars(ThreadStep(t))
  /\ <>[][\A t \in Slots : ~SpuriousWake(t)]_vars

-----------------------------------------------------------------------------
(* Every variable keeps the range its declaration gives it.                *)
TypeOK ==
  /\ n_pipeline \in 0..MaxPipeline
  /\ tpp \in 0..MaxPipeline
  /\ Dispatch_To_Host \in DthArgs \cup {0}
  /\ Id \in Slots
  /\ Busy \in BOOLEAN
  /\ Done \in [Slots -> {0, 1}]
  /\ state \in [Slots -> {"sleep", "execute", "terminate", "ack"}]
  /\ job \in [Slots -> Slots]
  /\ args \in [Slots -> Nat]
  /\ tpc \in [Slots -> Holding \cup {"none", "start", "waiting", "woken", "exited"}]
  /\ hpc \in {"app", "create", "ack", "dispatch", "execute", "hostrun", "wait",
              "halt", "join", "error", "amiss"}
  /\ id \in 0..MaxPipeline
  /\ dispatches \in Nat
  /\ runs \in [Slots -> Nat]

(* "parallel_execute called while thread_halt is running - Should never    *)
(* happen": the host never finds a terminated thread when it hands out a   *)
(* job, whatever was booted and halted before.                             *)
NeverAmiss == hpc # "amiss"

(* When thread_wait has seen the flag of a job, that job of this very      *)
(* dispatch has run, once; so wait returns when all of them have.          *)
WaitMeansDone ==
  hpc = "wait" => \A j \in Slots : j < id => runs[j] = 1

(* A thread executes a job only while the dispatch that passed its         *)
(* arguments is still waited for: they live on the caller's stack.  Two    *)
(* threads never execute the same job, nor one the host has taken.         *)
Executing(t) == tpc[t] = "run"
ArgsAlive ==
  \A t \in Slots : Executing(t) =>
    /\ Busy
    /\ args[t] = dispatches
    /\ runs[job[t]] = 0
    /\ \A u \in Slots \ {t} : Executing(u) => job[u] # job[t]
    /\ hpc = "hostrun" => job[t] # id

(* A wake-up is never lost: a job handed to a thread and not flagged yet   *)
(* belongs to a thread that is awake and will execute it.                  *)
HandedOut(j) ==
  /\ Busy
  /\ j < NThread
  /\ hpc \in {"dispatch", "execute"} => j < id
Assigned(t, j) ==
  /\ state[t] = "execute"
  /\ job[t] = j
  /\ tpc[t] \in {"woken", "switch", "run", "flag"}
NoJobLost ==
  \A j \in Slots : HandedOut(j) /\ Done[j] = 0 => \E t \in Slots : Assigned(t, j)

(* The mutexes are destroyed, and the threads forgotten, only when every   *)
(* thread has left pipeline_mgr; and while the dispatcher is booted and    *)
(* not halting, every thread is there to take a job.                       *)
Present(t) == tpc[t] \notin {"none", "start", "exited"}
ThreadsAccountedFor ==
  \A t \in Slots :
    /\ n_pipeline = 0 /\ hpc = "app" => tpc[t] \in {"none", "exited"}
    /\ n_pipeline # 0 /\ hpc \notin {"halt", "join", "error"} /\ t < NThread => Present(t)

(* Once thread_dispatch has returned, the job of every pipeline has run or *)
(* has a thread that will run it: "the workload given to pipelines         *)
(* 0:n_pipeline-2 on the n_pipeline-1 pipeline threads and the workload    *)
(* given to pipeline n_pipeline-1 on the host thread".                     *)
DispatchReachesEveryPipeline ==
  hpc = "app" /\ Busy =>
    \A j \in Slots : j < n_pipeline =>
      runs[j] = 1 \/ \E t \in Slots : Assigned(t, j)

(* Every call returns (or aborts): boot's spin on the acknowledgement, the *)
(* search for a sleeping thread, wait's spin on the flags, halt's lock and *)
(* join all end.                                                           *)
EveryCallReturns == (hpc # "app") ~> (hpc \in {"app", "error"})

(* The dispatcher implements the fork/join contract: each job of each      *)
(* dispatch begins once and ends once, and wait never returns early.       *)
Running == {job[t] : t \in {u \in Slots : tpc[u] \in {"run", "flag"}}}
             \cup (IF hpc = "hostrun" THEN {id} ELSE {})
Finished == IF Busy THEN {j \in Slots : runs[j] > 0 /\ Done[j] = 1} ELSE {}
FJ == INSTANCE ForkJoin WITH open <- Busy, running <- Running, finished <- Finished
ImplementsForkJoin == FJ!Spec
=============================================================================
