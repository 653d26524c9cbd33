-------------------------- MODULE PipelinesProofs ---------------------------
(***************************************************************************)
(* Proofs about the pthread dispatcher, for every number of pipelines,     *)
(* every command line and every number of dispatches.  All the theorems    *)
(* but the first take --dispatch_to_host to be the boolean its             *)
(* documentation says it is.                                               *)
(***************************************************************************)
EXTENDS Pipelines, TLAPS

BooleanDispatchToHost == DthArgs \subseteq {0, 1}

-----------------------------------------------------------------------------
(* The inductive invariant.                                                *)

(* Where the host is decides what its loop variable and Busy may be.       *)
HostInv ==
  /\ Dispatch_To_Host \in {0, 1}
  /\ n_pipeline \in {0, tpp}
  /\ Busy => n_pipeline # 0
  /\ n_pipeline # 0 /\ NThread > 0 => Id < NThread
  /\ hpc \in {"create", "ack"} => n_pipeline = 0 /\ tpp >= 1 /\ Id = 0
  /\ hpc \in {"dispatch", "execute", "hostrun", "wait"} => Busy
  /\ hpc \in {"halt", "join"} => n_pipeline # 0 /\ ~Busy
  /\ hpc \in {"create", "dispatch", "halt"} => id <= NThread
  /\ hpc \in {"ack", "execute", "join"} => id < NThread
  /\ hpc = "hostrun" => id = NThread /\ Dispatch_To_Host = 1
  /\ hpc = "wait" => id <= n_pipeline
  /\ hpc # "amiss"

(* Which threads exist, as the host counts them.                           *)
Gone(t) == tpc[t] \in {"none", "exited"}
Ready(t) == Present(t) /\ state[t] \in {"sleep", "execute"}
PopulationOK(t) ==
  /\ t >= NThread => Gone(t)
  /\ t < NThread =>
       /\ n_pipeline # 0 /\ hpc \notin {"halt", "join"} => Ready(t)
       /\ n_pipeline = 0 /\ hpc \notin {"create", "ack"} => Gone(t)
       /\ hpc = "create" => IF t < id THEN Ready(t) ELSE Gone(t)
       /\ hpc = "ack"    => /\ t < id => Ready(t)
                            /\ t = id => /\ ~Gone(t)
                                         /\ state[t] = "sleep" => tpc[t] # "start"
                                         /\ state[t] \in {"ack", "sleep"}
                            /\ t > id => Gone(t)
       /\ hpc = "halt"   => IF t < id THEN Gone(t) ELSE Ready(t)
       /\ hpc = "join"   => /\ t < id => Gone(t)
                            /\ t = id => /\ state[t] = "terminate"
                                         /\ tpc[t] \in {"woken", "switch", "exited"}
                            /\ t > id => Ready(t)
PopulationInv == \A t \in Slots : PopulationOK(t)

(* What a thread's position says of its state word.                        *)
ThreadOK(t) ==
  /\ tpc[t] = "start" => state[t] = "ack"
  /\ tpc[t] \in {"run", "flag"} => state[t] = "execute"
  /\ tpc[t] = "doze" => state[t] # "terminate"
  /\ tpc[t] \in {"wait", "waiting"} => state[t] = "sleep"
  /\ tpc[t] = "woken" => state[t] # "ack"
ThreadInv == \A t \in Slots : ThreadOK(t)

(* A job that has been handed out and has not been flagged.                *)
Pending(t) == Assigned(t, job[t])
PendingOK(t) ==
  Pending(t) =>
    /\ HandedOut(job[t])
    /\ args[t] = dispatches
    /\ Done[job[t]] = 0
    /\ runs[job[t]] = IF tpc[t] = "flag" THEN 1 ELSE 0
PendingInv == \A t \in Slots : PendingOK(t)
DistinctInv ==
  \A t, u \in Slots : t # u /\ Pending(t) /\ Pending(u) => job[u] # job[t]

(* What the flags say of the jobs of the open dispatch.                    *)
Dispatching == hpc \in {"dispatch", "execute", "hostrun"}
DoneOK(j) ==
  /\ HandedOut(j) /\ Done[j] = 1 => runs[j] = 1
  /\ Busy /\ ~HandedOut(j) /\ (j # NThread \/ Dispatching \/ Dispatch_To_Host = 0)
       => runs[j] = 0
  /\ Busy /\ j = NThread /\ Dispatch_To_Host = 1 /\ ~Dispatching
       => Done[j] = 1 /\ runs[j] = 1
  /\ hpc \in {"execute", "hostrun"} /\ j = id => Done[j] = 0
  /\ hpc = "wait" /\ j < id => Done[j] = 1
DoneInv == \A j \in Slots : DoneOK(j)

IInv ==
  /\ TypeOK /\ HostInv /\ PopulationInv /\ ThreadInv
  /\ PendingInv /\ DistinctInv /\ DoneInv /\ NoJobLost

-----------------------------------------------------------------------------
USE PipelinesAssumption DEF PipelinesAssumption, Slots

(* The counters are numbers within the bounds of the arrays they index.    *)
LEMMA Numbers ==
  ASSUME TypeOK, HostInv
  PROVE  /\ tpp \in Nat /\ n_pipeline \in Nat /\ id \in Nat /\ Id \in Nat
         /\ NThread \in Int /\ NThread <= MaxPipeline
         /\ NThread = tpp \/ NThread = tpp - 1
         /\ tpp <= MaxPipeline /\ n_pipeline <= MaxPipeline
<1>1. /\ tpp \in Nat /\ n_pipeline \in Nat /\ id \in Nat /\ Id \in Nat
      /\ tpp <= MaxPipeline /\ n_pipeline <= MaxPipeline
  BY DEF TypeOK
<1>2. NThread = tpp \/ NThread = tpp - 1
  BY <1>1 DEF HostInv, NThread
<1>3. QED
  BY <1>1, <1>2

(* A host step that moves no thread, touches no flag and hands out no job  *)
(* keeps everything said of threads and of pending jobs.                   *)
LEMMA QuietHost ==
  ASSUME IInv,
         UNCHANGED <<state, job, args, tpc, Done, runs, dispatches>>,
         \A j \in Slots : HandedOut(j)' <=> HandedOut(j)
  PROVE  ThreadInv' /\ PendingInv' /\ DistinctInv' /\ NoJobLost'
<1>1. ThreadInv'
  BY DEF IInv, ThreadInv, ThreadOK
<1>2. \A u \in Slots : (Pending(u)' <=> Pending(u)) /\ job[u] \in Slots
  BY DEF IInv, TypeOK, Pending, Assigned
<1>3. PendingInv'
  BY <1>2 DEF IInv, PendingInv, PendingOK
<1>4. DistinctInv'
  BY <1>2 DEF IInv, DistinctInv
<1>5. NoJobLost'
  <2>1. \A u, j \in Slots : Assigned(u, j)' <=> Assigned(u, j)
    BY DEF Assigned
  <2>2. QED
    BY <2>1 DEF IInv, NoJobLost
<1>6. QED
  BY <1>1, <1>3, <1>4, <1>5

(* A thread step that does not change whether its job is pending, nor      *)
(* whether it has run, keeps everything said of jobs.                      *)
LEMMA QuietThread ==
  ASSUME IInv, NEW t \in Slots,
         UNCHANGED <<n_pipeline, tpp, Dispatch_To_Host, Busy, hpc, id>>,
         UNCHANGED <<job, args, Done, runs, dispatches>>,
         \A u \in Slots \ {t} : tpc'[u] = tpc[u] /\ state'[u] = state[u],
         Pending(t)' <=> Pending(t),
         Pending(t) => ((tpc[t] = "flag")' <=> tpc[t] = "flag")
  PROVE  PendingInv' /\ DistinctInv' /\ DoneInv' /\ NoJobLost'
<1>1. \A u \in Slots : (Pending(u)' <=> Pending(u)) /\ job[u] \in Slots
  BY DEF IInv, TypeOK, Pending, Assigned
<1>2. \A j \in Slots : HandedOut(j)' <=> HandedOut(j)
  BY DEF HandedOut, NThread
<1>3. PendingInv'
  <2> SUFFICES ASSUME NEW u \in Slots, Pending(u) PROVE PendingOK(u)'
    BY <1>1 DEF PendingInv, PendingOK
  <2>1. PendingOK(u) BY DEF IInv, PendingInv
  <2>2. (tpc[u] = "flag")' <=> tpc[u] = "flag" OBVIOUS
  <2>3. QED BY <1>1, <1>2, <2>1, <2>2 DEF PendingOK
<1>4. DistinctInv'
  BY <1>1 DEF IInv, DistinctInv
<1>5. DoneInv'
  BY <1>2 DEF IInv, DoneInv, DoneOK, NThread, Dispatching
<1>6. NoJobLost'
  <2> SUFFICES ASSUME NEW j \in Slots, HandedOut(j), Done[j] = 0
               PROVE  \E u \in Slots : Assigned(u, j)'
    BY <1>2 DEF NoJobLost
  <2>1. PICK u \in Slots : Assigned(u, j) BY DEF IInv, NoJobLost
  <2>2. Pending(u) /\ job[u] = j BY <2>1 DEF Pending, Assigned
  <2>3. Assigned(u, j)' BY <1>1, <2>2 DEF Pending
  <2>4. QED BY <2>3
<1>7. QED
  BY <1>3, <1>4, <1>5, <1>6

-----------------------------------------------------------------------------
(* thread_boot                                                             *)
LEMMA CallBootKeeps ==
  ASSUME IInv, BooleanDispatchToHost, NEW n \in TppArgs, NEW d \in DthArgs, CallBoot(n, d)
  PROVE  IInv'
<1> USE DEF CallBoot, task
<1>1. CASE n_pipeline # 0 \/ n < 1 \/ n > MaxPipeline
  <2>1. /\ hpc = "app" /\ hpc' = "error"
        /\ UNCHANGED <<n_pipeline, tpp, Dispatch_To_Host, Id, Busy, id, Done, state,
                       job, args, tpc, dispatches, runs>>
    BY <1>1
  <2> HIDE DEF CallBoot
  <2>2. TypeOK' BY <2>1 DEF IInv, TypeOK
  <2>3. HostInv' BY <2>1 DEF IInv, HostInv, NThread
  <2>4. PopulationInv'
    BY <2>1 DEF IInv, PopulationInv, PopulationOK, NThread, Gone, Ready, Present
  <2>5. \A j \in Slots : HandedOut(j)' <=> HandedOut(j)
    BY <2>1 DEF HandedOut, NThread
  <2>6. ThreadInv' /\ PendingInv' /\ DistinctInv' /\ NoJobLost'
    BY <2>1, <2>5, QuietHost
  <2>7. DoneInv'
    BY <2>1, <2>5 DEF IInv, DoneInv, DoneOK, NThread, Dispatching
  <2>8. QED BY <2>2, <2>3, <2>4, <2>6, <2>7 DEF IInv
<1>2. CASE ~(n_pipeline # 0 \/ n < 1 \/ n > MaxPipeline)
  <2>1. n \in 1..MaxPipeline /\ d \in {0, 1}
    BY <1>2 DEF BooleanDispatchToHost
  <2>2. /\ hpc = "app" /\ n_pipeline = 0 /\ ~Busy
        /\ tpp' = n /\ Dispatch_To_Host' = d /\ Id' = 0 /\ Busy' = FALSE
        /\ hpc' = "create" /\ id' = 0
        /\ UNCHANGED <<n_pipeline, Done, state, job, args, tpc, dispatches, runs>>
    BY <1>2 DEF IInv, HostInv, FirstId
  <2> HIDE DEF CallBoot
  <2>3. TypeOK'
    <3>1. /\ (tpp \in 0..MaxPipeline)' /\ (Id \in Slots)' /\ (id \in 0..MaxPipeline)'
          /\ (Dispatch_To_Host \in DthArgs \cup {0})'
      BY <2>1, <2>2
    <3>2. QED BY <2>2, <3>1 DEF IInv, TypeOK
  <2>4. HostInv'
    <3>1. NThread' = n - d BY <2>2 DEF NThread
    <3>2. QED BY <2>1, <2>2, <3>1 DEF IInv, HostInv
  <2>5. \A u \in Slots : Gone(u)
    BY <2>2 DEF IInv, PopulationInv, PopulationOK, NThread, TypeOK
  <2>6. PopulationInv'
    BY <2>2, <2>5 DEF PopulationInv, PopulationOK, Gone
  <2>7. \A j \in Slots : HandedOut(j)' <=> HandedOut(j)
    BY <2>2 DEF HandedOut
  <2>8. ThreadInv' /\ PendingInv' /\ DistinctInv' /\ NoJobLost'
    BY <2>2, <2>7, QuietHost
  <2>9. DoneInv'
    BY <2>2, <2>7 DEF DoneInv, DoneOK, HandedOut
  <2>10. QED BY <2>3, <2>4, <2>6, <2>8, <2>9 DEF IInv
<1>3. QED
  BY <1>1, <1>2

(* thread_boot creates a thread.                                           *)
LEMMA CreateThreadKeeps ==
  ASSUME IInv, CreateThread
  PROVE  IInv'
<1> USE DEF CreateThread, static, task
<1>1. TypeOK'
  BY DEF IInv, TypeOK
<1>2. HostInv'
  BY DEF IInv, HostInv, NThread
<1>3. id \in Slots /\ NThread \in Int /\ ~Busy
  BY Numbers DEF IInv, HostInv
<1>4. \A u \in Slots : /\ tpc'[u] = IF u = id THEN "start" ELSE tpc[u]
                       /\ state'[u] = IF u = id THEN "ack" ELSE state[u]
  BY DEF IInv, TypeOK
<1>5. \A u \in Slots : ~Pending(u) /\ ~Pending(u)'
  <2>1. \A u \in Slots : ~Pending(u)
    BY <1>3 DEF IInv, PendingInv, PendingOK, HandedOut
  <2>2. QED BY <1>4, <2>1 DEF Pending, Assigned
<1>6. PopulationInv'
  <2> SUFFICES ASSUME NEW u \in Slots PROVE PopulationOK(u)'
    BY DEF PopulationInv
  <2>1. PopulationOK(u) BY DEF IInv, PopulationInv
  <2>2. NThread' = NThread /\ n_pipeline = 0
    BY DEF IInv, HostInv, NThread
  <2>3. QED BY <1>3, <1>4, <2>1, <2>2 DEF PopulationOK, Gone, Ready, Present
<1>7. ThreadInv'
  BY <1>4 DEF IInv, ThreadInv, ThreadOK
<1>8. PendingInv' /\ DistinctInv'
  BY <1>5 DEF PendingInv, PendingOK, DistinctInv
<1>9. DoneInv' /\ NoJobLost'
  BY <1>3 DEF DoneInv, DoneOK, HandedOut, NoJobLost
<1>10. QED
  BY <1>1, <1>2, <1>6, <1>7, <1>8, <1>9 DEF IInv

(* thread_boot sees that the thread it created is up.                      *)
LEMMA SeeAckKeeps ==
  ASSUME IInv, SeeAck
  PROVE  IInv'
<1> USE DEF SeeAck, static, task
<1>1. /\ id \in Nat /\ NThread \in Int /\ NThread <= MaxPipeline /\ ~Busy
      /\ id < NThread /\ id' = id + 1 /\ NThread' = NThread /\ n_pipeline = 0
  BY Numbers DEF IInv, HostInv, NThread
<1>2. TypeOK'
  <2>1. id' \in 0..MaxPipeline BY <1>1
  <2>2. QED BY <2>1 DEF IInv, TypeOK
<1>3. HostInv'
  BY <1>1 DEF IInv, HostInv
<1>4. PopulationInv'
  <2> SUFFICES ASSUME NEW u \in Slots PROVE PopulationOK(u)'
    BY DEF PopulationInv
  <2>1. PopulationOK(u) /\ ThreadOK(u)
    BY DEF IInv, PopulationInv, ThreadInv
  <2>2. QED BY <1>1, <2>1 DEF PopulationOK, ThreadOK, Gone, Ready, Present
<1>5. \A j \in Slots : HandedOut(j)' <=> HandedOut(j)
  BY <1>1 DEF HandedOut
<1>6. ThreadInv' /\ PendingInv' /\ DistinctInv' /\ NoJobLost'
  BY <1>5, QuietHost
<1>7. DoneInv'
  BY <1>1 DEF DoneInv, DoneOK, HandedOut
<1>8. QED
  BY <1>2, <1>3, <1>4, <1>6, <1>7 DEF IInv

(* thread_boot returns.                                                    *)
LEMMA BootReturnKeeps ==
  ASSUME IInv, BootReturn
  PROVE  IInv'
<1> USE DEF BootReturn, task
<1>1. /\ id \in Nat /\ NThread \in Int /\ ~Busy /\ NThread' = NThread
      /\ tpp \in 1..MaxPipeline /\ id = NThread /\ Id = 0
  BY Numbers DEF IInv, HostInv, NThread
<1>2. TypeOK'
  BY <1>1 DEF IInv, TypeOK
<1>3. HostInv'
  BY <1>1 DEF IInv, HostInv
<1>4. PopulationInv'
  <2> SUFFICES ASSUME NEW u \in Slots PROVE PopulationOK(u)'
    BY DEF PopulationInv
  <2>1. PopulationOK(u)
    BY DEF IInv, PopulationInv
  <2>2. QED BY <1>1, <2>1 DEF PopulationOK, Gone, Ready, Present
<1>5. \A j \in Slots : HandedOut(j)' <=> HandedOut(j)
  BY <1>1 DEF HandedOut
<1>6. ThreadInv' /\ PendingInv' /\ DistinctInv' /\ NoJobLost'
  BY <1>5, QuietHost
<1>7. DoneInv'
  BY <1>1 DEF DoneInv, DoneOK, HandedOut
<1>8. QED
  BY <1>2, <1>3, <1>4, <1>6, <1>7 DEF IInv

-----------------------------------------------------------------------------
(* thread_dispatch                                                         *)
LEMMA CallDispatchKeeps ==
  ASSUME IInv, CallDispatch
  PROVE  IInv'
<1> USE DEF CallDispatch, DispatchRefused, static, task
<1>1. CASE DispatchRefused
  <2>1. /\ hpc = "app" /\ hpc' = "error"
        /\ UNCHANGED <<n_pipeline, tpp, Dispatch_To_Host, Id, Busy, id, Done, state,
                       job, args, tpc, dispatches, runs>>
    BY <1>1
  <2> HIDE DEF CallDispatch
  <2>2. TypeOK' BY <2>1 DEF IInv, TypeOK
  <2>3. HostInv' BY <2>1 DEF IInv, HostInv, NThread
  <2>4. PopulationInv'
    BY <2>1 DEF IInv, PopulationInv, PopulationOK, NThread, Gone, Ready, Present
  <2>5. \A j \in Slots : HandedOut(j)' <=> HandedOut(j)
    BY <2>1 DEF HandedOut, NThread
  <2>6. ThreadInv' /\ PendingInv' /\ DistinctInv' /\ NoJobLost'
    BY <2>1, <2>5, QuietHost
  <2>7. DoneInv'
    BY <2>1, <2>5 DEF IInv, DoneInv, DoneOK, NThread, Dispatching
  <2>8. QED BY <2>2, <2>3, <2>4, <2>6, <2>7 DEF IInv
<1>2. CASE ~DispatchRefused
  <2>1. /\ hpc = "app" /\ n_pipeline # 0 /\ ~Busy
        /\ Busy' = TRUE /\ hpc' = "dispatch" /\ id' = 0
        /\ dispatches' = dispatches + 1
        /\ runs' = [j \in Slots |-> 0]
        /\ UNCHANGED <<n_pipeline, tpp, Dispatch_To_Host, Id, Done, state, job, args, tpc>>
    BY <1>2
  <2> HIDE DEF CallDispatch
  <2>2. NThread' = NThread /\ NThread \in Int /\ 0 <= NThread /\ tpp = n_pipeline
    BY <2>1, Numbers DEF IInv, HostInv, NThread
  <2>3. TypeOK'
    <3>1. (id \in 0..MaxPipeline)' /\ (dispatches \in Nat)' /\ (runs \in [Slots -> Nat])'
      BY <2>1 DEF IInv, TypeOK
    <3>2. QED BY <2>1, <3>1 DEF IInv, TypeOK
  <2>4. HostInv' BY <2>1, <2>2 DEF IInv, HostInv
  <2>5. PopulationInv'
    BY <2>1, <2>2 DEF IInv, PopulationInv, PopulationOK, Gone, Ready, Present
  <2>6. ThreadInv' BY <2>1 DEF IInv, ThreadInv, ThreadOK
  <2>7. \A u \in Slots : ~Pending(u)'
    <3>1. \A u \in Slots : ~Pending(u)
      BY <2>1 DEF IInv, PendingInv, PendingOK, HandedOut
    <3>2. QED BY <2>1, <3>1 DEF Pending, Assigned
  <2>8. PendingInv' /\ DistinctInv' BY <2>7 DEF PendingInv, PendingOK, DistinctInv
  <2>9. \A j \in Slots : ~HandedOut(j)' BY <2>1 DEF HandedOut
  <2>10. DoneInv' /\ NoJobLost'
    BY <2>1, <2>9 DEF DoneInv, DoneOK, NoJobLost, Dispatching
  <2>11. QED BY <2>3, <2>4, <2>5, <2>6, <2>8, <2>10 DEF IInv
<1>3. QED
  BY <1>1, <1>2

(* thread_dispatch has the next job to hand out.                           *)
LEMMA DispatchJobKeeps ==
  ASSUME IInv, DispatchJob
  PROVE  IInv'
<1> USE DEF DispatchJob, Cleared, static, task
<1>1. /\ id \in Slots /\ NThread \in Int /\ Busy /\ NThread' = NThread
  BY Numbers DEF IInv, HostInv, NThread
<1>2. \A j \in Slots : Done'[j] = IF j = id THEN 0 ELSE Done[j]
  BY DEF IInv, TypeOK
<1>3. TypeOK' BY DEF IInv, TypeOK
<1>4. HostInv' BY <1>1 DEF IInv, HostInv
<1>5. PopulationInv'
  BY <1>1 DEF IInv, PopulationInv, PopulationOK, Gone, Ready, Present
<1>6. ThreadInv' BY DEF IInv, ThreadInv, ThreadOK
<1>7. \A j \in Slots : HandedOut(j)' <=> HandedOut(j)
  BY <1>1 DEF HandedOut
<1>8. ~HandedOut(id) BY <1>1 DEF HandedOut
<1>9. \A u \in Slots : (Pending(u)' <=> Pending(u)) /\ job[u] \in Slots
  BY DEF IInv, TypeOK, Pending, Assigned
<1>10. PendingInv'
  BY <1>2, <1>7, <1>8, <1>9 DEF IInv, PendingInv, PendingOK
<1>11. DistinctInv' BY <1>9 DEF IInv, DistinctInv
<1>12. DoneInv'
  <2> SUFFICES ASSUME NEW j \in Slots PROVE DoneOK(j)'
    BY DEF DoneInv
  <2>1. DoneOK(j) BY DEF IInv, DoneInv
  <2>2. QED BY <1>1, <1>2, <1>7, <1>8, <2>1 DEF DoneOK, Dispatching
<1>13. NoJobLost'
  <2> SUFFICES ASSUME NEW j \in Slots, HandedOut(j), Done[j] = 0
               PROVE  \E u \in Slots : Assigned(u, j)'
    BY <1>2, <1>7, <1>8 DEF NoJobLost
  <2>1. QED BY DEF IInv, NoJobLost, Assigned
<1>14. QED
  BY <1>3, <1>4, <1>5, <1>6, <1>10, <1>11, <1>12, <1>13 DEF IInv

(* parallel_execute wakes a thread for a job.                              *)
LEMMA ParallelExecuteKeeps ==
  ASSUME IInv, ParallelExecute
  PROVE  IInv'
<1> USE DEF ParallelExecute, static, task
<1>1. /\ id \in Nat /\ id < NThread /\ NThread \in Int /\ NThread <= MaxPipeline
      /\ n_pipeline # 0 /\ n_pipeline = tpp /\ Busy /\ Id \in Nat /\ Id < NThread
      /\ NThread' = NThread /\ hpc = "execute"
  BY Numbers DEF IInv, HostInv, NThread
<1>2. Id \in Slots /\ id \in Slots /\ Id' \in Nat /\ Id' < NThread
  BY <1>1 DEF NextId
<1>3. Ready(Id) /\ ThreadOK(Id)
  BY <1>1, <1>2 DEF IInv, PopulationInv, PopulationOK, ThreadInv
<1>4. CASE Available(Id)
  <2>1. tpc[Id] \in {"waiting", "woken"} /\ state[Id] = "sleep"
    BY <1>2, <1>3, <1>4 DEF Available, Locked, Holding, Ready, Present, IInv, TypeOK
  <2>2. \A u \in Slots : /\ tpc'[u] = IF u = Id THEN "woken" ELSE tpc[u]
                         /\ state'[u] = IF u = Id THEN "execute" ELSE state[u]
                         /\ job'[u] = IF u = Id THEN id ELSE job[u]
                         /\ args'[u] = IF u = Id THEN dispatches ELSE args[u]
    BY <1>2, <1>4, <2>1 DEF Signalled, IInv, TypeOK
  <2>3. hpc' = "dispatch" /\ id' = id + 1
        /\ UNCHANGED <<n_pipeline, tpp, Dispatch_To_Host, Busy, Done, dispatches, runs>>
    BY <1>4
  <2>4. TypeOK'
    <3>1. (id \in 0..MaxPipeline)' /\ (Id \in Slots)'
      BY <1>1, <1>2, <2>3
    <3>2. /\ (state \in [Slots -> {"sleep", "execute", "terminate", "ack"}])'
          /\ (job \in [Slots -> Slots])' /\ (args \in [Slots -> Nat])'
      BY <1>2, <1>4 DEF IInv, TypeOK
    <3>3. (tpc \in [Slots -> Holding \cup {"none", "start", "waiting", "woken", "exited"}])'
      BY <1>2, <1>4 DEF IInv, TypeOK, Signalled
    <3> HIDE DEF ParallelExecute
    <3>4. QED BY <2>3, <3>1, <3>2, <3>3 DEF IInv, TypeOK
  <2> HIDE DEF ParallelExecute
  <2>5. HostInv' BY <1>1, <1>2, <2>3 DEF IInv, HostInv
  <2>6. PopulationInv'
    <3> SUFFICES ASSUME NEW u \in Slots PROVE PopulationOK(u)'
      BY DEF PopulationInv
    <3>1. PopulationOK(u) BY DEF IInv, PopulationInv
    <3>2. QED BY <1>1, <1>2, <2>2, <2>3, <3>1 DEF PopulationOK, Gone, Ready, Present
  <2>7. ThreadInv' BY <2>2 DEF IInv, ThreadInv, ThreadOK
  <2>8. \A j \in Slots : HandedOut(j)' <=> (HandedOut(j) \/ j = id)
    BY <1>1, <1>2, <2>3 DEF HandedOut
  <2>9. \A u \in Slots : Pending(u)' <=> (Pending(u) \/ u = Id)
    BY <2>1, <2>2 DEF Pending, Assigned, IInv, TypeOK
  <2>10. ~Pending(Id) /\ \A u \in Slots : Pending(u) => job[u] < id /\ job[u] \in Slots
    BY <1>1, <2>1 DEF Pending, Assigned, IInv, TypeOK, PendingInv, PendingOK, HandedOut
  <2>11. Done[id] = 0 /\ runs[id] = 0
    BY <1>1, <1>2 DEF IInv, DoneInv, DoneOK, HandedOut, Dispatching
  <2>12. PendingInv'
    <3> SUFFICES ASSUME NEW u \in Slots, Pending(u)' PROVE PendingOK(u)'
      BY DEF PendingInv, PendingOK
    <3>1. CASE u = Id
      BY <1>2, <2>2, <2>3, <2>8, <2>11, <3>1 DEF PendingOK
    <3>2. CASE u # Id
      <4>1. Pending(u) /\ PendingOK(u) BY <2>9, <3>2 DEF IInv, PendingInv
      <4>2. job[u] \in Slots BY <2>10, <4>1
      <4>3. QED BY <2>2, <2>3, <2>8, <3>2, <4>1, <4>2 DEF PendingOK
    <3>3. QED BY <3>1, <3>2
  <2>13. DistinctInv'
    <3> SUFFICES ASSUME NEW u \in Slots, NEW v \in Slots, u # v, Pending(u)', Pending(v)'
                 PROVE  job'[v] # job'[u]
      BY DEF DistinctInv
    <3>1. CASE u = Id \/ v = Id
      BY <1>2, <2>2, <2>9, <2>10, <3>1
    <3>2. CASE u # Id /\ v # Id
      BY <2>2, <2>9, <3>2 DEF IInv, DistinctInv
    <3>3. QED BY <3>1, <3>2
  <2>14. DoneInv'
    <3> SUFFICES ASSUME NEW j \in Slots PROVE DoneOK(j)'
      BY DEF DoneInv
    <3>1. DoneOK(j) BY DEF IInv, DoneInv
    <3>2. QED BY <1>1, <2>3, <2>8, <2>11, <3>1 DEF DoneOK, Dispatching
  <2>15. NoJobLost'
    <3> SUFFICES ASSUME NEW j \in Slots, HandedOut(j)', Done[j] = 0
                 PROVE  \E u \in Slots : Assigned(u, j)'
      BY <2>3 DEF NoJobLost
    <3>1. CASE j = id
      BY <1>2, <2>2, <3>1 DEF Assigned
    <3>2. CASE j # id
      <4>1. PICK u \in Slots : Assigned(u, j)
        BY <2>8, <3>2 DEF IInv, NoJobLost
      <4>2. u # Id BY <2>1, <4>1 DEF Assigned
      <4>3. Assigned(u, j)' BY <2>2, <4>1, <4>2 DEF Assigned
      <4>4. QED BY <4>3
    <3>3. QED BY <3>1, <3>2
  <2>16. QED
    BY <2>4, <2>5, <2>6, <2>7, <2>12, <2>13, <2>14, <2>15 DEF IInv
<1>5. CASE ~Available(Id)
  <2>1. state[Id] # "terminate"
    BY <1>3 DEF Ready
  <2>2. hpc' = "execute" /\ UNCHANGED <<n_pipeline, tpp, Dispatch_To_Host, Busy, Done,
            state, job, args, tpc, id, dispatches, runs>>
    BY <1>5, <2>1
  <2> HIDE DEF ParallelExecute
  <2>3. TypeOK'
    <3>1. Id' \in Slots BY <1>1, <1>2
    <3>2. QED BY <2>2, <3>1, <1>1 DEF IInv, TypeOK
  <2>4. HostInv' BY <1>1, <1>2, <2>2 DEF IInv, HostInv
  <2>5. PopulationInv'
    BY <1>1, <2>2 DEF IInv, PopulationInv, PopulationOK, Gone, Ready, Present
  <2>6. \A j \in Slots : HandedOut(j)' <=> HandedOut(j)
    BY <1>1, <2>2 DEF HandedOut
  <2>7. ThreadInv' /\ PendingInv' /\ DistinctInv' /\ NoJobLost'
    BY <2>2, <2>6, QuietHost
  <2>8. DoneInv'
    BY <1>1, <2>2, <2>6 DEF IInv, DoneInv, DoneOK, Dispatching
  <2>9. QED BY <2>3, <2>4, <2>5, <2>7, <2>8 DEF IInv
<1>6. QED
  BY <1>4, <1>5

(* thread_dispatch comes to the job that is left for the host.             *)
LEMMA HostJobKeeps ==
  ASSUME IInv, HostJob
  PROVE  IInv'
<1> USE DEF HostJob, Cleared, static, task
<1>1. /\ NThread \in Int /\ NThread <= MaxPipeline /\ NThread' = NThread /\ id = NThread
      /\ n_pipeline # 0 /\ Busy /\ id' = id /\ hpc = "dispatch" /\ id \in Nat
      /\ tpp = n_pipeline /\ tpp \in Nat /\ tpp <= MaxPipeline
  BY Numbers DEF IInv, HostInv, NThread
<1>2. /\ hpc' = IF Dispatch_To_Host = 1 THEN "hostrun" ELSE "app"
      /\ Dispatch_To_Host = 1 => id \in Slots
      /\ Dispatch_To_Host \in {0, 1}
  BY <1>1 DEF IInv, HostInv, NThread
<1>3. /\ Done' \in [Slots -> {0, 1}]
      /\ \A j \in Slots : Done'[j] = IF j = id /\ Dispatch_To_Host = 1 THEN 0 ELSE Done[j]
  BY <1>2 DEF IInv, HostInv, TypeOK
<1>4. UNCHANGED <<n_pipeline, tpp, Dispatch_To_Host, Id, Busy, state, job, args, tpc, id,
                  dispatches, runs>>
  OBVIOUS
<1> HIDE DEF HostJob
<1>5. TypeOK' BY <1>2, <1>3, <1>4 DEF IInv, TypeOK
<1>6. HostInv' BY <1>1, <1>2, <1>4 DEF IInv, HostInv
<1>7. PopulationInv'
  BY <1>1, <1>2, <1>4 DEF IInv, PopulationInv, PopulationOK, Gone, Ready, Present
<1>8. ThreadInv' BY <1>4 DEF IInv, ThreadInv, ThreadOK
<1>9. \A j \in Slots : HandedOut(j)' <=> HandedOut(j)
  BY <1>1, <1>2, <1>4 DEF HandedOut
<1>10. \A u \in Slots : (Pending(u)' <=> Pending(u)) /\ job[u] \in Slots
  BY <1>4 DEF IInv, TypeOK, Pending, Assigned
<1>11. PendingInv'
  <2> SUFFICES ASSUME NEW u \in Slots, Pending(u) PROVE PendingOK(u)'
    BY <1>10 DEF PendingInv, PendingOK
  <2>1. PendingOK(u) BY DEF IInv, PendingInv
  <2>2. job[u] # id BY <1>1, <2>1 DEF PendingOK, HandedOut
  <2>3. QED BY <1>3, <1>4, <1>9, <1>10, <2>1, <2>2 DEF PendingOK
<1>12. DistinctInv' BY <1>4, <1>10 DEF IInv, DistinctInv
<1>13. DoneInv'
  <2> SUFFICES ASSUME NEW j \in Slots PROVE DoneOK(j)'
    BY DEF DoneInv
  <2>1. DoneOK(j) BY DEF IInv, DoneInv
  <2>2. HandedOut(j) <=> j < NThread BY <1>1 DEF HandedOut
  <2>3. QED BY <1>1, <1>2, <1>3, <1>4, <1>9, <2>1, <2>2 DEF DoneOK, Dispatching
<1>14. NoJobLost'
  <2> SUFFICES ASSUME NEW j \in Slots, HandedOut(j), Done'[j] = 0
               PROVE  \E u \in Slots : Assigned(u, j)'
    BY <1>9 DEF NoJobLost
  <2>1. Done[j] = 0 BY <1>1, <1>3 DEF HandedOut
  <2>2. QED BY <1>4, <2>1 DEF IInv, NoJobLost, Assigned
<1>15. QED
  BY <1>5, <1>6, <1>7, <1>8, <1>11, <1>12, <1>13, <1>14 DEF IInv

(* The host runs it.                                                       *)
LEMMA HostRunKeeps ==
  ASSUME IInv, HostRun
  PROVE  IInv'
<1> USE DEF HostRun, static, task
<1>1. /\ NThread \in Int /\ NThread' = NThread /\ id = NThread /\ Dispatch_To_Host = 1
      /\ n_pipeline # 0 /\ Busy /\ id \in Slots /\ hpc = "hostrun" /\ hpc' = "app"
  BY Numbers DEF IInv, HostInv, NThread
<1>2. /\ Done' \in [Slots -> {0, 1}] /\ runs' \in [Slots -> Nat]
      /\ \A j \in Slots : Done'[j] = IF j = id THEN 1 ELSE Done[j]
      /\ \A j \in Slots : runs'[j] = IF j = id THEN runs[j] + 1 ELSE runs[j]
  <2>1. Done \in [Slots -> {0, 1}] /\ runs \in [Slots -> Nat]
    BY DEF IInv, TypeOK
  <2>2. Done' = [Done EXCEPT ![id] = 1] /\ runs' = [runs EXCEPT ![id] = @ + 1]
    OBVIOUS
  <2>3. runs[id] + 1 \in Nat
    BY <1>1, <2>1
  <2> HIDE DEF HostRun
  <2>4. QED
    BY <1>1, <2>1, <2>2, <2>3
<1>3. UNCHANGED <<n_pipeline, tpp, Dispatch_To_Host, Id, Busy, state, job, args, tpc, id,
                  dispatches>>
  OBVIOUS
<1> HIDE DEF HostRun
<1>4. TypeOK' BY <1>1, <1>2, <1>3 DEF IInv, TypeOK
<1>5. HostInv' BY <1>1, <1>3 DEF IInv, HostInv
<1>6. PopulationInv'
  BY <1>1, <1>3 DEF IInv, PopulationInv, PopulationOK, Gone, Ready, Present
<1>7. ThreadInv' BY <1>3 DEF IInv, ThreadInv, ThreadOK
<1>8. \A j \in Slots : (HandedOut(j)' <=> HandedOut(j)) /\ (HandedOut(j) <=> j < NThread)
  BY <1>1, <1>3 DEF HandedOut
<1>9. \A u \in Slots : (Pending(u)' <=> Pending(u)) /\ job[u] \in Slots
  BY <1>3 DEF IInv, TypeOK, Pending, Assigned
<1>10. PendingInv'
  <2> SUFFICES ASSUME NEW u \in Slots, Pending(u) PROVE PendingOK(u)'
    BY <1>9 DEF PendingInv, PendingOK
  <2>1. PendingOK(u) /\ job[u] # id
    BY <1>1, <1>8, <1>9 DEF IInv, PendingInv, PendingOK
  <2>2. QED BY <1>2, <1>3, <1>8, <1>9, <2>1 DEF PendingOK
<1>11. DistinctInv' BY <1>3, <1>9 DEF IInv, DistinctInv
<1>12. DoneInv'
  <2> SUFFICES ASSUME NEW j \in Slots PROVE DoneOK(j)'
    BY DEF DoneInv
  <2>1. DoneOK(j) BY DEF IInv, DoneInv
  <2>2. QED BY <1>1, <1>2, <1>3, <1>8, <2>1 DEF DoneOK, Dispatching
<1>13. NoJobLost'
  BY <1>1, <1>2, <1>3, <1>8 DEF IInv, NoJobLost, Assigned
<1>14. QED
  BY <1>4, <1>5, <1>6, <1>7, <1>10, <1>11, <1>12, <1>13 DEF IInv

-----------------------------------------------------------------------------
(* thread_wait                                                             *)
LEMMA CallWaitKeeps ==
  ASSUME IInv, CallWait
  PROVE  IInv'
<1> USE DEF CallWait, static, task
<1>1. /\ hpc = "app" /\ NThread' = NThread
      /\ \/ hpc' = "error" /\ id' = id
         \/ hpc' = "wait" /\ id' = 0 /\ n_pipeline # 0 /\ Busy
      /\ UNCHANGED <<n_pipeline, tpp, Dispatch_To_Host, Id, Busy, Done, state, job, args,
                     tpc, dispatches, runs>>
  BY DEF NThread
<1> HIDE DEF CallWait
<1>2. TypeOK'
  <2>1. id \in 0..MaxPipeline BY DEF IInv, TypeOK
  <2>2. id' \in 0..MaxPipeline BY <1>1, <2>1
  <2>3. QED BY <1>1, <2>2 DEF IInv, TypeOK
<1>3. n_pipeline \in Nat BY DEF IInv, TypeOK
<1>4. HostInv' BY <1>1, <1>3 DEF IInv, HostInv
<1>5. PopulationInv'
  BY <1>1 DEF IInv, PopulationInv, PopulationOK, Gone, Ready, Present
<1>6. \A j \in Slots : HandedOut(j)' <=> HandedOut(j)
  BY <1>1 DEF HandedOut
<1>7. ThreadInv' /\ PendingInv' /\ DistinctInv' /\ NoJobLost'
  BY <1>1, <1>6, QuietHost
<1>8. DoneInv'
  <2> SUFFICES ASSUME NEW j \in Slots PROVE DoneOK(j)'
    BY DEF DoneInv
  <2>1. DoneOK(j) BY DEF IInv, DoneInv
  <2>2. QED BY <1>1, <1>6, <2>1 DEF DoneOK, Dispatching
<1>9. QED
  BY <1>2, <1>4, <1>5, <1>7, <1>8 DEF IInv

(* thread_wait sees the flag of a finished job.                            *)
LEMMA SeeDoneKeeps ==
  ASSUME IInv, SeeDone
  PROVE  IInv'
<1> USE DEF SeeDone, static, task
<1>1. /\ id \in Nat /\ id' = id + 1 /\ id < n_pipeline /\ n_pipeline <= MaxPipeline
      /\ NThread' = NThread /\ Done[id] = 1 /\ hpc = "wait" /\ n_pipeline \in Nat
  BY Numbers DEF IInv, NThread
<1>2. TypeOK'
  <2>1. id' \in 0..MaxPipeline BY <1>1
  <2>2. QED BY <2>1 DEF IInv, TypeOK
<1>3. HostInv' BY <1>1 DEF IInv, HostInv
<1>4. PopulationInv'
  BY <1>1 DEF IInv, PopulationInv, PopulationOK, Gone, Ready, Present
<1>5. \A j \in Slots : HandedOut(j)' <=> HandedOut(j)
  BY <1>1 DEF HandedOut
<1>6. ThreadInv' /\ PendingInv' /\ DistinctInv' /\ NoJobLost'
  BY <1>5, QuietHost
<1>7. DoneInv'
  <2> SUFFICES ASSUME NEW j \in Slots PROVE DoneOK(j)'
    BY DEF DoneInv
  <2>1. DoneOK(j) BY DEF IInv, DoneInv
  <2>2. QED BY <1>1, <1>5, <2>1 DEF DoneOK, Dispatching
<1>8. QED
  BY <1>2, <1>3, <1>4, <1>6, <1>7 DEF IInv

(* thread_wait returns.                                                    *)
LEMMA WaitReturnKeeps ==
  ASSUME IInv, WaitReturn
  PROVE  IInv'
<1> USE DEF WaitReturn, static, task
<1>1. /\ NThread' = NThread /\ n_pipeline # 0 /\ n_pipeline = tpp /\ id = tpp
      /\ NThread \in Int /\ NThread <= tpp /\ tpp \in Nat /\ hpc = "wait" /\ hpc' = "app"
  BY Numbers DEF IInv, HostInv, NThread
<1>2. TypeOK' BY DEF IInv, TypeOK
<1>3. HostInv' BY <1>1 DEF IInv, HostInv
<1>4. PopulationInv'
  BY <1>1 DEF IInv, PopulationInv, PopulationOK, Gone, Ready, Present
<1>5. ThreadInv' BY DEF IInv, ThreadInv, ThreadOK
<1>6. \A u \in Slots : ~Pending(u)'
  <2> SUFFICES ASSUME NEW u \in Slots, Pending(u) PROVE FALSE
    BY DEF Pending, Assigned
  <2>1. PendingOK(u) /\ job[u] \in Slots BY DEF IInv, PendingInv, TypeOK
  <2>2. DoneOK(job[u]) BY <2>1 DEF IInv, DoneInv
  <2>3. QED BY <1>1, <2>1, <2>2 DEF PendingOK, DoneOK, HandedOut
<1>7. PendingInv' /\ DistinctInv' BY <1>6 DEF PendingInv, PendingOK, DistinctInv
<1>8. DoneInv' /\ NoJobLost' BY <1>1 DEF DoneInv, DoneOK, NoJobLost, HandedOut
<1>9. QED
  BY <1>2, <1>3, <1>4, <1>5, <1>7, <1>8 DEF IInv

-----------------------------------------------------------------------------
(* thread_halt                                                             *)
LEMMA CallHaltKeeps ==
  ASSUME IInv, CallHalt
  PROVE  IInv'
<1> USE DEF CallHalt, static, task
<1>1. /\ hpc = "app" /\ NThread' = NThread
      /\ \/ hpc' = "error" /\ id' = id
         \/ hpc' = "halt" /\ id' = 0 /\ n_pipeline # 0 /\ ~Busy
      /\ UNCHANGED <<n_pipeline, tpp, Dispatch_To_Host, Id, Busy, Done, state, job, args,
                     tpc, dispatches, runs>>
  BY DEF NThread
<1> HIDE DEF CallHalt
<1>2. /\ n_pipeline \in Nat /\ tpp \in Nat /\ NThread \in Int
      /\ n_pipeline # 0 => 0 <= NThread
  BY Numbers DEF IInv, HostInv
<1>3. TypeOK'
  <2>1. id \in 0..MaxPipeline BY DEF IInv, TypeOK
  <2>2. id' \in 0..MaxPipeline BY <1>1, <2>1
  <2>3. QED BY <1>1, <2>2 DEF IInv, TypeOK
<1>4. HostInv' BY <1>1, <1>2 DEF IInv, HostInv
<1>5. PopulationInv'
  <2> SUFFICES ASSUME NEW u \in Slots PROVE PopulationOK(u)'
    BY DEF PopulationInv
  <2>1. PopulationOK(u) BY DEF IInv, PopulationInv
  <2>2. QED BY <1>1, <1>2, <2>1 DEF PopulationOK, Gone, Ready, Present
<1>6. \A j \in Slots : HandedOut(j)' <=> HandedOut(j)
  BY <1>1 DEF HandedOut
<1>7. ThreadInv' /\ PendingInv' /\ DistinctInv' /\ NoJobLost'
  BY <1>1, <1>6, QuietHost
<1>8. DoneInv'
  <2> SUFFICES ASSUME NEW j \in Slots PROVE DoneOK(j)'
    BY DEF DoneInv
  <2>1. DoneOK(j) BY DEF IInv, DoneInv
  <2>2. QED BY <1>1, <1>6, <2>1 DEF DoneOK, Dispatching
<1>9. QED
  BY <1>3, <1>4, <1>5, <1>7, <1>8 DEF IInv

(* thread_halt tells a thread to end.                                      *)
LEMMA TerminateKeeps ==
  ASSUME IInv, Terminate
  PROVE  IInv'
<1> USE DEF Terminate, static, task
<1>1. /\ id \in Slots /\ NThread \in Int /\ NThread' = NThread /\ ~Busy /\ id < NThread
      /\ n_pipeline # 0 /\ hpc = "halt" /\ hpc' = "join"
  BY Numbers DEF IInv, HostInv, NThread
<1>2. Ready(id) /\ ThreadOK(id)
  BY <1>1 DEF IInv, PopulationInv, PopulationOK, ThreadInv
<1>3. tpc[id] \in {"waiting", "woken"}
  BY <1>1, <1>2 DEF Locked, Holding, Ready, Present, IInv, TypeOK
<1>4. \A u \in Slots : /\ tpc'[u] = IF u = id THEN "woken" ELSE tpc[u]
                       /\ state'[u] = IF u = id THEN "terminate" ELSE state[u]
  BY <1>1, <1>3 DEF IInv, TypeOK, Signalled
<1>5. TypeOK' BY <1>1, <1>3 DEF IInv, TypeOK, Signalled
<1>6. HostInv' BY <1>1 DEF IInv, HostInv
<1>7. PopulationInv'
  <2> SUFFICES ASSUME NEW u \in Slots PROVE PopulationOK(u)'
    BY DEF PopulationInv
  <2>1. PopulationOK(u) BY DEF IInv, PopulationInv
  <2>2. QED BY <1>1, <1>4, <2>1 DEF PopulationOK, Gone, Ready, Present
<1>8. ThreadInv' BY <1>4 DEF IInv, ThreadInv, ThreadOK
<1>9. \A u \in Slots : ~Pending(u)'
  <2>1. \A u \in Slots : ~Pending(u)
    BY <1>1 DEF IInv, PendingInv, PendingOK, HandedOut
  <2>2. QED BY <1>4, <2>1 DEF Pending, Assigned
<1>10. PendingInv' /\ DistinctInv' BY <1>9 DEF PendingInv, PendingOK, DistinctInv
<1>11. DoneInv' /\ NoJobLost' BY <1>1 DEF DoneInv, DoneOK, NoJobLost, HandedOut
<1>12. QED
  BY <1>5, <1>6, <1>7, <1>8, <1>10, <1>11 DEF IInv

(* thread_halt joins a thread.                                             *)
LEMMA JoinKeeps ==
  ASSUME IInv, Join
  PROVE  IInv'
<1> USE DEF Join, Joined, static, task
<1>1. /\ id \in Nat /\ id' = id + 1 /\ NThread \in Int /\ NThread' = NThread
      /\ NThread <= MaxPipeline /\ ~Busy /\ id < NThread /\ n_pipeline # 0
      /\ hpc = "join" /\ hpc' = "halt" /\ tpc[id] = "exited"
  BY Numbers DEF IInv, HostInv, NThread
<1>2. TypeOK'
  <2>1. id' \in 0..MaxPipeline BY <1>1
  <2>2. QED BY <2>1 DEF IInv, TypeOK
<1>3. HostInv' BY <1>1 DEF IInv, HostInv
<1>4. PopulationInv'
  <2> SUFFICES ASSUME NEW u \in Slots PROVE PopulationOK(u)'
    BY DEF PopulationInv
  <2>1. PopulationOK(u) BY DEF IInv, PopulationInv
  <2>2. QED BY <1>1, <2>1 DEF PopulationOK, Gone, Ready, Present
<1>5. \A j \in Slots : HandedOut(j)' <=> HandedOut(j)
  BY <1>1 DEF HandedOut
<1>6. ThreadInv' /\ PendingInv' /\ DistinctInv' /\ NoJobLost'
  BY <1>5, QuietHost
<1>7. DoneInv' BY <1>1 DEF DoneInv, DoneOK, HandedOut
<1>8. QED
  BY <1>2, <1>3, <1>4, <1>6, <1>7 DEF IInv

(* thread_halt returns.                                                    *)
LEMMA HaltReturnKeeps ==
  ASSUME IInv, HaltReturn
  PROVE  IInv'
<1> USE DEF HaltReturn, task
<1>1. /\ id \in Nat /\ NThread \in Int /\ NThread' = NThread /\ ~Busy
      /\ n_pipeline' = 0 /\ id = NThread /\ hpc = "halt" /\ hpc' = "app"
  BY Numbers DEF IInv, HostInv, NThread
<1>2. TypeOK'
  <2>1. n_pipeline' \in 0..MaxPipeline BY <1>1
  <2>2. QED BY <2>1 DEF IInv, TypeOK
<1>3. HostInv' BY <1>1 DEF IInv, HostInv
<1>4. PopulationInv'
  <2> SUFFICES ASSUME NEW u \in Slots PROVE PopulationOK(u)'
    BY DEF PopulationInv
  <2>1. PopulationOK(u) BY DEF IInv, PopulationInv
  <2>2. QED BY <1>1, <2>1 DEF PopulationOK, Gone, Ready, Present
<1>5. \A j \in Slots : HandedOut(j)' <=> HandedOut(j)
  BY <1>1 DEF HandedOut
<1>6. ThreadInv' /\ PendingInv' /\ DistinctInv' /\ NoJobLost'
  BY <1>5, QuietHost
<1>7. DoneInv' BY <1>1 DEF DoneInv, DoneOK, HandedOut
<1>8. QED
  BY <1>2, <1>3, <1>4, <1>6, <1>7 DEF IInv

-----------------------------------------------------------------------------
(* pipeline_mgr.  What a thread's own step leaves alone.                   *)
LEMMA ThreadStepFrame ==
  ASSUME IInv, NEW t \in Slots, NEW to,
         tpc' = [tpc EXCEPT ![t] = to],
         state' = state \/ (to = "wait" /\ state' = [state EXCEPT ![t] = "sleep"]),
         UNCHANGED <<n_pipeline, tpp, Dispatch_To_Host, Id, Busy, hpc, id>>,
         \/ tpc[t] = "start" /\ to = "switch"
         \/ tpc[t] = "switch" /\ to = "exited" /\ state[t] = "terminate"
         \/ tpc[t] = "switch" /\ to = "run" /\ state[t] = "execute"
         \/ tpc[t] = "switch" /\ to = "doze" /\ state[t] \in {"ack", "sleep"}
         \/ tpc[t] = "run" /\ to = "flag"
         \/ tpc[t] = "flag" /\ to = "doze"
         \/ tpc[t] = "doze" /\ to = "wait" /\ state' = [state EXCEPT ![t] = "sleep"]
         \/ tpc[t] = "wait" /\ to = "waiting"
         \/ tpc[t] = "waiting" /\ to = "woken"
         \/ tpc[t] = "woken" /\ to = "switch"
  PROVE  /\ HostInv' /\ PopulationInv' /\ ThreadInv'
         /\ \A u \in Slots \ {t} : tpc'[u] = tpc[u] /\ state'[u] = state[u]
         /\ tpc'[t] = to /\ state'[t] = IF to = "wait" THEN "sleep" ELSE state[t]
<1>1. /\ \A u \in Slots \ {t} : tpc'[u] = tpc[u] /\ state'[u] = state[u]
      /\ tpc'[t] = to /\ state'[t] = IF to = "wait" THEN "sleep" ELSE state[t]
  BY DEF IInv, TypeOK
<1>2. HostInv' BY DEF IInv, HostInv, NThread
<1>3. ThreadInv'
  <2> SUFFICES ASSUME NEW u \in Slots PROVE ThreadOK(u)'
    BY DEF ThreadInv
  <2>1. ThreadOK(u) BY DEF IInv, ThreadInv
  <2>2. QED BY <1>1, <2>1 DEF ThreadOK
<1>4. PopulationInv'
  <2> SUFFICES ASSUME NEW u \in Slots PROVE PopulationOK(u)'
    BY DEF PopulationInv
  <2>1. PopulationOK(u) /\ ThreadOK(u) /\ NThread' = NThread
    BY DEF IInv, PopulationInv, ThreadInv, NThread
  <2>2. CASE u # t
    BY <1>1, <2>1, <2>2 DEF PopulationOK, Gone, Ready, Present
  <2>3. CASE u = t
    BY <1>1, <2>1, <2>3 DEF PopulationOK, ThreadOK, Gone, Ready, Present
  <2>4. QED BY <2>2, <2>3
<1>5. QED
  BY <1>1, <1>2, <1>3, <1>4

(* The steps that run no job and set no flag.                              *)
LEMMA ThreadMovesKeep ==
  ASSUME IInv, NEW t \in Slots,
         \/ ThreadStart(t) \/ Switch(t) \/ Doze(t) \/ CondWait(t)
         \/ Relock(t) \/ SpuriousWake(t)
  PROVE  IInv'
<1> DEFINE Moved(to) ==
      /\ tpc' = [tpc EXCEPT ![t] = to]
      /\ \/ tpc[t] = "start" /\ to = "switch"
         \/ tpc[t] = "switch" /\ to = "exited" /\ state[t] = "terminate"
         \/ tpc[t] = "switch" /\ to = "run" /\ state[t] = "execute"
         \/ tpc[t] = "switch" /\ to = "doze" /\ state[t] \in {"ack", "sleep"}
         \/ tpc[t] = "doze" /\ to = "wait"
         \/ tpc[t] = "wait" /\ to = "waiting"
         \/ tpc[t] = "waiting" /\ to = "woken"
         \/ tpc[t] = "woken" /\ to = "switch"
      /\ state' = IF to = "wait" THEN [state EXCEPT ![t] = "sleep"] ELSE state
<1>1. PICK to : Moved(to)
  <2> USE DEF Goto, static, task, control
  <2>1. ThreadStart(t) => Moved("switch") BY DEF ThreadStart
  <2>2. Switch(t) => Moved("exited") \/ Moved("run") \/ Moved("doze")
    <3>1. state[t] \in {"sleep", "execute", "terminate", "ack"} BY DEF IInv, TypeOK
    <3>2. QED BY <3>1 DEF Switch
  <2>3. Doze(t) => Moved("wait") BY DEF Doze
  <2>4. CondWait(t) => Moved("waiting") BY DEF CondWait
  <2>5. Relock(t) => Moved("switch") BY DEF Relock
  <2>6. SpuriousWake(t) => Moved("woken") BY DEF SpuriousWake
  <2> HIDE DEF Moved
  <2>7. QED BY <2>1, <2>2, <2>3, <2>4, <2>5, <2>6
<1>2. UNCHANGED <<n_pipeline, tpp, Dispatch_To_Host, Id, Busy, hpc, id, job, args, Done,
                  runs, dispatches>>
  BY DEF ThreadStart, Switch, Doze, CondWait, Relock, SpuriousWake, static, task, control
<1>3. /\ HostInv' /\ PopulationInv' /\ ThreadInv'
      /\ \A u \in Slots \ {t} : tpc'[u] = tpc[u] /\ state'[u] = state[u]
      /\ tpc'[t] = to /\ state'[t] = IF to = "wait" THEN "sleep" ELSE state[t]
  BY <1>1, <1>2, ThreadStepFrame
<1>4. ThreadOK(t) BY DEF IInv, ThreadInv
<1>5. /\ Pending(t)' <=> Pending(t)
      /\ Pending(t) => ((tpc[t] = "flag")' <=> tpc[t] = "flag")
  BY <1>1, <1>2, <1>3, <1>4 DEF Pending, Assigned, ThreadOK
<1>6. PendingInv' /\ DistinctInv' /\ DoneInv' /\ NoJobLost'
  BY <1>2, <1>3, <1>5, QuietThread
<1>7. TypeOK'
  <2>1. (tpc \in [Slots -> Holding \cup {"none", "start", "waiting", "woken", "exited"}])'
    BY <1>1 DEF IInv, TypeOK, Holding
  <2>2. (state \in [Slots -> {"sleep", "execute", "terminate", "ack"}])'
    BY <1>1 DEF IInv, TypeOK
  <2>3. QED BY <1>2, <2>1, <2>2 DEF IInv, TypeOK
<1>8. QED
  BY <1>3, <1>6, <1>7 DEF IInv

(* A thread runs the job it was woken for.                                 *)
LEMMA RunJobKeeps ==
  ASSUME IInv, NEW t \in Slots, RunJob(t)
  PROVE  IInv'
<1>1. /\ tpc[t] = "run" /\ tpc' = [tpc EXCEPT ![t] = "flag"]
      /\ runs' = [runs EXCEPT ![job[t]] = @ + 1]
      /\ UNCHANGED <<n_pipeline, tpp, Dispatch_To_Host, Id, Busy, Done, state, job, args,
                     hpc, id, dispatches>>
  BY DEF RunJob, Goto, static, task, control
<1>2. /\ HostInv' /\ PopulationInv' /\ ThreadInv'
      /\ \A u \in Slots \ {t} : tpc'[u] = tpc[u] /\ state'[u] = state[u]
      /\ tpc'[t] = "flag" /\ state'[t] = state[t]
  BY <1>1, ThreadStepFrame
<1>3. state[t] = "execute" /\ job[t] \in Slots
  BY <1>1 DEF IInv, ThreadInv, ThreadOK, TypeOK
<1>4. Pending(t) BY <1>1, <1>3 DEF Pending, Assigned
<1>5. HandedOut(job[t]) /\ Done[job[t]] = 0 /\ runs[job[t]] = 0 /\ args[t] = dispatches
  BY <1>1, <1>4 DEF IInv, PendingInv, PendingOK
<1>6. /\ runs' \in [Slots -> Nat]
      /\ \A j \in Slots : runs'[j] = IF j = job[t] THEN 1 ELSE runs[j]
  BY <1>1, <1>3, <1>5 DEF IInv, TypeOK
<1>7. TypeOK'
  <2>1. (tpc \in [Slots -> Holding \cup {"none", "start", "waiting", "woken", "exited"}])'
    BY <1>1 DEF IInv, TypeOK, Holding
  <2>2. QED BY <1>1, <1>6, <2>1 DEF IInv, TypeOK
<1>8. \A u \in Slots : (Pending(u)' <=> Pending(u)) /\ job[u] \in Slots
  BY <1>1, <1>2, <1>3 DEF Pending, Assigned, IInv, TypeOK
<1>9. \A j \in Slots : HandedOut(j)' <=> HandedOut(j)
  BY <1>1 DEF HandedOut, NThread
<1>10. PendingInv'
  <2> SUFFICES ASSUME NEW u \in Slots, Pending(u) PROVE PendingOK(u)'
    BY <1>8 DEF PendingInv, PendingOK
  <2>1. CASE u = t
    BY <1>1, <1>2, <1>3, <1>5, <1>6, <1>9, <2>1 DEF PendingOK
  <2>2. CASE u # t
    <3>1. PendingOK(u) /\ job[u] # job[t]
      BY <1>4, <2>2 DEF IInv, PendingInv, DistinctInv
    <3>2. QED BY <1>1, <1>2, <1>6, <1>8, <1>9, <2>2, <3>1 DEF PendingOK
  <2>3. QED BY <2>1, <2>2
<1>11. DistinctInv' BY <1>1, <1>8 DEF IInv, DistinctInv
<1>12. DoneInv'
  <2> SUFFICES ASSUME NEW j \in Slots PROVE DoneOK(j)'
    BY DEF DoneInv
  <2>1. DoneOK(j) /\ (HandedOut(j) => Busy /\ j < NThread) /\ NThread' = NThread
        /\ (Dispatching' <=> Dispatching)
    BY <1>1 DEF IInv, DoneInv, HandedOut, NThread, Dispatching
  <2>2. NThread \in Int BY Numbers DEF IInv
  <2>3. CASE j = job[t]
    BY <1>1, <1>3, <1>5, <1>6, <1>9, <2>1, <2>2, <2>3 DEF DoneOK
  <2>4. CASE j # job[t]
    BY <1>1, <1>6, <1>9, <2>1, <2>4 DEF DoneOK
  <2>5. QED BY <2>3, <2>4
<1>13. NoJobLost'
  <2> SUFFICES ASSUME NEW j \in Slots, HandedOut(j), Done[j] = 0
               PROVE  \E u \in Slots : Assigned(u, j)'
    BY <1>1, <1>9 DEF NoJobLost
  <2>1. PICK u \in Slots : Assigned(u, j) BY DEF IInv, NoJobLost
  <2>2. Assigned(u, j)' BY <1>1, <1>2, <2>1 DEF Assigned
  <2>3. QED BY <2>2
<1>14. QED
  BY <1>2, <1>7, <1>10, <1>11, <1>12, <1>13 DEF IInv

(* A thread reports that its job is done.                                  *)
LEMMA SetFlagKeeps ==
  ASSUME IInv, NEW t \in Slots, SetFlag(t)
  PROVE  IInv'
<1>1. /\ tpc[t] = "flag" /\ tpc' = [tpc EXCEPT ![t] = "doze"]
      /\ Done' = [Done EXCEPT ![job[t]] = 1]
      /\ UNCHANGED <<n_pipeline, tpp, Dispatch_To_Host, Id, Busy, runs, state, job, args,
                     hpc, id, dispatches>>
  BY DEF SetFlag, Flagged, Goto, static, task, control
<1>2. /\ HostInv' /\ PopulationInv' /\ ThreadInv'
      /\ \A u \in Slots \ {t} : tpc'[u] = tpc[u] /\ state'[u] = state[u]
      /\ tpc'[t] = "doze" /\ state'[t] = state[t]
  BY <1>1, ThreadStepFrame
<1>3. state[t] = "execute" /\ job[t] \in Slots
  BY <1>1 DEF IInv, ThreadInv, ThreadOK, TypeOK
<1>4. Pending(t) BY <1>1, <1>3 DEF Pending, Assigned
<1>5. HandedOut(job[t]) /\ runs[job[t]] = 1
  BY <1>1, <1>4 DEF IInv, PendingInv, PendingOK
<1>6. /\ Done' \in [Slots -> {0, 1}]
      /\ \A j \in Slots : Done'[j] = IF j = job[t] THEN 1 ELSE Done[j]
  BY <1>1, <1>3 DEF IInv, TypeOK
<1>7. TypeOK'
  <2>1. (tpc \in [Slots -> Holding \cup {"none", "start", "waiting", "woken", "exited"}])'
    BY <1>1 DEF IInv, TypeOK, Holding
  <2>2. QED BY <1>1, <1>6, <2>1 DEF IInv, TypeOK
<1>8. /\ ~Pending(t)'
      /\ \A u \in Slots \ {t} : (Pending(u)' <=> Pending(u))
      /\ \A u \in Slots : job[u] \in Slots
  BY <1>1, <1>2, <1>3 DEF Pending, Assigned, IInv, TypeOK
<1>9. \A j \in Slots : HandedOut(j)' <=> HandedOut(j)
  BY <1>1 DEF HandedOut, NThread
<1>10. PendingInv'
  <2> SUFFICES ASSUME NEW u \in Slots, Pending(u), u # t PROVE PendingOK(u)'
    BY <1>8 DEF PendingInv, PendingOK
  <2>1. PendingOK(u) /\ job[u] # job[t]
    BY <1>4 DEF IInv, PendingInv, DistinctInv
  <2>2. QED BY <1>1, <1>2, <1>6, <1>8, <1>9, <2>1 DEF PendingOK
<1>11. DistinctInv' BY <1>1, <1>8 DEF IInv, DistinctInv
<1>12. DoneInv'
  <2> SUFFICES ASSUME NEW j \in Slots PROVE DoneOK(j)'
    BY DEF DoneInv
  <2>1. DoneOK(j) /\ NThread' = NThread /\ (Dispatching' <=> Dispatching)
        /\ (HandedOut(j) => j < NThread /\ (hpc \in {"dispatch", "execute"} => j < id))
    BY <1>1 DEF IInv, DoneInv, HandedOut, NThread, Dispatching
  <2>2. HostInv /\ NThread \in Int /\ id \in Nat BY Numbers DEF IInv
  <2>3. CASE j = job[t]
    BY <1>1, <1>3, <1>5, <1>6, <1>9, <2>1, <2>2, <2>3 DEF DoneOK, HostInv
  <2>4. CASE j # job[t]
    BY <1>1, <1>6, <1>9, <2>1, <2>4 DEF DoneOK
  <2>5. QED BY <2>3, <2>4
<1>13. NoJobLost'
  <2> SUFFICES ASSUME NEW j \in Slots, HandedOut(j), Done'[j] = 0
               PROVE  \E u \in Slots : Assigned(u, j)'
    BY <1>9 DEF NoJobLost
  <2>1. j # job[t] /\ Done[j] = 0 BY <1>6
  <2>2. PICK u \in Slots : Assigned(u, j) BY <2>1 DEF IInv, NoJobLost
  <2>3. u # t BY <2>1, <2>2 DEF Assigned
  <2>4. Assigned(u, j)' BY <1>1, <1>2, <2>2, <2>3 DEF Assigned
  <2>5. QED BY <2>4
<1>14. QED
  BY <1>2, <1>7, <1>10, <1>11, <1>12, <1>13 DEF IInv

-----------------------------------------------------------------------------
(* The invariant holds before the dispatcher is booted.                    *)
LEMMA InitIInv == Init => IInv
<1> SUFFICES ASSUME Init PROVE IInv
  OBVIOUS
<1> USE DEF Init
<1>1. TypeOK
  <2>1. 0 \in 0..MaxPipeline /\ 0 \in Slots OBVIOUS
  <2>2. /\ Done \in [Slots -> {0, 1}] /\ args \in [Slots -> Nat] /\ runs \in [Slots -> Nat]
        /\ job \in [Slots -> Slots]
        /\ state \in [Slots -> {"sleep", "execute", "terminate", "ack"}]
        /\ tpc \in [Slots -> Holding \cup {"none", "start", "waiting", "woken", "exited"}]
    BY <2>1
  <2>3. QED BY <2>1, <2>2 DEF TypeOK
<1>2. HostInv /\ PopulationInv /\ ThreadInv
  BY DEF HostInv, PopulationInv, PopulationOK, ThreadInv, ThreadOK, Gone, NThread
<1>3. PendingInv /\ DistinctInv
  BY DEF PendingInv, PendingOK, DistinctInv, Pending, Assigned
<1>4. DoneInv /\ NoJobLost
  BY DEF DoneInv, DoneOK, NoJobLost, HandedOut
<1>5. QED BY <1>1, <1>2, <1>3, <1>4 DEF IInv

(* Every step of the host and of a thread keeps the invariant.             *)
LEMMA NextIInv ==
  ASSUME BooleanDispatchToHost, IInv, [Next]_vars
  PROVE  IInv'
<1>1. CASE Call
  BY <1>1, CallBootKeeps, CallDispatchKeeps, CallWaitKeeps, CallHaltKeeps DEF Call
<1>2. CASE HostStep
  BY <1>2, CreateThreadKeeps, SeeAckKeeps, BootReturnKeeps, DispatchJobKeeps,
     ParallelExecuteKeeps, HostJobKeeps, HostRunKeeps, SeeDoneKeeps, WaitReturnKeeps,
     TerminateKeeps, JoinKeeps, HaltReturnKeeps
  DEF HostStep
<1>3. ASSUME NEW t \in Slots, ThreadStep(t) \/ SpuriousWake(t)
      PROVE  IInv'
  BY <1>3, ThreadMovesKeep, RunJobKeeps, SetFlagKeeps DEF ThreadStep
<1>4. CASE UNCHANGED vars
  <2> USE <1>4 DEF vars
  <2>1. TypeOK' BY DEF IInv, TypeOK
  <2>2. HostInv' BY DEF IInv, HostInv, NThread
  <2>3. PopulationInv'
    BY DEF IInv, PopulationInv, PopulationOK, NThread, Gone, Ready, Present
  <2>4. \A j \in Slots : HandedOut(j)' <=> HandedOut(j) BY DEF HandedOut, NThread
  <2>5. ThreadInv' /\ PendingInv' /\ DistinctInv' /\ NoJobLost' BY <2>4, QuietHost
  <2>6. DoneInv' BY <2>4 DEF IInv, DoneInv, DoneOK, NThread, Dispatching
  <2>7. QED BY <2>1, <2>2, <2>3, <2>5, <2>6 DEF IInv
<1>5. QED
  BY <1>1, <1>2, <1>3, <1>4 DEF Next, Aborted

(* The inductive invariant holds of every reachable state.                 *)
THEOREM Inductive ==
  ASSUME BooleanDispatchToHost
  PROVE  Spec => []IInv
<1>1. Init => IInv BY InitIInv
<1>2. IInv /\ [Next]_vars => IInv' BY NextIInv
<1>3. QED BY <1>1, <1>2, PTL DEF Spec

-----------------------------------------------------------------------------
(* Whatever the command line, boot and the calls that follow it keep every *)
(* variable in its declared range: no index leaves its array.              *)
THEOREM TypeCorrect ==
  ASSUME BooleanDispatchToHost
  PROVE  Spec => []TypeOK
<1>1. IInv => TypeOK BY DEF IInv
<1>2. QED BY <1>1, Inductive, PTL

(* parallel_execute never meets a thread that thread_halt has terminated.  *)
THEOREM AlwaysNeverAmiss ==
  ASSUME BooleanDispatchToHost
  PROVE  Spec => []NeverAmiss
<1>1. IInv => NeverAmiss BY DEF IInv, HostInv, NeverAmiss
<1>2. QED BY <1>1, Inductive, PTL

(* thread_wait has seen a job's flag only when that job has run, once, in  *)
(* this dispatch.                                                          *)
THEOREM AlwaysWaitMeansDone ==
  ASSUME BooleanDispatchToHost
  PROVE  Spec => []WaitMeansDone
<1>1. IInv => WaitMeansDone
  <2> SUFFICES ASSUME IInv, hpc = "wait", NEW j \in Slots, j < id
               PROVE  runs[j] = 1
    BY DEF WaitMeansDone
  <2>1. DoneOK(j) /\ Busy /\ id <= tpp
    BY DEF IInv, DoneInv, HostInv
  <2>2. NThread \in Int /\ id \in Nat /\ (j < NThread \/ (j = NThread /\ Dispatch_To_Host = 1))
    BY <2>1, Numbers DEF IInv, HostInv, NThread
  <2>3. QED BY <2>1, <2>2 DEF DoneOK, HandedOut, Dispatching
<1>2. QED BY <1>1, Inductive, PTL

(* A job executes only while its dispatch is open, by one thread only.     *)
THEOREM AlwaysArgsAlive ==
  ASSUME BooleanDispatchToHost
  PROVE  Spec => []ArgsAlive
<1>1. IInv => ArgsAlive
  <2> SUFFICES ASSUME IInv, NEW t \in Slots, Executing(t)
               PROVE  /\ Busy /\ args[t] = dispatches /\ runs[job[t]] = 0
                      /\ \A u \in Slots \ {t} : Executing(u) => job[u] # job[t]
                      /\ hpc = "hostrun" => job[t] # id
    BY DEF ArgsAlive
  <2>1. \A u \in Slots : Executing(u) => Pending(u)
    BY DEF IInv, ThreadInv, ThreadOK, Executing, Pending, Assigned
  <2>2. PendingOK(t) /\ Pending(t) BY <2>1 DEF IInv, PendingInv
  <2>3. \A u \in Slots \ {t} : Executing(u) => job[u] # job[t]
    BY <2>1, <2>2 DEF IInv, DistinctInv
  <2>4. hpc = "hostrun" => job[t] # id
    BY <2>2, Numbers DEF IInv, HostInv, PendingOK, HandedOut
  <2>5. QED BY <2>2, <2>3, <2>4 DEF PendingOK, HandedOut, Executing
<1>2. QED BY <1>1, Inductive, PTL

(* No wake-up is lost.                                                     *)
THEOREM AlwaysNoJobLost ==
  ASSUME BooleanDispatchToHost
  PROVE  Spec => []NoJobLost
<1>1. IInv => NoJobLost BY DEF IInv
<1>2. QED BY <1>1, Inductive, PTL

(* Every thread is there while the dispatcher is up, none when it is not.  *)
THEOREM AlwaysThreadsAccountedFor ==
  ASSUME BooleanDispatchToHost
  PROVE  Spec => []ThreadsAccountedFor
<1>1. IInv => ThreadsAccountedFor
  <2> SUFFICES ASSUME IInv, NEW t \in Slots
               PROVE  /\ n_pipeline = 0 /\ hpc = "app" => tpc[t] \in {"none", "exited"}
                      /\ (n_pipeline # 0 /\ hpc \notin {"halt", "join", "error"}
                           /\ t < NThread => Present(t))
    BY DEF ThreadsAccountedFor
  <2>1. PopulationOK(t) /\ NThread \in Int BY Numbers DEF IInv, PopulationInv
  <2>2. QED BY <2>1 DEF PopulationOK, Gone, Ready
<1>2. QED BY <1>1, Inductive, PTL

-----------------------------------------------------------------------------
(***************************************************************************)
(* The pthread dispatcher implements the fork/join contract, for every     *)
(* number of pipelines and every number of dispatches: boot, dispatch,     *)
(* wait and halt map to the contract's operations at the step where the    *)
(* call takes effect, a job begins when its thread (or the host) enters    *)
(* it and ends when its flag is set, and every other step stutters.        *)
(***************************************************************************)

USE PipelinesAssumption DEF PipelinesAssumption, Slots

Quiet == UNCHANGED <<n_pipeline, Busy, Running, Finished>>

(* The job a thread is executing is one it was handed.                     *)
LEMMA RunningPending ==
  ASSUME IInv
  PROVE  \A t \in Slots : tpc[t] \in {"run", "flag"} =>
           /\ Pending(t) /\ HandedOut(job[t]) /\ Done[job[t]] = 0
           /\ job[t] \in Slots /\ job[t] < NThread /\ job[t] < n_pipeline
<1> SUFFICES ASSUME NEW t \in Slots, tpc[t] \in {"run", "flag"}
             PROVE  /\ Pending(t) /\ HandedOut(job[t]) /\ Done[job[t]] = 0
                    /\ job[t] \in Slots /\ job[t] < NThread /\ job[t] < n_pipeline
  OBVIOUS
<1>1. ThreadOK(t) /\ PendingOK(t) /\ job[t] \in Slots
  BY DEF IInv, ThreadInv, PendingInv, TypeOK
<1>2. Pending(t) BY <1>1 DEF ThreadOK, Pending, Assigned
<1>3. HandedOut(job[t]) /\ Done[job[t]] = 0 BY <1>1, <1>2 DEF PendingOK
<1>4. job[t] < NThread /\ Busy BY <1>3 DEF HandedOut
<1>5. NThread <= n_pipeline /\ n_pipeline \in Int /\ NThread \in Int
  BY <1>4, Numbers DEF IInv, HostInv
<1>6. QED BY <1>1, <1>2, <1>3, <1>4, <1>5

(* A step that leaves jobs, threads' positions and flags alone stutters.   *)
LEMMA FrameQuiet ==
  ASSUME UNCHANGED <<n_pipeline, Busy, id, job, tpc, runs, Done>>,
         hpc = "hostrun" <=> hpc' = "hostrun"
  PROVE  Quiet
BY DEF Quiet, Running, Finished

(* The steps of boot, wait and halt, and the calls that are refused.       *)
LEMMA CallsRefine ==
  ASSUME IInv, BooleanDispatchToHost, Call
  PROVE  Quiet \/ FJ!Dispatch
<1>1. ASSUME NEW n \in TppArgs, NEW d \in DthArgs, CallBoot(n, d)
      PROVE  Quiet
  <2>1. ~(hpc = "hostrun") /\ ~(hpc' = "hostrun")
        /\ UNCHANGED <<n_pipeline, Done, job, tpc, runs>>
    BY <1>1 DEF CallBoot, task
  <2>2. Busy' = Busy
    BY <1>1 DEF CallBoot, IInv, HostInv, TypeOK
  <2>3. QED BY <2>1, <2>2 DEF Quiet, Running, Finished
<1>2. CASE CallDispatch
  <2>1. CASE DispatchRefused
    <3>1. /\ UNCHANGED <<n_pipeline, Busy, id, job, tpc, runs, Done>>
          /\ hpc = "app" /\ hpc' = "error"
      BY <1>2, <2>1 DEF CallDispatch, static, task
    <3>2. QED BY <3>1, FrameQuiet
  <2>2. CASE ~DispatchRefused
    <3>1. /\ n_pipeline # 0 /\ ~Busy /\ Busy' /\ Busy' = TRUE
          /\ hpc = "app" /\ hpc' = "dispatch" /\ runs' = [j \in Slots |-> 0]
          /\ UNCHANGED <<n_pipeline, job, tpc, Done>>
      BY <1>2, <2>2 DEF CallDispatch, DispatchRefused, static, task
    <3>2. Running' = Running BY <3>1 DEF Running
    <3>3. Finished = {} /\ Finished' = {} BY <3>1 DEF Finished
    <3>4. QED BY <3>1, <3>2, <3>3 DEF FJ!Dispatch
  <2>3. QED BY <2>1, <2>2
<1>3. CASE CallWait \/ CallHalt
  <2>1. /\ UNCHANGED <<n_pipeline, Busy, job, tpc, runs, Done>>
        /\ ~(hpc = "hostrun") /\ ~(hpc' = "hostrun")
    BY <1>3 DEF CallWait, CallHalt, static, task
  <2>2. QED BY <2>1 DEF Quiet, Running, Finished
<1>4. QED
  BY <1>1, <1>2, <1>3 DEF Call

(* When thread_wait returns every pipeline's job has finished.             *)
LEMMA WaitRefines ==
  ASSUME IInv, WaitReturn
  PROVE  FJ!Wait
<1>1. /\ hpc = "wait" /\ hpc' = "app" /\ Busy /\ Busy' = FALSE /\ id = n_pipeline
      /\ n_pipeline = tpp
      /\ UNCHANGED <<n_pipeline, job, tpc, runs, Done>>
  BY Numbers DEF WaitReturn, IInv, HostInv, static, task
<1>2. Finished' = {} /\ Running' = Running
  BY <1>1 DEF Finished, Running
<1>3. ASSUME NEW j \in Slots
      PROVE  j < n_pipeline => Done[j] = 1 /\ runs[j] = 1
  <2>1. DoneOK(j) BY DEF IInv, DoneInv
  <2>2. j < n_pipeline => j < NThread \/ (j = NThread /\ Dispatch_To_Host = 1)
    BY <1>1, Numbers DEF IInv, HostInv, NThread
  <2>3. QED BY <1>1, <2>1, <2>2 DEF DoneOK, HandedOut, Dispatching
<1>4. ASSUME NEW j \in Slots
      PROVE  ~(j < n_pipeline) => runs[j] = 0
  <2>1. DoneOK(j) BY DEF IInv, DoneInv
  <2>2. ~(j < n_pipeline) => ~(j < NThread) /\ (j # NThread \/ Dispatch_To_Host = 0)
    BY <1>1, Numbers DEF IInv, HostInv, NThread
  <2>3. QED BY <1>1, <2>1, <2>2 DEF DoneOK, HandedOut
<1>5. n_pipeline \in Nat /\ n_pipeline <= MaxPipeline
  BY Numbers DEF IInv
<1>6. Finished = FJ!Jobs
  BY <1>1, <1>3, <1>4, <1>5 DEF Finished, FJ!Jobs
<1>7. QED BY <1>1, <1>2, <1>6 DEF FJ!Wait

(* The host's share of the work.                                           *)
LEMMA HostJobRefines ==
  ASSUME IInv, HostJob
  PROVE  Quiet \/ \E j \in FJ!Jobs : FJ!Begin(j)
<1>1. /\ hpc = "dispatch" /\ id = NThread /\ Busy
      /\ UNCHANGED <<n_pipeline, Busy, id, job, tpc, runs>>
      /\ n_pipeline = tpp /\ n_pipeline # 0
  BY Numbers DEF HostJob, IInv, HostInv, static, task
<1>2. CASE Dispatch_To_Host = 0
  <2>1. UNCHANGED Done /\ hpc' = "app" BY <1>2 DEF HostJob
  <2>2. QED BY <1>1, <2>1, FrameQuiet
<1>3. CASE Dispatch_To_Host # 0
  <2>1. /\ Dispatch_To_Host = 1 /\ hpc' = "hostrun"
        /\ Done' = [Done EXCEPT ![id] = 0]
    BY <1>3 DEF HostJob, Cleared, IInv, HostInv
  <2>2. id \in Slots /\ id \in FJ!Jobs
    BY <1>1, <2>1, Numbers DEF IInv, NThread, FJ!Jobs
  <2>3. runs[id] = 0
    <3>1. DoneOK(id) BY <2>2 DEF IInv, DoneInv
    <3>2. QED BY <1>1, <2>2, <3>1 DEF DoneOK, HandedOut, Dispatching
  <2>4. Finished' = Finished /\ id \notin Finished
    <3>1. \A j \in Slots : j # id => Done'[j] = Done[j]
      BY <2>1, <2>2 DEF IInv, TypeOK
    <3>2. \A j \in Slots : runs[j] > 0 => j # id
      BY <2>3
    <3>3. QED BY <1>1, <3>1, <3>2 DEF Finished
  <2>5. Running' = Running \cup {id}
    BY <1>1, <2>1 DEF Running
  <2>6. id \notin Running
    BY <1>1, <2>2, RunningPending, Numbers DEF IInv, Running
  <2>7. FJ!Begin(id) BY <1>1, <2>4, <2>5, <2>6 DEF FJ!Begin
  <2>8. QED BY <2>2, <2>7
<1>4. QED BY <1>2, <1>3

(* A job the host ran is a job run, in the abstract specification.         *)
LEMMA HostRunRefines ==
  ASSUME IInv, HostRun
  PROVE  \E j \in FJ!Jobs : FJ!End(j)
<1>1. /\ hpc = "hostrun" /\ hpc' = "app" /\ id = NThread /\ Dispatch_To_Host = 1 /\ Busy
      /\ UNCHANGED <<n_pipeline, Busy, id, job, tpc>>
      /\ runs' = [runs EXCEPT ![id] = @ + 1] /\ Done' = [Done EXCEPT ![id] = 1]
      /\ n_pipeline = tpp /\ n_pipeline # 0
  BY DEF HostRun, IInv, HostInv, static, task
<1>2. id \in Slots /\ id \in FJ!Jobs
  BY <1>1, Numbers DEF IInv, NThread, FJ!Jobs
<1>3. runs[id] = 0
  <2>1. DoneOK(id) BY <1>2 DEF IInv, DoneInv
  <2>2. QED BY <1>1, <1>2, <2>1 DEF DoneOK, HandedOut, Dispatching
<1>4. \A j \in Slots : /\ runs'[j] = IF j = id THEN 1 ELSE runs[j]
                       /\ Done'[j] = IF j = id THEN 1 ELSE Done[j]
  BY <1>1, <1>2, <1>3 DEF IInv, TypeOK
<1>5. Finished' = Finished \cup {id}
  BY <1>1, <1>2, <1>4 DEF Finished
<1>6. id \in Running BY <1>1 DEF Running
<1>7. Running' = Running \ {id}
  <2>1. \A t \in Slots : tpc[t] \in {"run", "flag"} => job[t] # id
    BY <1>1, <1>2, RunningPending, Numbers DEF IInv
  <2>2. QED BY <1>1, <2>1 DEF Running
<1>8. FJ!End(id) BY <1>1, <1>5, <1>6, <1>7 DEF FJ!End
<1>9. QED BY <1>2, <1>8

(* Handing a job over changes nothing yet: the thread has not begun it.    *)
LEMMA HandOverQuiet ==
  ASSUME IInv, DispatchJob \/ ParallelExecute
  PROVE  Quiet
<1>1. CASE DispatchJob
  <2>1. /\ hpc = "dispatch" /\ hpc' = "execute" /\ id < NThread /\ Busy
        /\ Done' = [Done EXCEPT ![id] = 0]
        /\ UNCHANGED <<n_pipeline, Busy, id, job, tpc, runs>>
    BY <1>1 DEF DispatchJob, Cleared, IInv, HostInv, static, task
  <2>2. id \in Slots BY <2>1, Numbers DEF IInv
  <2>3. runs[id] = 0
    <3>1. DoneOK(id) BY <2>2 DEF IInv, DoneInv
    <3>2. QED BY <2>1, <2>2, <3>1 DEF DoneOK, HandedOut, Dispatching
  <2>4. Finished' = Finished
    <3>1. \A j \in Slots : j # id => Done'[j] = Done[j]
      BY <2>1, <2>2 DEF IInv, TypeOK
    <3>2. \A j \in Slots : runs[j] > 0 => j # id
      BY <2>3
    <3>3. QED BY <2>1, <3>1, <3>2 DEF Finished
  <2>5. Running' = Running BY <2>1 DEF Running
  <2>6. QED BY <2>1, <2>4, <2>5 DEF Quiet
<1>2. CASE ParallelExecute
  <2>1. /\ hpc = "execute" /\ ~(hpc' = "hostrun")
        /\ UNCHANGED <<n_pipeline, Busy, runs, Done>>
    BY <1>2 DEF ParallelExecute, static
  <2>2. \A t \in Slots :
          /\ (tpc[t] \in {"run", "flag"})' <=> tpc[t] \in {"run", "flag"}
          /\ tpc[t] \in {"run", "flag"} => job'[t] = job[t]
    <3>1. CASE Available(Id)
      <4>1. /\ job' = [job EXCEPT ![Id] = id] /\ tpc' = Signalled(Id)
            /\ tpc[Id] \notin {"run", "flag"}
        BY <1>2, <3>1 DEF ParallelExecute, Available, Locked, Holding
      <4>2. QED BY <4>1 DEF Signalled, IInv, TypeOK
    <3>2. CASE ~Available(Id)
      BY <1>2, <3>2 DEF ParallelExecute, task
    <3>3. QED BY <3>1, <3>2
  <2>3. Running' = Running BY <2>1, <2>2 DEF Running
  <2>4. Finished' = Finished BY <2>1 DEF Finished
  <2>5. QED BY <2>1, <2>3, <2>4 DEF Quiet
<1>3. QED BY <1>1, <1>2

(* A step of the host is a step of the abstract specification or none.     *)
LEMMA HostRefines ==
  ASSUME IInv, HostStep
  PROVE  Quiet \/ FJ!Next
<1>1. CASE CreateThread \/ SeeAck \/ SeeDone \/ Join
  <2>1. /\ UNCHANGED <<n_pipeline, Busy, job, runs, Done>>
        /\ ~(hpc = "hostrun") /\ ~(hpc' = "hostrun")
    BY <1>1 DEF CreateThread, SeeAck, SeeDone, Join, static, task
  <2>2. \A t \in Slots : (tpc[t] \in {"run", "flag"})' <=> tpc[t] \in {"run", "flag"}
    <3>1. CASE CreateThread
      <4>1. id \in Slots /\ ~Busy /\ NThread \in Int
        BY <3>1, Numbers DEF CreateThread, IInv, HostInv
      <4>2. tpc[id] \notin {"run", "flag"}
        BY <4>1, RunningPending DEF HandedOut
      <4>3. QED BY <3>1, <4>1, <4>2 DEF CreateThread, IInv, TypeOK
    <3>2. CASE SeeAck \/ SeeDone \/ Join
      BY <3>2 DEF SeeAck, SeeDone, Join
    <3>3. QED BY <1>1, <3>1, <3>2
  <2>3. QED BY <2>1, <2>2 DEF Quiet, Running, Finished
<1>2. CASE Terminate
  <2>1. /\ UNCHANGED <<n_pipeline, Busy, job, runs, Done>>
        /\ hpc = "halt" /\ hpc' = "join" /\ tpc' = Signalled(id)
    BY <1>2 DEF Terminate, static, task
  <2>2. \A t \in Slots : (tpc[t] \in {"run", "flag"})' <=> tpc[t] \in {"run", "flag"}
    BY <2>1 DEF Signalled, IInv, TypeOK
  <2>3. QED BY <2>1, <2>2 DEF Quiet, Running, Finished
<1>3. CASE BootReturn
  <2>1. /\ n_pipeline = 0 /\ n_pipeline' = tpp /\ tpp \in 1..MaxPipeline
        /\ UNCHANGED <<Busy, job, tpc, runs, Done, id>>
        /\ hpc = "create" /\ hpc' = "app"
    BY <1>3, Numbers DEF BootReturn, IInv, HostInv, task
  <2>2. Running' = Running /\ Finished' = Finished
    BY <2>1 DEF Running, Finished
  <2>3. QED BY <2>1, <2>2 DEF FJ!Next, FJ!Boot
<1>4. CASE HaltReturn
  <2>1. /\ n_pipeline # 0 /\ n_pipeline' = 0 /\ ~Busy
        /\ UNCHANGED <<Busy, job, tpc, runs, Done, id>>
        /\ hpc = "halt" /\ hpc' = "app"
    BY <1>4 DEF HaltReturn, IInv, HostInv, task
  <2>2. Running' = Running /\ Finished' = Finished
    BY <2>1 DEF Running, Finished
  <2>3. QED BY <2>1, <2>2 DEF FJ!Next, FJ!Halt
<1>5. QED
  BY <1>1, <1>2, <1>3, <1>4, WaitRefines, HostJobRefines, HostRunRefines, HandOverQuiet
  DEF HostStep, FJ!Next

-----------------------------------------------------------------------------
(* A thread begins its job when it reads the state "execute" ...           *)
LEMMA SwitchRefines ==
  ASSUME IInv, NEW t \in Slots, Switch(t)
  PROVE  Quiet \/ \E j \in FJ!Jobs : FJ!Begin(j)
<1>1. /\ tpc[t] = "switch"
      /\ UNCHANGED <<n_pipeline, tpp, Dispatch_To_Host, Busy, hpc, id, job, runs, Done>>
  BY DEF Switch, Goto, static, task, control
<1>2. Finished' = Finished BY <1>1 DEF Finished
<1>3. state[t] \in {"sleep", "execute", "terminate", "ack"} BY DEF IInv, TypeOK
<1>4. \A u \in Slots : tpc'[u] = IF u # t THEN tpc[u]
                                 ELSE CASE state[t] = "terminate" -> "exited"
                                        [] state[t] = "execute"   -> "run"
                                        [] OTHER                  -> "doze"
  BY DEF Switch, Goto, IInv, TypeOK
<1>5. CASE state[t] # "execute"
  <2>1. \A u \in Slots : (tpc[u] \in {"run", "flag"})' <=> tpc[u] \in {"run", "flag"}
    BY <1>1, <1>3, <1>4, <1>5
  <2>2. QED BY <1>1, <1>2, <2>1 DEF Quiet, Running
<1>6. CASE state[t] = "execute"
  <2>1. tpc'[t] = "run" BY <1>4, <1>6
  <2>2. Pending(t) /\ job[t] \in Slots
    BY <1>1, <1>6 DEF Pending, Assigned, IInv, TypeOK
  <2>3. Busy /\ job[t] < NThread /\ Done[job[t]] = 0 /\ Busy \in BOOLEAN
    BY <2>2 DEF IInv, PendingInv, PendingOK, HandedOut, TypeOK
  <2>4. job[t] \in FJ!Jobs
    BY <2>2, <2>3, Numbers DEF IInv, HostInv, FJ!Jobs
  <2>5. job[t] \notin Finished BY <2>2, <2>3 DEF Finished
  <2>6. job[t] \notin Running
    <3>1. \A u \in Slots : tpc[u] \in {"run", "flag"} => job[u] # job[t]
      BY <1>1, <2>2, RunningPending DEF IInv, DistinctInv
    <3>2. hpc = "hostrun" => job[t] # id
      BY <2>2, <2>3, Numbers DEF IInv, HostInv
    <3>3. QED BY <3>1, <3>2 DEF Running
  <2>7. Running' = Running \cup {job[t]}
    BY <1>1, <1>4, <2>1 DEF Running
  <2>8. FJ!Begin(job[t])
    BY <1>1, <1>2, <2>3, <2>5, <2>6, <2>7 DEF FJ!Begin
  <2>9. QED BY <2>4, <2>8
<1>7. QED BY <1>5, <1>6

(* ... and ends it when it sets the flag.                                  *)
LEMMA SetFlagRefines ==
  ASSUME IInv, NEW t \in Slots, SetFlag(t)
  PROVE  \E j \in FJ!Jobs : FJ!End(j)
<1>1. /\ tpc[t] = "flag" /\ tpc' = [tpc EXCEPT ![t] = "doze"]
      /\ Done' = [Done EXCEPT ![job[t]] = 1]
      /\ UNCHANGED <<n_pipeline, Busy, hpc, id, job, runs>>
  BY DEF SetFlag, Flagged, Goto, static, task, control
<1>2. /\ Pending(t) /\ job[t] \in Slots /\ job[t] < NThread /\ job[t] < n_pipeline
      /\ HandedOut(job[t])
  BY <1>1, RunningPending
<1>3. runs[job[t]] = 1 /\ Busy
  BY <1>1, <1>2 DEF IInv, PendingInv, PendingOK, HandedOut
<1>4. job[t] \in FJ!Jobs
  BY <1>2, Numbers DEF IInv, FJ!Jobs
<1>5. \A j \in Slots : Done'[j] = IF j = job[t] THEN 1 ELSE Done[j]
  BY <1>1, <1>2 DEF IInv, TypeOK
<1>6. Finished' = Finished \cup {job[t]}
  BY <1>1, <1>2, <1>3, <1>5 DEF Finished
<1>7. job[t] \in Running BY <1>1 DEF Running
<1>8. Running' = Running \ {job[t]}
  <2>1. \A u \in Slots \ {t} : tpc[u] \in {"run", "flag"} => job[u] # job[t]
    BY <1>2, RunningPending DEF IInv, DistinctInv
  <2>2. hpc = "hostrun" => job[t] # id
    BY <1>2, Numbers DEF IInv, HostInv
  <2>3. \A u \in Slots : tpc'[u] = IF u = t THEN "doze" ELSE tpc[u]
    BY <1>1 DEF IInv, TypeOK
  <2>4. QED BY <1>1, <2>1, <2>2, <2>3 DEF Running
<1>9. FJ!End(job[t]) BY <1>1, <1>6, <1>7, <1>8 DEF FJ!End
<1>10. QED BY <1>4, <1>9

(* A step of a thread is a step of the abstract specification or none.     *)
LEMMA ThreadRefines ==
  ASSUME IInv, NEW t \in Slots, ThreadStep(t) \/ SpuriousWake(t)
  PROVE  Quiet \/ FJ!Next
<1>1. CASE ThreadStart(t) \/ Doze(t) \/ CondWait(t) \/ Relock(t) \/ SpuriousWake(t)
  <2>1. /\ UNCHANGED <<n_pipeline, Busy, hpc, id, job, runs, Done>>
        /\ \A u \in Slots : (tpc[u] \in {"run", "flag"})' <=> tpc[u] \in {"run", "flag"}
    BY <1>1 DEF ThreadStart, Doze, CondWait, Relock, SpuriousWake, Goto, static, task,
       control, IInv, TypeOK
  <2>2. QED BY <2>1 DEF Quiet, Running, Finished
<1>2. CASE RunJob(t)
  <2>1. /\ tpc[t] = "run" /\ tpc' = [tpc EXCEPT ![t] = "flag"]
        /\ runs' = [runs EXCEPT ![job[t]] = @ + 1]
        /\ UNCHANGED <<n_pipeline, Busy, hpc, id, job, Done>>
    BY <1>2 DEF RunJob, Goto, static, task, control
  <2>2. Done[job[t]] = 0 /\ job[t] \in Slots BY <2>1, RunningPending
  <2>3. \A j \in Slots : j # job[t] => runs'[j] = runs[j]
    BY <2>1, <2>2 DEF IInv, TypeOK
  <2>4. Finished' = Finished
    <3>1. \A j \in Slots : Done[j] = 1 => j # job[t]
      BY <2>2
    <3>2. QED BY <2>1, <2>3, <3>1 DEF Finished
  <2>5. \A u \in Slots : (tpc[u] \in {"run", "flag"})' <=> tpc[u] \in {"run", "flag"}
    BY <2>1 DEF IInv, TypeOK
  <2>6. QED BY <2>1, <2>4, <2>5 DEF Quiet, Running
<1>3. CASE Switch(t)
  BY <1>3, SwitchRefines DEF FJ!Next
<1>4. CASE SetFlag(t)
  BY <1>4, SetFlagRefines DEF FJ!Next
<1>5. QED BY <1>1, <1>2, <1>3, <1>4 DEF ThreadStep

-----------------------------------------------------------------------------
(* Every behaviour of the pthread dispatcher is one the fork/join contract *)
(* allows: each job of each dispatch begins once and ends once, wait       *)
(* returns only when all have ended, halt only when nothing is open.       *)
THEOREM Refinement ==
  ASSUME BooleanDispatchToHost
  PROVE  Spec => ImplementsForkJoin
<1>1. Init => FJ!Init
  BY DEF Init, FJ!Init, Running, Finished
<1>2. IInv /\ [Next]_vars => [FJ!Next]_FJ!fjvars
  <2> SUFFICES ASSUME IInv, [Next]_vars PROVE Quiet \/ FJ!Next
    BY DEF Quiet, FJ!fjvars
  <2>1. CASE Call BY <2>1, CallsRefine DEF FJ!Next
  <2>2. CASE HostStep BY <2>2, HostRefines
  <2>3. ASSUME NEW t \in Slots, ThreadStep(t) \/ SpuriousWake(t)
        PROVE  Quiet \/ FJ!Next
    BY <2>3, ThreadRefines
  <2>4. CASE UNCHANGED vars
    BY <2>4, FrameQuiet DEF vars
  <2>5. QED BY <2>1, <2>2, <2>3, <2>4 DEF Next, Aborted
<1>3. QED
  BY <1>1, <1>2, Inductive, PTL DEF Spec, ImplementsForkJoin, FJ!Spec
=============================================================================
