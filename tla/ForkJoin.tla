------------------------------ MODULE ForkJoin ------------------------------
(***************************************************************************)
(* What a pipeline dispatcher promises to the code that calls it           *)
(* (pipeline_dispatcher_t in util/pipelines/pipelines_pthreads.h): boot     *)
(* makes n pipelines, dispatch begins one job per pipeline, wait returns   *)
(* once every job of that dispatch has been executed exactly once, halt    *)
(* gives the pipelines back.  Nothing is said of who executes a job, nor   *)
(* in which order: the pthread and the serial dispatcher both implement    *)
(* this module.                                                            *)
(***************************************************************************)
EXTENDS Integers

CONSTANT MaxPipeline    (* MAX_PIPELINE: the largest number of pipelines   *)

VARIABLES
  n_pipeline,           (* number of pipelines; 0 before boot, after halt  *)
  open,                 (* a dispatch has begun and is not waited for yet  *)
  running,              (* jobs being executed                             *)
  finished              (* jobs of the open dispatch already executed      *)

fjvars == <<n_pipeline, open, running, finished>>

Jobs == 0..(n_pipeline - 1)

Init ==
  /\ n_pipeline = 0
  /\ open = FALSE
  /\ running = {}
  /\ finished = {}

Boot ==
  /\ n_pipeline = 0
  /\ n_pipeline' \in 1..MaxPipeline
  /\ UNCHANGED <<open, running, finished>>

Dispatch ==
  /\ n_pipeline # 0 /\ ~open
  /\ open' = TRUE
  /\ UNCHANGED <<n_pipeline, running, finished>>

(* A job of the open dispatch is begun once ...                            *)
Begin(j) ==
  /\ open
  /\ j \notin running \cup finished
  /\ running' = running \cup {j}
  /\ UNCHANGED <<n_pipeline, open, finished>>

(* ... and ended once.                                                     *)
End(j) ==
  /\ j \in running
  /\ running' = running \ {j}
  /\ finished' = finished \cup {j}
  /\ UNCHANGED <<n_pipeline, open>>

Wait ==
  /\ open
  /\ finished = Jobs
  /\ open' = FALSE
  /\ finished' = {}
  /\ UNCHANGED <<n_pipeline, running>>

Halt ==
  /\ n_pipeline # 0 /\ ~open
  /\ n_pipeline' = 0
  /\ UNCHANGED <<open, running, finished>>

Next ==
  \/ Boot \/ Dispatch \/ Wait \/ Halt
  \/ \E j \in Jobs : Begin(j) \/ End(j)

Spec == Init /\ [][Next]_fjvars
=============================================================================
