-------------------------- MODULE SerialPipelines ---------------------------
(***************************************************************************)
(* The serial dispatcher, util/pipelines/pipelines_serial.cc: the same     *)
(* four calls with the jobs run by the caller, inside serial_dispatch.     *)
(* The caller is arbitrary and meets the ERROR guards.                     *)
(***************************************************************************)
EXTENDS Integers

CONSTANTS
  MaxPipeline,      (* MAX_PIPELINE                                        *)
  SerialArgs        (* values of --serial.n_pipeline                       *)

ASSUME SerialAssumption == MaxPipeline \in Nat \ {0} /\ SerialArgs \subseteq Int

VARIABLES n_pipeline, Busy, hpc, id

vars == <<n_pipeline, Busy, hpc, id>>

Init == n_pipeline = 0 /\ Busy = FALSE /\ hpc = "app" /\ id = 0

Boot(n) ==
  /\ hpc = "app"
  /\ IF n_pipeline # 0
     THEN hpc' = "error" /\ UNCHANGED <<n_pipeline, Busy>>
     ELSE /\ n_pipeline' = n
          /\ IF n < 1 \/ n > MaxPipeline
             THEN hpc' = "error" /\ UNCHANGED Busy
             ELSE Busy' = FALSE /\ UNCHANGED hpc
  /\ UNCHANGED id

Dispatch ==
  /\ hpc = "app"
  /\ IF n_pipeline = 0 \/ Busy
     THEN hpc' = "error" /\ UNCHANGED <<Busy, id>>
     ELSE Busy' = TRUE /\ id' = 0 /\ hpc' = "dispatch"
  /\ UNCHANGED n_pipeline

JobLeft_OffByOne == id < n_pipeline - 1
JobLeft == id < n_pipeline

(* The loop of serial_dispatch: call the job, then step to the next one.   *)
StartJob == hpc = "dispatch" /\ JobLeft /\ hpc' = "run" /\ UNCHANGED <<n_pipeline, Busy, id>>
EndJob == hpc = "run" /\ hpc' = "dispatch" /\ id' = id + 1 /\ UNCHANGED <<n_pipeline, Busy>>
DispatchReturn == hpc = "dispatch" /\ ~JobLeft /\ hpc' = "app" /\ UNCHANGED <<n_pipeline, Busy, id>>

Wait ==
  /\ hpc = "app"
  /\ IF n_pipeline = 0 \/ ~Busy
     THEN hpc' = "error" /\ UNCHANGED Busy
     ELSE Busy' = FALSE /\ UNCHANGED hpc
  /\ UNCHANGED <<n_pipeline, id>>

Halt ==
  /\ hpc = "app"
  /\ IF n_pipeline = 0 \/ Busy
     THEN hpc' = "error" /\ UNCHANGED n_pipeline
     ELSE n_pipeline' = 0 /\ UNCHANGED hpc
  /\ UNCHANGED <<Busy, id>>

Aborted == hpc = "error" /\ UNCHANGED vars

Next ==
  \/ \E n \in SerialArgs : Boot(n)
  \/ Dispatch \/ StartJob \/ EndJob \/ DispatchReturn \/ Wait \/ Halt \/ Aborted

Spec == Init /\ [][Next]_vars

-----------------------------------------------------------------------------
(* The serial dispatcher keeps the same fork/join contract as the threaded *)
(* one, so code debugged with one runs the same jobs with the other.  A    *)
(* refused boot leaves the bad count behind, but the process has aborted.  *)
FJ == INSTANCE ForkJoin WITH
        n_pipeline <- IF n_pipeline \in 1..MaxPipeline THEN n_pipeline ELSE 0,
        open <- Busy,
        running <- IF hpc = "run" THEN {id} ELSE {},
        finished <- IF Busy THEN 0..(id - 1) ELSE {}
ImplementsForkJoin == FJ!Spec
=============================================================================
