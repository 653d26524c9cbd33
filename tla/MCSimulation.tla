---------------------------- MODULE MCSimulation ----------------------------
(* Instances of Simulation for TLC; the configurations choose the number   *)
(* of ranks and steps, how the deck writes checkpoints and how many jobs   *)
(* are started.                                                            *)
EXTENDS Simulation
=============================================================================
