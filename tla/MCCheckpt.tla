------------------------------ MODULE MCCheckpt -----------------------------
(* An instance of Checkpt for TLC: one static object and two addresses to  *)
(* allocate, so that an object may come back where another one was.        *)
EXTENDS Checkpt, TLC

CONSTANTS h1, h2, world
HeapOf2 == {h1, h2}
World == <<world>>
=============================================================================
