---------------------------- MODULE ObjectStore -----------------------------
(***************************************************************************)
(* What the checkpoint service (util/checkpt/checkpt.h) promises a program *)
(* that keeps its contract: objects have identifiers that are stable       *)
(* across a checkpoint and a restore and are never given to two objects of *)
(* one history; a checkpoint that was completed brings back the objects    *)
(* with the very pointers between them, whatever happened in between.      *)
(*                                                                         *)
(* Addresses do not occur here: a pointer is the identifier of the object  *)
(* it points to, 0 when it is NULL.                                        *)
(***************************************************************************)
EXTENDS Integers, FiniteSets

CONSTANTS
  Ids,     (* the identifiers a behaviour may use                          *)
  Boots,   (* how many objects the services themselves register            *)
  Names    (* the checkpoints on disk                                      *)

VARIABLES
  live,    (* [id -> its two pointers] of the objects that exist           *)
  used,    (* identifiers given out in the history of these objects        *)
  saved    (* [name -> what the checkpoint holds, Partial if it has no end]*)

vars == <<live, used, saved>>

NoObjects == [i \in {} |-> 0]
Partial == [live |-> NoObjects, used |-> {}]

Init ==
  /\ live = NoObjects /\ used = {}
  /\ saved = [n \in Names |-> Partial]

Boot ==
  /\ live = NoObjects
  /\ live' = [i \in 1 .. Boots |-> [ptr |-> 0, fptr |-> 0]]
  /\ used' = 1 .. Boots
  /\ UNCHANGED saved

(* An object appears under an identifier nobody has had; the one it is     *)
(* built on (ptr) exists, the other (fptr) may be the object itself.       *)
Register ==
  \E i \in Ids \ used :
    \E p \in DOMAIN live \cup {0}, f \in DOMAIN live \cup {0, i} :
      /\ live # NoObjects
      /\ live' = [j \in DOMAIN live \cup {i} |->
                    IF j = i THEN [ptr |-> p, fptr |-> f] ELSE live[j]]
      /\ used' = used \cup {i}
      /\ UNCHANGED saved

Link ==
  \E i \in DOMAIN live, f \in DOMAIN live \cup {0} :
    /\ live' = [live EXCEPT ![i].fptr = f]
    /\ UNCHANGED <<used, saved>>

Unregister ==
  \E i \in DOMAIN live :
    /\ \A j \in DOMAIN live \ {i} : live[j].ptr # i /\ live[j].fptr # i
    /\ live' = [j \in DOMAIN live \ {i} |-> live[j]]
    /\ UNCHANGED <<used, saved>>

(* A checkpoint overwrites the one of the same name, first losing it.      *)
Discard ==
  \E n \in Names :
    saved' = [saved EXCEPT ![n] = Partial] /\ UNCHANGED <<live, used>>

Save ==
  \E n \in Names :
    /\ saved[n] = Partial
    /\ saved' = [saved EXCEPT ![n] = [live |-> live, used |-> used]]
    /\ UNCHANGED <<live, used>>

(* The process ends, by itself or not; nothing but the disk survives.      *)
Die == live' = NoObjects /\ used' = {} /\ UNCHANGED saved

Restore ==
  \E n \in Names :
    /\ live = NoObjects /\ saved[n] # Partial
    /\ live' = saved[n].live /\ used' = saved[n].used
    /\ UNCHANGED saved

Next == Boot \/ Register \/ Link \/ Unregister \/ Discard \/ Save \/ Die \/ Restore

Spec == Init /\ [][Next]_vars
=============================================================================
