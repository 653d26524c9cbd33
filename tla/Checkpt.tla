------------------------------ MODULE Checkpt -------------------------------
(***************************************************************************)
(* The checkpoint service of one process (util/checkpt/checkpt.cc): the    *)
(* registry of objects, the checkpoint and restore streams, and pointers   *)
(* between objects, which are written as identifiers.                      *)
(*                                                                         *)
(* An object is what matters of one: a pointer restored in its restore     *)
(* function (CHECKPT_PTR, to an object it was built on) and one restored   *)
(* in two stages (CHECKPT_FPTR, to any object).  A pointer is an address,  *)
(* NULL, or, between restore_fptr and reanimate_fptr, an identifier cast   *)
(* to an address.  A process may die at any step and be started again.     *)
(*                                                                         *)
(* The application keeps the contract of checkpt.h: it registers an object *)
(* once, at its creation, never unregisters one that is pointed to,        *)
(* restores right after boot, and names a checkpoint that was completed    *)
(* (checkpt_read does not see the end of a file).                          *)
(***************************************************************************)
EXTENDS Integers, Sequences, FiniteSets

CONSTANTS
  Heap,      (* where objects may be allocated                             *)
  Statics,   (* the objects boot_services registers, in order: static ones *)
  NULL,
  Names,     (* names of checkpoints                                       *)
  Forward,   (* TRUE: the application also uses CHECKPT_PTR for pointers   *)
             (* to the object itself or to a younger one                   *)
  MaxId      (* bound: identifiers doled out in one history                *)

StaticSet == {Statics[k] : k \in DOMAIN Statics}
Addr == Heap \cup StaticSet

ASSUME CheckptAssumption ==
  /\ Heap \cap StaticSet = {} /\ NULL \notin Addr
  /\ NULL \notin Nat (* no identifier, cast, is NULL *)
  /\ Statics \in Seq(StaticSet) /\ Statics # <<>>
  /\ \A j, k \in DOMAIN Statics : Statics[j] = Statics[k] => j = k
  /\ Forward \in BOOLEAN /\ MaxId \in Nat /\ Len(Statics) <= MaxId

VARIABLES
  pc,         (* "down", "booted", "app", "writing", "reading", "restored",*)
              (* "reanimating", or "error" once ERROR was called           *)
  registry,   (* sequence of [id, obj]                                     *)
  next_id,
  mem,        (* [address -> ptr and fptr of the object there]             *)
  file,       (* name given to checkpt_objects or restore_objects          *)
  done,       (* nodes reanimated so far                                   *)
  disk        (* [name -> [next_id, nodes, complete]]                      *)

vars == <<pc, registry, next_id, mem, file, done, disk>>

Blank == [ptr |-> NULL, fptr |-> NULL]
Objs == {registry[k].obj : k \in DOMAIN registry}

object_id(reg, a) ==
  IF \E k \in DOMAIN reg : reg[k].obj = a
  THEN reg[CHOOSE k \in DOMAIN reg : reg[k].obj = a /\ \A j \in 1 .. k - 1 : reg[j].obj # a].id
  ELSE 0
object_ptr(reg, id) ==
  IF \E k \in DOMAIN reg : reg[k].id = id
  THEN reg[CHOOSE k \in DOMAIN reg : reg[k].id = id /\ \A j \in 1 .. k - 1 : reg[j].id # id].obj
  ELSE NULL

Init ==
  /\ pc = "down" /\ registry = <<>> /\ next_id = 1
  /\ mem = [a \in Addr |-> Blank] /\ done = 0
  /\ file \in Names
  /\ disk = [n \in Names |-> [next_id |-> 0, nodes |-> <<>>, complete |-> FALSE]]

-----------------------------------------------------------------------------
(* boot_checkpt, then what the dispatchers and mp register.                *)
FirstId_Zero == 0
FirstId == 1

Boot ==
  /\ pc = "down" /\ pc' = "booted"
  /\ registry' = [k \in DOMAIN Statics |-> [id |-> FirstId + k - 1, obj |-> Statics[k]]]
  /\ next_id' = FirstId + Len(Statics)
  /\ UNCHANGED <<mem, file, done, disk>>

(* What a pointer may be written for; no object points to a static one.    *)
Targets == Objs \cap Heap

(* No --restore: the program builds its objects.                           *)
Initialize ==
  /\ pc = "booted" /\ pc' = "app"
  /\ UNCHANGED <<registry, next_id, mem, file, done, disk>>

Registered_First(node) == <<node>> \o registry
Registered(node) == Append(registry, node)

RegisterObject(a, p, f) ==
  /\ pc = "app" /\ next_id <= MaxId
  /\ a \notin Objs
  /\ registry' = Registered([id |-> next_id, obj |-> a])
  /\ next_id' = next_id + 1
  /\ mem' = [mem EXCEPT ![a] = [ptr |-> p, fptr |-> f]]
  /\ UNCHANGED <<pc, file, done, disk>>

SetFptr(a, f) ==
  /\ pc = "app"
  /\ mem' = [mem EXCEPT ![a].fptr = f]
  /\ UNCHANGED <<pc, registry, next_id, file, done, disk>>

Without(s, k) == [j \in 1 .. Len(s) - 1 |-> IF j < k THEN s[j] ELSE s[j + 1]]

UnregisterObject(a) ==
  /\ pc = "app"
  /\ \A b \in Objs \ {a} : mem[b].ptr # a /\ mem[b].fptr # a
  /\ \E k \in DOMAIN registry : registry[k].obj = a /\ registry' = Without(registry, k)
  /\ mem' = [mem EXCEPT ![a] = Blank]
  /\ UNCHANGED <<pc, next_id, file, done, disk>>

-----------------------------------------------------------------------------
(* checkpt_objects                                                         *)
CheckptOpen(n) ==
  /\ pc = "app" /\ pc' = "writing" /\ file' = n
  /\ disk' = [disk EXCEPT ![n] = [next_id |-> next_id, nodes |-> <<>>, complete |-> FALSE]]
  /\ UNCHANGED <<registry, next_id, mem, done>>

Written == disk[file].nodes
Refused(ptr) == ptr # NULL /\ object_id(registry, ptr) = 0

CheckptNode ==
  /\ pc = "writing" /\ Len(Written) < Len(registry)
  /\ LET node == registry[Len(Written) + 1]
         o    == mem[node.obj]
     IN IF Refused(o.ptr) \/ Refused(o.fptr)
        THEN pc' = "error" /\ UNCHANGED disk
        ELSE /\ disk' = [disk EXCEPT ![file].nodes =
                  Append(@, [id |-> node.id, obj |-> node.obj,
                             ptr |-> object_id(registry, o.ptr),
                             fptr |-> object_id(registry, o.fptr)])]
             /\ UNCHANGED pc
  /\ UNCHANGED <<registry, next_id, mem, file, done>>

CheckptClose ==
  /\ pc = "writing" /\ Len(Written) = Len(registry)
  /\ disk' = [disk EXCEPT ![file].complete = TRUE]
  /\ pc' = "app"
  /\ UNCHANGED <<registry, next_id, mem, file, done>>

-----------------------------------------------------------------------------
(* restore_objects: what boot registered is silently forgotten.            *)
RestoredNextId_Count(n) == Len(disk[n].nodes) + 1
RestoredNextId(n) == disk[n].next_id

RestoreOpen(n) ==
  /\ pc = "booted" /\ disk[n].complete
  /\ pc' = "reading" /\ file' = n
  /\ registry' = <<>> /\ next_id' = RestoredNextId(n)
  /\ UNCHANGED <<mem, done, disk>>

(* A node enters the registry as it was written, with the address its      *)
(* object had then, before the restore function allocates the object (a    *)
(* static one stays where it is) and looks up the pointer in it.           *)
Stale(node) == [id |-> node.id, obj |-> node.obj]

Back(node, a) == [id |-> node.id, obj |-> a]

restore_ptr(reg, id) == IF id = 0 THEN NULL ELSE object_ptr(reg, id)
restore_fptr(id) == IF id = 0 THEN NULL ELSE id

Allocated(node, a) ==
  IF node.obj \in StaticSet THEN a = node.obj ELSE a \in Heap \ Objs

RestoreNode(a) ==
  /\ pc = "reading" /\ Len(registry) < Len(Written)
  /\ LET node == Written[Len(registry) + 1]
         reg  == Append(registry, Stale(node))
         ptr  == restore_ptr(reg, node.ptr)
     IN /\ Allocated(node, a)
        /\ registry' = Append(registry, Back(node, a))
        /\ mem' = [mem EXCEPT ![a] = [ptr |-> ptr, fptr |-> restore_fptr(node.fptr)]]
        /\ IF node.ptr # 0 /\ ptr = NULL THEN pc' = "error" ELSE UNCHANGED pc
  /\ UNCHANGED <<next_id, file, done, disk>>

RestoreClose ==
  /\ pc = "reading" /\ Len(registry) = Len(Written)
  /\ pc' = "restored" /\ done' = 0
  /\ UNCHANGED <<registry, next_id, mem, file, disk>>

-----------------------------------------------------------------------------
(* reanimate_objects                                                       *)
reanimate_fptr_Forgotten(id) == id
reanimate_fptr(id) == IF id = NULL THEN NULL ELSE object_ptr(registry, id)

ReanimateNode ==
  /\ pc \in {"restored", "reanimating"} /\ done < Len(registry)
  /\ LET a    == registry[done + 1].obj
         fptr == reanimate_fptr(mem[a].fptr)
     IN /\ mem' = [mem EXCEPT ![a].fptr = fptr]
        /\ pc' = IF mem[a].fptr # NULL /\ fptr = NULL THEN "error" ELSE "reanimating"
  /\ done' = done + 1
  /\ UNCHANGED <<registry, next_id, file, disk>>

ReanimateReturn ==
  /\ pc \in {"restored", "reanimating"} /\ done = Len(registry)
  /\ pc' = "app" /\ done' = 0
  /\ UNCHANGED <<registry, next_id, mem, file, disk>>

(* The process ends; its memory goes with it, the disk stays.              *)
Die ==
  /\ pc # "down" /\ pc' = "down"
  /\ registry' = <<>> /\ next_id' = 1 /\ done' = 0
  /\ mem' = [a \in Addr |-> Blank]
  /\ UNCHANGED <<file, disk>>

-----------------------------------------------------------------------------
Next ==
  \/ Boot \/ Initialize
  \/ \E a \in Heap \ Objs, p \in Targets \cup {NULL} :
       \E f \in Targets \cup {NULL, a} :
         \/ RegisterObject(a, p, f)
         \/ Forward /\ RegisterObject(a, a, f)
  \/ \E a \in Objs \cap Heap :
       \/ UnregisterObject(a)
       \/ \E f \in Targets \cup {NULL} : SetFptr(a, f)
  \/ \E n \in Names : CheckptOpen(n) \/ RestoreOpen(n)
  \/ CheckptNode \/ CheckptClose
  \/ \E a \in Addr : RestoreNode(a)
  \/ RestoreClose \/ ReanimateNode \/ ReanimateReturn
  \/ Die

Spec == Init /\ [][Next]_vars

-----------------------------------------------------------------------------
(* Every variable keeps its type.  Identifiers are never zero, which stands*)
(* for an error (checkpt.cc:42-43).                                        *)
TypeOK ==
  /\ pc \in {"down", "booted", "app", "writing", "reading", "restored", "reanimating", "error"}
  /\ registry \in Seq([id : 1 .. MaxId, obj : Addr])
  /\ next_id \in 1 .. MaxId + 1
  /\ mem \in [Addr -> [ptr : Addr \cup {NULL}, fptr : Addr \cup {NULL} \cup (1 .. MaxId)]]
  /\ file \in Names /\ done \in 0 .. Len(registry)
  /\ disk \in [Names -> [next_id : 0 .. MaxId + 1, complete : BOOLEAN,
                         nodes : Seq([id : 1 .. MaxId, obj : Addr,
                                      ptr : 0 .. MaxId, fptr : 0 .. MaxId])]]

(* A program that keeps the contract never meets an ERROR: every pointer   *)
(* of every object can be written, and every pointer of a checkpoint can   *)
(* be restored and reanimated whenever its turn comes.                     *)
NeverRefuses == pc # "error"

(* While the application runs, its objects point to objects that exist:    *)
(* no address of the process that wrote the checkpoint is left, and no     *)
(* identifier that was not turned back into an address.                    *)
NoStalePointer ==
  pc \in {"app", "writing"} =>
    \A a \in Objs : {mem[a].ptr, mem[a].fptr} \subseteq Objs \cup {NULL}

-----------------------------------------------------------------------------
(* The object store this implements: pointers by identifier, and a restore *)
(* that happens at once, when the objects are back in the hands of main.   *)
Graph(reg, m) ==
  [i \in {reg[k].id : k \in DOMAIN reg} |->
     LET o == m[object_ptr(reg, i)]
     IN [ptr |-> object_id(reg, o.ptr), fptr |-> object_id(reg, o.fptr)]]

GraphOf(nodes) ==
  [i \in {nodes[k].id : k \in DOMAIN nodes} |->
     LET node == nodes[CHOOSE k \in DOMAIN nodes : nodes[k].id = i]
     IN [ptr |-> node.ptr, fptr |-> node.fptr]]

Nothing == [i \in {} |-> 0]
Up == pc \in {"booted", "app", "writing"}
Live == IF Up THEN Graph(registry, mem) ELSE Nothing
Used == IF Up THEN 1 .. next_id - 1 ELSE {}
Kept ==
  [n \in Names |->
     IF disk[n].complete
     THEN [live |-> GraphOf(disk[n].nodes), used |-> 1 .. disk[n].next_id - 1]
     ELSE [live |-> Nothing, used |-> {}]]

Store == INSTANCE ObjectStore WITH
  Ids <- 1 .. MaxId, Boots <- Len(Statics), live <- Live, used <- Used, saved <- Kept

(* Identifiers are stable across a checkpoint and a restore and are never  *)
(* given twice in one history, and a restored checkpoint has the objects   *)
(* and the pointers it was taken with, though nothing is where it was.     *)
ImplementsObjectStore == Store!Spec
=============================================================================
