---------------------------- MODULE CheckptProofs ---------------------------
(***************************************************************************)
(* Pointers survive a checkpoint and a restore, for any heap, any number   *)
(* of objects and any names of checkpoints.                                *)
(*                                                                         *)
(* Whatever is in the registry is in it once, under an identifier that is  *)
(* below next_id, behind the objects it was built on.  A file lists the    *)
(* same objects in the same order with identifiers for addresses, and the  *)
(* registry of a process that restores runs through that list.             *)
(***************************************************************************)
EXTENDS Checkpt, SequenceTheorems, TLAPS

Place == {"down", "booted", "app", "writing", "reading", "restored", "reanimating"}
Node == [id : Nat \ {0}, obj : Addr]
Saved == [id : Nat \ {0}, obj : Addr, ptr : Nat, fptr : Nat]
Object == [ptr : Addr \cup {NULL}, fptr : Addr \cup {NULL} \cup Nat]
File == [next_id : Nat, nodes : Seq(Saved), complete : BOOLEAN]

(* What the variables hold; that an ERROR is never met is part of it.      *)
Types ==
  /\ pc \in Place /\ registry \in Seq(Node) /\ next_id \in Nat
  /\ mem \in [Addr -> Object] /\ file \in Names /\ done \in Nat
  /\ disk \in [Names -> File]

-----------------------------------------------------------------------------
(* Of a list of nodes: identifiers and objects occur once, identifiers are *)
(* below n, which is one itself.                                           *)
Distinct(s) == \A j, k \in DOMAIN s : s[j].id = s[k].id \/ s[j].obj = s[k].obj => j = k
Below(s, n) == n > 0 /\ \A k \in DOMAIN s : s[k].id < n

(* Pointers of the objects of a list, in memory m, or as identifiers: ptr  *)
(* to an earlier one, fptr to any of list t.                               *)
Built(s, m) ==
  \A k \in DOMAIN s : m[s[k].obj].ptr = NULL \/ \E j \in 1 .. k - 1 : m[s[k].obj].ptr = s[j].obj
Points(f, t) == f = NULL \/ \E j \in DOMAIN t : f = t[j].obj
Refers(f, t) == f = NULL \/ \E j \in DOMAIN t : f = t[j].id
BuiltById(s) ==
  \A k \in DOMAIN s : s[k].ptr = 0 \/ \E j \in 1 .. k - 1 : s[k].ptr = s[j].id
LinkedById(s, t) == \A k \in DOMAIN s : s[k].fptr = 0 \/ \E j \in DOMAIN t : s[k].fptr = t[j].id

(* The objects of a program that runs.                                     *)
Running ==
  pc \in {"booted", "app", "writing"} =>
    /\ Distinct(registry) /\ Below(registry, next_id) /\ Built(registry, mem)
    /\ \A k \in DOMAIN registry : Points(mem[registry[k].obj].fptr, registry)

(* The file being written has what the registry begins with.               *)
Same(s, t) == \A k \in DOMAIN s : k \in DOMAIN t /\ s[k].id = t[k].id /\ s[k].obj = t[k].obj
Writing ==
  pc = "writing" =>
    /\ disk[file].next_id = next_id /\ ~disk[file].complete
    /\ Same(Written, registry) /\ BuiltById(Written) /\ LinkedById(Written, registry)

(* A complete file can be restored.                                        *)
Restorable(f) ==
  /\ Distinct(f.nodes) /\ Below(f.nodes, f.next_id)
  /\ BuiltById(f.nodes) /\ LinkedById(f.nodes, f.nodes)
Files == \A n \in Names : disk[n].complete => Restorable(disk[n])

(* The registry while it is restored: as far as it goes it has the         *)
(* identifiers of the file, and static objects are where they always are.  *)
Echoes(s, t) ==
  \A k \in DOMAIN s :
    /\ k \in DOMAIN t /\ s[k].id = t[k].id
    /\ s[k].obj \in StaticSet \/ t[k].obj \in StaticSet => s[k].obj = t[k].obj
Restoring ==
  pc \in {"reading", "restored", "reanimating"} =>
    /\ disk[file].complete /\ next_id = disk[file].next_id
    /\ Distinct(registry) /\ Echoes(registry, Written) /\ Built(registry, mem)
    /\ pc = "reading" => \A k \in DOMAIN registry : Refers(mem[registry[k].obj].fptr, Written)
    /\ pc # "reading" =>
         /\ Len(registry) = Len(Written) /\ done <= Len(registry)
         /\ \A k \in DOMAIN registry : LET f == mem[registry[k].obj].fptr IN
              IF k <= done THEN Points(f, registry) ELSE Refers(f, registry)
    /\ pc = "restored" => done = 0

Fresh == pc = "down" => \A a \in Addr : mem[a] = Blank

IInv == Types /\ Fresh /\ Running /\ Writing /\ Files /\ Restoring
-----------------------------------------------------------------------------
(* What is registered is found by its address ...                          *)
LEMMA ObjectId ==
  ASSUME NEW reg \in Seq(Node), Distinct(reg), NEW k \in DOMAIN reg
  PROVE  object_id(reg, reg[k].obj) = reg[k].id
<1> DEFINE a == reg[k].obj
           P(i) == reg[i].obj = a /\ \A j \in 1 .. i - 1 : reg[j].obj # a
           c == CHOOSE i \in DOMAIN reg : P(i)
<1>1. \A j \in DOMAIN reg : reg[j].obj = a => j = k
  BY DEF Distinct
<1>2. P(k)
  BY <1>1
<1>3. c \in DOMAIN reg /\ P(c)
  BY <1>2
<1>4. c = k
  BY <1>1, <1>3
<1> QED BY <1>4 DEF object_id

(* The elements of a registry have an address and an identifier.           *)
LEMMA Nodes ==
  ASSUME NEW reg \in Seq(Node)
  PROVE  /\ DOMAIN reg = 1 .. Len(reg) /\ Len(reg) \in Nat
         /\ \A k \in DOMAIN reg : /\ reg[k] \in Node /\ reg[k].obj \in Addr
                                 /\ reg[k].id \in Nat \ {0}
<1>1. \A k \in DOMAIN reg : reg[k] \in Node
  OBVIOUS
<1>2. \A k \in DOMAIN reg : reg[k].obj \in Addr /\ reg[k].id \in Nat \ {0}
  BY <1>1 DEF Node
<1> QED BY <1>1, <1>2

(* NULL is not registered.                                                 *)
LEMMA NullId ==
  ASSUME NEW reg \in Seq(Node)
  PROVE  object_id(reg, NULL) = 0
<1>1. NULL \notin Addr
  BY CheckptAssumption
<1>2. \A k \in DOMAIN reg : reg[k].obj # NULL
  BY <1>1, Nodes
<1> QED BY <1>2 DEF object_id

(* ... and by its identifier, where identifiers occur once, even if        *)
(* addresses do not.                                                       *)
LEMMA ObjectPtr ==
  ASSUME NEW reg \in Seq(Node), \A i, j \in DOMAIN reg : reg[i].id = reg[j].id => i = j,
         NEW k \in DOMAIN reg
  PROVE  object_ptr(reg, reg[k].id) = reg[k].obj
<1> DEFINE id == reg[k].id
           P(i) == reg[i].id = id /\ \A j \in 1 .. i - 1 : reg[j].id # id
           c == CHOOSE i \in DOMAIN reg : P(i)
<1>1. \A j \in DOMAIN reg : reg[j].id = id => j = k
  OBVIOUS
<1>2. P(k)
  BY <1>1
<1>3. c \in DOMAIN reg /\ P(c)
  BY <1>2
<1>4. c = k
  BY <1>1, <1>3
<1> QED BY <1>4 DEF object_ptr

(* A list that an element is added to has it at its end.                   *)
LEMMA Appended ==
  ASSUME NEW S, NEW s \in Seq(S), NEW e \in S
  PROVE  /\ Append(s, e) \in Seq(S) /\ Len(Append(s, e)) = Len(s) + 1
         /\ DOMAIN Append(s, e) = 1 .. Len(s) + 1 /\ DOMAIN s = 1 .. Len(s)
         /\ Append(s, e)[Len(s) + 1] = e
         /\ \A k \in DOMAIN s : Append(s, e)[k] = s[k]
OBVIOUS

(* A list that an element is taken from has the others, in their order.    *)
LEMMA Taken ==
  ASSUME NEW S, NEW s \in Seq(S), NEW k \in DOMAIN s
  PROVE  /\ Without(s, k) \in Seq(S) /\ Len(Without(s, k)) = Len(s) - 1
         /\ DOMAIN Without(s, k) = 1 .. Len(s) - 1
         /\ \A j \in 1 .. Len(s) - 1 : Without(s, k)[j] = IF j < k THEN s[j] ELSE s[j + 1]
<1>1. /\ Len(s) - 1 \in Nat
      /\ \A j \in 1 .. Len(s) - 1 : (IF j < k THEN s[j] ELSE s[j + 1]) \in S
  OBVIOUS
<1>2. Without(s, k) \in [1 .. Len(s) - 1 -> S]
  BY <1>1 DEF Without
<1>3. Without(s, k) \in Seq(S) /\ Len(Without(s, k)) = Len(s) - 1
  BY <1>1, <1>2, IsASeq, LenProperties
<1> QED BY <1>2, <1>3 DEF Without
-----------------------------------------------------------------------------
(* A list is of whatever set its elements are in.                          *)
LEMMA Narrowed ==
  ASSUME NEW S, NEW U, NEW s \in Seq(S), \A k \in DOMAIN s : s[k] \in U
  PROVE  s \in Seq(U)
<1>1. s \in [1 .. Len(s) -> U] /\ Len(s) \in Nat
  BY LenProperties
<1> QED BY <1>1

(* The invariant holds to begin with.                                      *)
LEMMA Starts == Init => IInv
<1> SUFFICES ASSUME Init PROVE IInv
  OBVIOUS
<1>1. Types
  <2>1. [next_id |-> 0, nodes |-> <<>>, complete |-> FALSE] \in File
    BY DEF File
  <2>2. Blank \in Object
    BY DEF Blank, Object
  <2> QED BY <2>1, <2>2 DEF Init, Types, Place
<1> QED BY <1>1 DEF IInv, Init, Fresh, Running, Writing, Files, Restoring

(* What boot registers is registered once.                                 *)
LEMMA Boots == IInv /\ Boot => IInv'
<1> SUFFICES ASSUME IInv, Boot PROVE IInv'
  OBVIOUS
<1> USE CheckptAssumption DEF IInv, Types, Boot
<1>1. registry' \in Seq(Node) /\ DOMAIN registry' = DOMAIN Statics
  <2>1. Statics \in [1 .. Len(Statics) -> StaticSet] /\ DOMAIN Statics = 1 .. Len(Statics)
        /\ Len(Statics) \in Nat
    OBVIOUS
  <2>2. registry' \in [1 .. Len(Statics) -> Node]
    BY <2>1 DEF FirstId, Node, Addr
  <2> QED BY <2>1, <2>2 DEF FirstId
<1>2. Types'
  BY <1>1 DEF Place, FirstId
<1>3. Distinct(registry') /\ Below(registry', next_id')
  BY <1>1 DEF Distinct, Below, FirstId
<1>4. \A k \in DOMAIN registry' : mem'[registry'[k].obj] = Blank
  <2>1. \A k \in DOMAIN registry' : registry'[k].obj \in Addr
    BY <1>1 DEF Node
  <2> QED BY <2>1 DEF Fresh
<1>5. Running'
  BY <1>3, <1>4 DEF Running, Built, Points, Blank
<1> QED BY <1>2, <1>5 DEF Fresh, Writing, Files, Restoring

(* The objects of a program stay registered once, and what they point to   *)
(* stays registered, whatever it does with them.                           *)
LEMMA Registers ==
  ASSUME IInv, NEW a \in Heap \ Objs, NEW p \in Targets \cup {NULL},
         NEW f \in Targets \cup {NULL, a}, RegisterObject(a, p, f)
  PROVE  IInv'
<1> DEFINE n == Len(registry)
           node == [id |-> next_id, obj |-> a]
<1>1. /\ pc = "app" /\ registry' = Append(registry, node) /\ next_id' = next_id + 1
      /\ mem' = [mem EXCEPT ![a] = [ptr |-> p, fptr |-> f]] /\ UNCHANGED <<pc, file, done, disk>>
  BY DEF RegisterObject, Registered
<1>2. a \in Addr /\ p \in Addr \cup {NULL} /\ f \in Addr \cup {NULL}
  BY DEF Addr, Targets
<1>3. /\ Types /\ Distinct(registry) /\ Below(registry, next_id) /\ Built(registry, mem)
      /\ \A k \in DOMAIN registry : Points(mem[registry[k].obj].fptr, registry)
  BY <1>1 DEF Running, IInv
<1>4. registry \in Seq(Node) /\ next_id \in Nat /\ mem \in [Addr -> Object]
  BY <1>3 DEF Types
<1>5. next_id > 0 /\ node \in Node /\ node.id = next_id /\ node.obj = a
  BY <1>2, <1>3, <1>4 DEF Below, Node
<1>6. /\ mem' \in [Addr -> Object] /\ mem'[a].ptr = p /\ mem'[a].fptr = f
      /\ \A b \in Addr : b # a => mem'[b] = mem[b]
  BY <1>1, <1>2, <1>4 DEF Object
<1>7. n \in Nat /\ \A k \in 1 .. n :
                     /\ registry[k].obj \in Addr /\ registry[k].obj # a
                     /\ registry[k].id \in Nat /\ registry[k].id < next_id
  BY <1>3, <1>4, Nodes DEF Below, Objs
<1>8. /\ registry' \in Seq(Node) /\ DOMAIN registry' = 1 .. n + 1 /\ DOMAIN registry = 1 .. n
      /\ registry'[n + 1] = node /\ \A k \in 1 .. n : registry'[k] = registry[k]
  BY <1>1, <1>4, <1>5, Appended
<1> HIDE DEF n, node
<1>9. Types'
  BY <1>1, <1>3, <1>6, <1>8 DEF Types
<1>10. Distinct(registry')
  <2> SUFFICES ASSUME NEW j \in 1 .. n + 1, NEW k \in 1 .. n + 1, j < k
               PROVE  registry'[j].id # registry'[k].id /\ registry'[j].obj # registry'[k].obj
    BY <1>7, <1>8 DEF Distinct
  <2>1. CASE k = n + 1
    BY <2>1, <1>5, <1>7, <1>8
  <2>2. CASE k # n + 1
    BY <2>2, <1>3, <1>7, <1>8 DEF Distinct
  <2> QED BY <2>1, <2>2
<1>11. Below(registry', next_id')
  <2> SUFFICES ASSUME NEW k \in DOMAIN registry' PROVE registry'[k].id < next_id + 1
    <3>1. next_id' = next_id + 1 /\ next_id + 1 > 0
      BY <1>1, <1>4, <1>5
    <3> QED BY <3>1 DEF Below
  <2>1. CASE k = n + 1
    BY <2>1, <1>4, <1>5, <1>8
  <2>2. CASE k # n + 1
    <3>1. k \in 1 .. n
      BY <2>2, <1>7, <1>8
    <3> QED BY <3>1, <1>4, <1>7, <1>8
  <2> QED BY <2>1, <2>2
<1>12. \A t \in Targets : \E j \in 1 .. n : t = registry'[j].obj
  BY <1>8 DEF Targets, Objs
<1>13. Built(registry', mem')
  <2> SUFFICES ASSUME NEW k \in 1 .. n + 1, mem'[registry'[k].obj].ptr # NULL
               PROVE  \E j \in 1 .. k - 1 : mem'[registry'[k].obj].ptr = registry'[j].obj
    BY <1>8 DEF Built
  <2>1. CASE k = n + 1
    <3>1. mem'[registry'[k].obj].ptr = p /\ p \in Targets
      BY <2>1, <1>5, <1>6, <1>8
    <3> QED BY <3>1, <2>1, <1>7, <1>12
  <2>2. CASE k # n + 1
    <3>1. k \in 1 .. n /\ mem'[registry'[k].obj] = mem[registry[k].obj]
      BY <2>2, <1>6, <1>7, <1>8
    <3>2. PICK j \in 1 .. k - 1 : mem[registry[k].obj].ptr = registry[j].obj
      BY <3>1, <1>3, <1>8 DEF Built
    <3> QED BY <3>1, <3>2, <1>7, <1>8
  <2> QED BY <2>1, <2>2
<1>14. \A k \in DOMAIN registry' : Points(mem'[registry'[k].obj].fptr, registry')
  <2> SUFFICES ASSUME NEW k \in 1 .. n + 1, mem'[registry'[k].obj].fptr # NULL
               PROVE  \E j \in 1 .. n + 1 : mem'[registry'[k].obj].fptr = registry'[j].obj
    BY <1>8 DEF Points
  <2>1. CASE k = n + 1
    <3>1. mem'[registry'[k].obj].fptr = f /\ (f \in Targets \/ f = registry'[k].obj)
      BY <2>1, <1>5, <1>6, <1>8
    <3> QED BY <3>1, <1>7, <1>12
  <2>2. CASE k # n + 1
    <3>1. k \in 1 .. n /\ mem'[registry'[k].obj] = mem[registry[k].obj]
      BY <2>2, <1>6, <1>7, <1>8
    <3>2. PICK j \in 1 .. n : mem[registry[k].obj].fptr = registry[j].obj
      BY <3>1, <1>3, <1>8 DEF Points
    <3> QED BY <3>1, <3>2, <1>7, <1>8
  <2> QED BY <2>1, <2>2
<1>15. Running'
  BY <1>10, <1>11, <1>13, <1>14 DEF Running
<1> QED BY <1>1, <1>9, <1>15 DEF IInv, Fresh, Writing, Files, Restoring

(* A pointer is set to NULL or to an object that is registered.            *)
LEMMA Sets ==
  ASSUME IInv, NEW a \in Objs \cap Heap, NEW f \in Targets \cup {NULL}, SetFptr(a, f)
  PROVE  IInv'
<1>1. /\ pc = "app" /\ UNCHANGED <<pc, registry, next_id, file, done, disk>>
      /\ mem' = [mem EXCEPT ![a].fptr = f]
  BY DEF SetFptr
<1>2. a \in Addr /\ f \in Addr \cup {NULL}
  BY DEF Addr, Targets
<1>3. /\ Types /\ Distinct(registry) /\ Below(registry, next_id) /\ Built(registry, mem)
      /\ \A k \in DOMAIN registry : Points(mem[registry[k].obj].fptr, registry)
  BY <1>1 DEF Running, IInv
<1>4. registry \in Seq(Node) /\ mem \in [Addr -> Object]
  BY <1>3 DEF Types
<1>5. mem'[a].fptr = f /\ mem' \in [Addr -> Object]
      /\ \A b \in Addr : mem'[b].ptr = mem[b].ptr /\ (b # a => mem'[b].fptr = mem[b].fptr)
  BY <1>1, <1>2, <1>4 DEF Object
<1>6. \A k \in DOMAIN registry : registry[k].obj \in Addr
  BY <1>4, Nodes
<1>7. Built(registry, mem')
  BY <1>3, <1>5, <1>6 DEF Built
<1>8. Points(f, registry)
  BY DEF Points, Targets, Objs
<1>9. \A k \in DOMAIN registry : Points(mem'[registry[k].obj].fptr, registry)
  BY <1>3, <1>5, <1>6, <1>8
<1>10. Running' /\ Types'
  BY <1>1, <1>3, <1>5, <1>7, <1>9 DEF Running, Types
<1> QED BY <1>1, <1>10 DEF IInv, Fresh, Writing, Files, Restoring

(* An object that none points to goes, and the ones behind it move up.     *)
LEMMA Unregisters ==
  ASSUME IInv, NEW a \in Objs \cap Heap, UnregisterObject(a)
  PROVE  IInv'
<1>1. PICK r \in DOMAIN registry : registry[r].obj = a /\ registry' = Without(registry, r)
  BY DEF UnregisterObject
<1>2. /\ pc = "app" /\ UNCHANGED <<pc, next_id, file, done, disk>>
      /\ mem' = [mem EXCEPT ![a] = Blank]
      /\ \A b \in Objs \ {a} : mem[b].ptr # a /\ mem[b].fptr # a
  BY DEF UnregisterObject
<1>3. /\ Types /\ Distinct(registry) /\ Below(registry, next_id) /\ Built(registry, mem)
      /\ \A k \in DOMAIN registry : Points(mem[registry[k].obj].fptr, registry)
  BY <1>2 DEF Running, IInv
<1>4. registry \in Seq(Node) /\ mem \in [Addr -> Object]
  BY <1>3 DEF Types
<1> DEFINE n == Len(registry) - 1
           old(k) == IF k < r THEN k ELSE k + 1
<1>5. /\ registry' \in Seq(Node) /\ DOMAIN registry' = 1 .. n
      /\ \A k \in 1 .. n : registry'[k] = IF k < r THEN registry[k] ELSE registry[k + 1]
  BY <1>1, <1>4, Taken
<1>6. DOMAIN registry = 1 .. n + 1 /\ n \in Nat /\ r \in 1 .. n + 1
  BY <1>4, Nodes
<1> HIDE DEF n
<1>7. \A k \in 1 .. n : old(k) \in 1 .. n + 1 /\ old(k) # r /\ registry'[k] = registry[old(k)]
  BY <1>5, <1>6
<1>8. ASSUME NEW j \in 1 .. n + 1, j # r
      PROVE  \E k \in 1 .. n : j = old(k)
  <2>1. CASE j < r
    BY <2>1, <1>6
  <2>2. CASE j > r
    <3>1. j - 1 \in 1 .. n /\ old(j - 1) = j
      BY <2>2, <1>6
    <3> QED BY <3>1
  <2> QED BY <1>6, <1>8, <2>1, <2>2
<1>9. \A j, k \in 1 .. n : (old(j) = old(k) => j = k) /\ (old(j) < old(k) => j < k)
  BY <1>6
<1> HIDE DEF old
<1>10. \A k \in 1 .. n + 1 : k # r => registry[k].obj # a
  BY <1>1, <1>3, <1>6 DEF Distinct
<1>11. \A k \in 1 .. n + 1 : registry[k].obj \in Addr /\ registry[k].obj \in Objs
  BY <1>4, <1>6, Nodes DEF Objs
<1>12. mem' \in [Addr -> Object] /\ \A b \in Addr : b # a => mem'[b] = mem[b]
  BY <1>2, <1>4 DEF Blank, Object
<1>13. ASSUME NEW k \in 1 .. n
       PROVE  /\ mem'[registry'[k].obj] = mem[registry[old(k)].obj]
              /\ mem[registry[old(k)].obj].ptr # a /\ mem[registry[old(k)].obj].fptr # a
  <2>1. old(k) \in 1 .. n + 1 /\ registry[old(k)].obj \in Objs \ {a}
        /\ registry'[k] = registry[old(k)]
    BY <1>7, <1>10, <1>11
  <2> QED BY <2>1, <1>2, <1>11, <1>12
<1>14. Distinct(registry')
  <2> SUFFICES ASSUME NEW j \in 1 .. n, NEW k \in 1 .. n,
                      registry'[j].id = registry'[k].id \/ registry'[j].obj = registry'[k].obj
               PROVE  old(j) = old(k)
    BY <1>5, <1>9 DEF Distinct
  <2> QED BY <1>3, <1>6, <1>7 DEF Distinct
<1>15. Below(registry', next_id')
  BY <1>2, <1>3, <1>5, <1>6, <1>7 DEF Below
<1>16. Built(registry', mem')
  <2> SUFFICES ASSUME NEW k \in 1 .. n, mem'[registry'[k].obj].ptr # NULL
               PROVE  \E j \in 1 .. k - 1 : mem'[registry'[k].obj].ptr = registry'[j].obj
    BY <1>5 DEF Built
  <2>1. old(k) \in 1 .. n + 1 /\ mem[registry[old(k)].obj].ptr # NULL
    BY <1>7, <1>13
  <2>2. PICK i \in 1 .. old(k) - 1 : mem[registry[old(k)].obj].ptr = registry[i].obj
    BY <2>1, <1>3, <1>6 DEF Built
  <2>3. i \in 1 .. n + 1 /\ i # r /\ i < old(k)
    BY <2>1, <2>2, <1>1, <1>6, <1>13
  <2>4. PICK j \in 1 .. n : i = old(j)
    BY <2>3, <1>8
  <2>5. j \in 1 .. k - 1 /\ registry'[j] = registry[i]
    BY <2>3, <2>4, <1>6, <1>7, <1>9
  <2> QED BY <2>2, <2>5, <1>13
<1>17. \A k \in DOMAIN registry' : Points(mem'[registry'[k].obj].fptr, registry')
  <2> SUFFICES ASSUME NEW k \in 1 .. n, mem'[registry'[k].obj].fptr # NULL
               PROVE  \E j \in 1 .. n : mem'[registry'[k].obj].fptr = registry'[j].obj
    BY <1>5 DEF Points
  <2>1. old(k) \in 1 .. n + 1 /\ mem[registry[old(k)].obj].fptr # NULL
    BY <1>7, <1>13
  <2>2. PICK i \in 1 .. n + 1 : mem[registry[old(k)].obj].fptr = registry[i].obj
    BY <2>1, <1>3, <1>6 DEF Points
  <2>3. i # r
    BY <2>2, <1>1, <1>13
  <2>4. PICK j \in 1 .. n : i = old(j)
    BY <2>3, <1>8
  <2> QED BY <2>2, <2>4, <1>7, <1>13
<1>18. Running' /\ Types'
  BY <1>2, <1>3, <1>5, <1>12, <1>14, <1>15, <1>16, <1>17 DEF Running, Types
<1> QED BY <1>2, <1>18 DEF IInv, Fresh, Writing, Files, Restoring

-----------------------------------------------------------------------------
(* A file that is opened begins empty ...                                  *)
LEMMA Opens ==
  ASSUME IInv, NEW n \in Names, CheckptOpen(n)
  PROVE  IInv'
<1> DEFINE f == [next_id |-> next_id, nodes |-> <<>>, complete |-> FALSE]
<1>1. /\ pc = "app" /\ pc' = "writing" /\ file' = n /\ disk' = [disk EXCEPT ![n] = f]
      /\ UNCHANGED <<registry, next_id, mem, done>>
  BY DEF CheckptOpen
<1>2. Types /\ disk \in [Names -> File] /\ next_id \in Nat
  BY DEF IInv, Types
<1>3. f \in File /\ f.nodes = <<>> /\ ~f.complete /\ f.next_id = next_id
  BY <1>2 DEF File
<1> HIDE DEF f
<1>4. /\ disk' \in [Names -> File] /\ disk'[n] = f
      /\ \A m \in Names : m # n => disk'[m] = disk[m]
  BY <1>1, <1>2, <1>3
<1>5. Types'
  BY <1>1, <1>2, <1>4 DEF Types, Place
<1>6. Writing'
  BY <1>1, <1>3, <1>4 DEF Writing, Written, Same, BuiltById, LinkedById
<1>7. Files'
  BY <1>3, <1>4 DEF IInv, Files
<1>8. Running'
  BY <1>1 DEF IInv, Running
<1> QED BY <1>1, <1>5, <1>6, <1>7, <1>8 DEF IInv, Fresh, Restoring

(* ... each pointer of the next node can be written, since what it is for  *)
(* is registered ...                                                       *)
LEMMA Writes == IInv /\ CheckptNode => IInv'
<1> SUFFICES ASSUME IInv, CheckptNode PROVE IInv'
  OBVIOUS
<1> DEFINE n == Len(Written)
           r == registry[n + 1]
           o == mem[r.obj]
           e == [id |-> r.id, obj |-> r.obj, ptr |-> object_id(registry, o.ptr),
                 fptr |-> object_id(registry, o.fptr)]
<1>1. pc = "writing" /\ n < Len(registry) /\ UNCHANGED <<registry, next_id, mem, file, done>>
  BY DEF CheckptNode
<1>2. /\ Types /\ Files /\ Distinct(registry) /\ Built(registry, mem)
      /\ \A k \in DOMAIN registry : Points(mem[registry[k].obj].fptr, registry)
      /\ disk[file].next_id = next_id /\ ~disk[file].complete
      /\ Same(Written, registry) /\ BuiltById(Written) /\ LinkedById(Written, registry)
  BY <1>1 DEF IInv, Running, Writing
<1>3. registry \in Seq(Node) /\ disk \in [Names -> File] /\ file \in Names
  BY <1>2 DEF Types
<1>4. Written \in Seq(Saved) /\ disk[file] \in File
  BY <1>3 DEF File, Written
<1>5. n \in Nat /\ DOMAIN Written = 1 .. n /\ n + 1 \in DOMAIN registry
      /\ DOMAIN registry = 1 .. Len(registry) /\ Len(registry) \in Nat
  BY <1>1, <1>3, <1>4, Nodes
<1>6. r.id \in Nat \ {0} /\ r.obj \in Addr
  BY <1>3, <1>5, Nodes
<1>7. \A j \in DOMAIN registry : object_id(registry, registry[j].obj) = registry[j].id
                                /\ registry[j].id \in Nat \ {0}
  BY <1>2, <1>3, ObjectId, Nodes
<1>8. object_id(registry, NULL) = 0
  BY <1>3, NullId
<1> HIDE DEF n
<1>9. \/ o.ptr = NULL /\ e.ptr = 0
      \/ \E j \in 1 .. n : o.ptr = registry[j].obj /\ e.ptr = registry[j].id
  <2>1. o.ptr = NULL \/ \E j \in 1 .. n : o.ptr = registry[j].obj
    BY <1>2, <1>5 DEF Built
  <2> QED BY <2>1, <1>5, <1>7, <1>8
<1>10. \/ o.fptr = NULL /\ e.fptr = 0
       \/ \E j \in DOMAIN registry : o.fptr = registry[j].obj /\ e.fptr = registry[j].id
  <2>1. o.fptr = NULL \/ \E j \in DOMAIN registry : o.fptr = registry[j].obj
    BY <1>2, <1>5 DEF Points
  <2> QED BY <2>1, <1>7, <1>8
<1>11. ~Refused(o.ptr) /\ ~Refused(o.fptr)
  <2>1. \A j \in DOMAIN registry : object_id(registry, registry[j].obj) # 0
    <3>1. \A x \in Nat \ {0} : x # 0
      OBVIOUS
    <3> QED BY <1>7, <3>1, Zenon
  <2>2. \A j \in 1 .. n : j \in DOMAIN registry
    BY <1>5
  <2>3. o.ptr = NULL \/ object_id(registry, o.ptr) # 0
    BY <1>9, <2>1, <2>2, Zenon
  <2>4. o.fptr = NULL \/ object_id(registry, o.fptr) # 0
    BY <1>10, <2>1, Zenon
  <2> QED BY <2>3, <2>4, Zenon DEF Refused
<1>12. e \in Saved /\ e.id = r.id /\ e.obj = r.obj
  BY <1>5, <1>6, <1>7, <1>9, <1>10 DEF Saved
<1> DEFINE w == Append(Written, e)
           f == [disk[file] EXCEPT !.nodes = w]
<1>13. pc' = pc /\ disk' = [disk EXCEPT ![file] = f]
  BY <1>3, <1>11 DEF CheckptNode, n, Written
<1> HIDE DEF e, r, o
<1>14. w \in Seq(Saved) /\ DOMAIN w = 1 .. n + 1 /\ w[n + 1] = e
       /\ \A k \in 1 .. n : w[k] = Written[k]
  BY <1>4, <1>5, <1>12, Appended DEF n
<1> HIDE DEF w
<1>15. f \in File /\ f.nodes = w /\ f.next_id = next_id /\ ~f.complete
  BY <1>2, <1>4, <1>14 DEF File
<1> HIDE DEF f
<1>16. /\ disk' \in [Names -> File] /\ disk'[file] = f /\ Written' = w
       /\ \A m \in Names : m # file => disk'[m] = disk[m]
  BY <1>1, <1>3, <1>13, <1>15 DEF Written
<1>17. Same(w, registry)
  BY <1>2, <1>5, <1>12, <1>14 DEF Same, r
<1>18. BuiltById(w)
  <2> SUFFICES ASSUME NEW k \in 1 .. n + 1, w[k].ptr # 0
               PROVE  \E j \in 1 .. k - 1 : w[k].ptr = w[j].id
    BY <1>14 DEF BuiltById
  <2>1. CASE k = n + 1
    <3>1. PICK j \in 1 .. n : e.ptr = registry[j].id
      BY <2>1, <1>9, <1>14
    <3>2. w[j].id = registry[j].id /\ j \in 1 .. k - 1
      BY <2>1, <1>2, <1>5, <1>14 DEF Same
    <3> QED BY <2>1, <3>1, <3>2, <1>14
  <2>2. CASE k # n + 1
    <3>1. k \in 1 .. n /\ w[k] = Written[k]
      BY <2>2, <1>5, <1>14
    <3>2. PICK j \in 1 .. k - 1 : Written[k].ptr = Written[j].id
      BY <3>1, <1>2, <1>5 DEF BuiltById
    <3> QED BY <3>1, <3>2, <1>5, <1>14
  <2> QED BY <2>1, <2>2
<1>19. LinkedById(w, registry)
  <2> SUFFICES ASSUME NEW k \in 1 .. n + 1, w[k].fptr # 0
               PROVE  \E j \in DOMAIN registry : w[k].fptr = registry[j].id
    BY <1>14 DEF LinkedById
  <2>1. CASE k = n + 1
    BY <2>1, <1>10, <1>14
  <2>2. CASE k # n + 1
    <3>1. k \in 1 .. n /\ w[k] = Written[k]
      BY <2>2, <1>5, <1>14
    <3> QED BY <3>1, <1>2, <1>5 DEF LinkedById
  <2> QED BY <2>1, <2>2
<1>20. Writing'
  BY <1>1, <1>15, <1>16, <1>17, <1>18, <1>19 DEF Writing
<1>21. Files'
  BY <1>2, <1>15, <1>16 DEF Files
<1>22. Types'
  BY <1>1, <1>2, <1>13, <1>16 DEF Types
<1>23. Running' /\ Fresh' /\ Restoring'
  BY <1>1, <1>13 DEF IInv, Running, Fresh, Restoring
<1> QED BY <1>20, <1>21, <1>22, <1>23 DEF IInv

(* ... and once all of them are in it, the file can be restored.           *)
LEMMA Closes == IInv /\ CheckptClose => IInv'
<1> SUFFICES ASSUME IInv, CheckptClose PROVE IInv'
  OBVIOUS
<1> DEFINE f == [disk[file] EXCEPT !.complete = TRUE]
<1>1. /\ pc = "writing" /\ pc' = "app" /\ Len(Written) = Len(registry)
      /\ UNCHANGED <<registry, next_id, mem, file, done>> /\ disk' = [disk EXCEPT ![file] = f]
  <2>1. disk' = [disk EXCEPT ![file].complete = TRUE] /\ disk[file] \in File
    BY DEF CheckptClose, IInv, Types
  <2> QED BY <2>1 DEF CheckptClose
<1>2. /\ Types /\ Files /\ Distinct(registry) /\ Below(registry, next_id)
      /\ disk[file].next_id = next_id
      /\ Same(Written, registry) /\ BuiltById(Written) /\ LinkedById(Written, registry)
  BY <1>1 DEF IInv, Running, Writing
<1>3. registry \in Seq(Node) /\ disk \in [Names -> File] /\ file \in Names
      /\ disk[file] \in File
  BY <1>2 DEF Types
<1>4. Written \in Seq(Saved)
  BY <1>3 DEF File, Written
<1>5. f \in File /\ f.nodes = Written /\ f.next_id = next_id
  BY <1>2, <1>3 DEF File, Written
<1> HIDE DEF f
<1>6. /\ disk' \in [Names -> File] /\ disk'[file] = f
      /\ \A m \in Names : m # file => disk'[m] = disk[m]
  BY <1>1, <1>3, <1>5
<1>7. DOMAIN Written = DOMAIN registry
  BY <1>1, <1>3, <1>4
<1>8. Distinct(Written) /\ Below(Written, next_id) /\ LinkedById(Written, Written)
  BY <1>2, <1>7 DEF Same, Distinct, Below, LinkedById
<1>9. Restorable(f)
  BY <1>2, <1>5, <1>8 DEF Restorable
<1>10. Files'
  BY <1>2, <1>6, <1>9 DEF Files
<1>11. Types'
  BY <1>1, <1>2, <1>6 DEF Types, Place
<1>12. Running'
  BY <1>1 DEF IInv, Running
<1> QED BY <1>1, <1>10, <1>11, <1>12 DEF IInv, Fresh, Writing, Restoring

-----------------------------------------------------------------------------
(* The registry is emptied before a file is read ...                       *)
LEMMA Forgets ==
  ASSUME IInv, NEW n \in Names, RestoreOpen(n)
  PROVE  IInv'
<1>1. /\ pc = "booted" /\ disk[n].complete /\ pc' = "reading" /\ file' = n
      /\ registry' = <<>> /\ next_id' = disk[n].next_id /\ UNCHANGED <<mem, done, disk>>
  BY DEF RestoreOpen, RestoredNextId
<1>2. Types /\ disk[n] \in File
  BY DEF IInv, Types
<1>3. Types'
  BY <1>1, <1>2 DEF Types, Place, File
<1>4. Restoring'
  BY <1>1 DEF Restoring, Distinct, Echoes, Built
<1> QED BY <1>1, <1>3, <1>4 DEF IInv, Fresh, Running, Writing, Files

(* ... each node finds what its object was built on, at the address where  *)
(* that one is now ...                                                     *)
LEMMA PtrRestored ==
  ASSUME IInv, pc = "reading", Len(registry) < Len(Written)
  PROVE  LET node == Written[Len(registry) + 1]
             ptr  == restore_ptr(Append(registry, Stale(node)), node.ptr)
         IN \/ node.ptr = 0 /\ ptr = NULL
            \/ \E j \in DOMAIN registry : node.ptr = registry[j].id /\ ptr = registry[j].obj
<1> DEFINE n == Len(registry)
           node == Written[n + 1]
           reg == Append(registry, Stale(node))
<1>1. /\ Types /\ Files /\ disk[file].complete /\ Echoes(registry, Written)
  BY DEF IInv, Restoring
<1>2. registry \in Seq(Node) /\ disk[file] \in File /\ file \in Names
  BY <1>1 DEF Types
<1>3. Written \in Seq(Saved) /\ Distinct(Written) /\ BuiltById(Written)
  BY <1>1, <1>2 DEF File, Written, Files, Restorable
<1>4. n \in Nat /\ DOMAIN registry = 1 .. n /\ n + 1 \in DOMAIN Written
      /\ Len(Written) \in Nat /\ DOMAIN Written = 1 .. Len(Written)
  BY <1>2, <1>3, Nodes
<1>5. node \in Saved
  BY <1>3, <1>4
<1>6. Stale(node) \in Node /\ Stale(node).id = node.id
  BY <1>5 DEF Node, Stale, Saved
<1> HIDE DEF n, node
<1>7. /\ reg \in Seq(Node) /\ DOMAIN reg = 1 .. n + 1
      /\ reg[n + 1] = Stale(node) /\ \A k \in 1 .. n : reg[k] = registry[k]
  BY <1>2, <1>6, Appended DEF n
<1> HIDE DEF reg
<1>8. \A k \in 1 .. n + 1 : reg[k].id = Written[k].id /\ k \in DOMAIN Written
  BY <1>1, <1>4, <1>6, <1>7 DEF Echoes, node
<1>9. \A i, j \in DOMAIN reg : reg[i].id = reg[j].id => i = j
  BY <1>3, <1>7, <1>8 DEF Distinct
<1>10. CASE node.ptr = 0
  BY <1>10 DEF restore_ptr, n, node, reg
<1>11. CASE node.ptr # 0
  <2>1. PICK j \in 1 .. n : node.ptr = Written[j].id
    BY <1>3, <1>4, <1>11 DEF BuiltById, node
  <2>2. j \in DOMAIN reg /\ reg[j].id = node.ptr /\ reg[j].obj = registry[j].obj
        /\ node.ptr = registry[j].id
    BY <2>1, <1>4, <1>7, <1>8
  <2>3. object_ptr(reg, reg[j].id) = reg[j].obj
    BY <2>2, <1>7, <1>9, ObjectPtr
  <2> QED BY <1>4, <1>11, <2>1, <2>2, <2>3 DEF restore_ptr, n, node, reg
<1> QED BY <1>10, <1>11

(* ... and an address that no other has ...                                *)
LEMMA Restores ==
  ASSUME IInv, NEW a \in Addr, RestoreNode(a)
  PROVE  /\ IInv' /\ a \notin Objs
         /\ LET node == Written[Len(registry) + 1]
                 ptr  == restore_ptr(Append(registry, Stale(node)), node.ptr)
             IN mem' = [mem EXCEPT ![a] = [ptr |-> ptr, fptr |-> restore_fptr(node.fptr)]]
<1> DEFINE n == Len(registry)
           node == Written[n + 1]
           back == [id |-> node.id, obj |-> a]
           ptr == restore_ptr(Append(registry, Stale(node)), node.ptr)
           fptr == restore_fptr(node.fptr)
<1>1. /\ pc = "reading" /\ n < Len(Written) /\ Allocated(node, a)
      /\ registry' = Append(registry, back)
      /\ mem' = [mem EXCEPT ![a] = [ptr |-> ptr, fptr |-> fptr]]
      /\ pc' = IF node.ptr # 0 /\ ptr = NULL THEN "error" ELSE pc
      /\ UNCHANGED <<next_id, file, done, disk>>
  BY DEF RestoreNode, Back
<1>2. /\ Types /\ Files /\ disk[file].complete /\ next_id = disk[file].next_id
      /\ Distinct(registry) /\ Echoes(registry, Written) /\ Built(registry, mem)
      /\ \A k \in DOMAIN registry : Refers(mem[registry[k].obj].fptr, Written)
  BY <1>1 DEF IInv, Restoring
<1>3. registry \in Seq(Node) /\ disk \in [Names -> File] /\ file \in Names
      /\ disk[file] \in File /\ mem \in [Addr -> Object]
  BY <1>2 DEF Types
<1>4. Written \in Seq(Saved)
  BY <1>3 DEF File, Written
<1>5. /\ Distinct(Written) /\ Below(Written, next_id)
      /\ BuiltById(Written) /\ LinkedById(Written, Written)
  BY <1>2, <1>3 DEF Files, Restorable, Written
<1>6. n \in Nat /\ DOMAIN registry = 1 .. n /\ n + 1 \in DOMAIN Written
      /\ Len(Written) \in Nat /\ DOMAIN Written = 1 .. Len(Written)
  BY <1>1, <1>3, <1>4, Nodes
<1>7. node.id \in Nat \ {0} /\ node.obj \in Addr /\ node.ptr \in Nat /\ node.fptr \in Nat
  <2>1. node \in Saved
    BY <1>4, <1>6
  <2> QED BY <2>1 DEF Saved
<1>8. back \in Node /\ back.id = node.id /\ back.obj = a
  BY <1>7 DEF Node
<1>9. \A k \in 1 .. n : registry[k].obj \in Addr /\ registry[k].obj \in Objs
  BY <1>3, <1>6, Nodes DEF Objs
<1>10. \/ node.ptr = 0 /\ ptr = NULL
       \/ \E j \in 1 .. n : node.ptr = registry[j].id /\ ptr = registry[j].obj
  BY <1>1, <1>6, PtrRestored
<1> HIDE DEF n, node, back, ptr, fptr
<1>11. /\ registry' \in Seq(Node) /\ DOMAIN registry' = 1 .. n + 1
       /\ registry'[n + 1] = back /\ \A k \in 1 .. n : registry'[k] = registry[k]
  BY <1>1, <1>3, <1>8, Appended DEF n
<1>12. /\ pc' = "reading" /\ ptr \in Addr \cup {NULL}
  BY <1>1, <1>9, <1>10, CheckptAssumption
<1>13. Refers(fptr, Written) /\ fptr \in {NULL} \cup Nat
  BY <1>5, <1>6, <1>7 DEF LinkedById, Refers, restore_fptr, node, fptr
<1>14. /\ mem' \in [Addr -> Object] /\ mem'[a].ptr = ptr /\ mem'[a].fptr = fptr
       /\ \A b \in Addr : b # a => mem'[b] = mem[b]
  BY <1>1, <1>3, <1>12, <1>13 DEF Object
<1>15. (a \in StaticSet \/ node.obj \in StaticSet) => a = node.obj
  BY <1>1, CheckptAssumption DEF Allocated
<1>16. a \notin Objs
  <2>1. CASE node.obj \in StaticSet
    <3> SUFFICES ASSUME NEW k \in 1 .. n, registry[k].obj = a PROVE FALSE
      BY <1>6 DEF Objs
    <3>1. Written[k].obj = node.obj /\ k \in DOMAIN Written
      BY <2>1, <1>2, <1>6, <1>15 DEF Echoes
    <3> QED BY <3>1, <1>5, <1>6 DEF Distinct, node
  <2>2. CASE node.obj \notin StaticSet
    BY <2>2, <1>1 DEF Allocated
  <2> QED BY <2>1, <2>2
<1>17. Types'
  BY <1>1, <1>2, <1>11, <1>12, <1>14 DEF Types, Place
<1>18. Distinct(registry')
  <2> SUFFICES ASSUME NEW j \in 1 .. n + 1, NEW k \in 1 .. n + 1, j < k
               PROVE  registry'[j].id # registry'[k].id /\ registry'[j].obj # registry'[k].obj
    BY <1>6, <1>11 DEF Distinct
  <2>1. j \in 1 .. n /\ registry'[j] = registry[j]
    BY <1>6, <1>11
  <2>2. CASE k = n + 1
    <3>1. registry'[k].id = Written[k].id /\ registry'[j].id = Written[j].id
          /\ j \in DOMAIN Written /\ k \in DOMAIN Written
      BY <2>1, <2>2, <1>2, <1>6, <1>8, <1>11 DEF Echoes, node
    <3>2. registry'[k].obj = a /\ registry[j].obj \in Objs
      BY <2>1, <2>2, <1>8, <1>9, <1>11
    <3> QED BY <3>1, <3>2, <1>5, <1>11, <1>16, <2>1 DEF Distinct
  <2>3. CASE k # n + 1
    <3>1. k \in 1 .. n /\ registry'[k] = registry[k]
      BY <2>3, <1>6, <1>11
    <3> QED BY <2>1, <3>1, <1>2, <1>6 DEF Distinct
  <2> QED BY <2>2, <2>3
<1>19. Echoes(registry', Written)
  <2> SUFFICES ASSUME NEW k \in 1 .. n + 1
               PROVE  /\ k \in DOMAIN Written /\ registry'[k].id = Written[k].id
                      /\ registry'[k].obj \in StaticSet \/ Written[k].obj \in StaticSet
                            => registry'[k].obj = Written[k].obj
    BY <1>11 DEF Echoes
  <2>1. CASE k = n + 1
    BY <2>1, <1>6, <1>8, <1>11, <1>15 DEF node
  <2>2. CASE k # n + 1
    <3>1. k \in 1 .. n /\ registry'[k] = registry[k]
      BY <2>2, <1>6, <1>11
    <3> QED BY <3>1, <1>2, <1>6 DEF Echoes
  <2> QED BY <2>1, <2>2
<1>20. \A k \in 1 .. n : mem'[registry'[k].obj] = mem[registry[k].obj]
  BY <1>9, <1>11, <1>14, <1>16
<1>21. Built(registry', mem')
  <2> SUFFICES ASSUME NEW k \in 1 .. n + 1, mem'[registry'[k].obj].ptr # NULL
               PROVE  \E j \in 1 .. k - 1 : mem'[registry'[k].obj].ptr = registry'[j].obj
    BY <1>11 DEF Built
  <2>1. CASE k = n + 1
    <3>1. mem'[registry'[k].obj].ptr = ptr
      BY <2>1, <1>8, <1>11, <1>14
    <3> QED BY <2>1, <3>1, <1>6, <1>11, <1>10
  <2>2. CASE k # n + 1
    <3>1. k \in 1 .. n /\ mem'[registry'[k].obj] = mem[registry[k].obj]
      BY <2>2, <1>6, <1>20
    <3>2. PICK j \in 1 .. k - 1 : mem[registry[k].obj].ptr = registry[j].obj
      BY <3>1, <1>2, <1>6 DEF Built
    <3> QED BY <3>1, <3>2, <1>6, <1>11
  <2> QED BY <2>1, <2>2
<1>22. \A k \in DOMAIN registry' : Refers(mem'[registry'[k].obj].fptr, Written)
  <2> SUFFICES ASSUME NEW k \in 1 .. n + 1 PROVE Refers(mem'[registry'[k].obj].fptr, Written)
    BY <1>11
  <2>1. CASE k = n + 1
    BY <2>1, <1>8, <1>11, <1>13, <1>14
  <2>2. CASE k # n + 1
    <3>1. k \in 1 .. n
      BY <2>2, <1>6
    <3> QED BY <3>1, <1>2, <1>6, <1>20
  <2> QED BY <2>1, <2>2
<1>23. Written' = Written
  BY <1>1 DEF Written
<1>24. Restoring'
  BY <1>1, <1>2, <1>12, <1>18, <1>19, <1>21, <1>22, <1>23 DEF Restoring
<1>25. IInv'
  BY <1>1, <1>12, <1>17, <1>24 DEF IInv, Fresh, Running, Writing, Files
<1> QED BY <1>1, <1>16, <1>25 DEF n, node, ptr, fptr

(* ... until the registry is as long as the file, and has the objects that *)
(* its identifiers refer to.                                               *)
LEMMA Returns == IInv /\ RestoreClose => IInv'
<1> SUFFICES ASSUME IInv, RestoreClose PROVE IInv'
  OBVIOUS
<1>1. /\ pc = "reading" /\ pc' = "restored" /\ done' = 0 /\ Len(registry) = Len(Written)
      /\ UNCHANGED <<registry, next_id, mem, file, disk>>
  BY DEF RestoreClose
<1>2. /\ Types /\ disk[file].complete /\ next_id = disk[file].next_id
      /\ Distinct(registry) /\ Echoes(registry, Written) /\ Built(registry, mem)
      /\ \A k \in DOMAIN registry : Refers(mem[registry[k].obj].fptr, Written)
  BY <1>1 DEF IInv, Restoring
<1>3. Types'
  BY <1>1, <1>2 DEF Types, Place
<1>4. Written \in Seq(Saved) /\ registry \in Seq(Node)
  BY <1>2 DEF Types, File, Written
<1>5. /\ DOMAIN Written = DOMAIN registry
      /\ DOMAIN registry = 1 .. Len(registry) /\ Len(registry) \in Nat
  BY <1>1, <1>4
<1>6. \A k \in DOMAIN registry : Refers(mem[registry[k].obj].fptr, registry)
  BY <1>2, <1>5 DEF Refers, Echoes
<1>7. Restoring'
  <2>1. Written' = Written
    BY <1>1 DEF Written
  <2> QED BY <2>1, <1>1, <1>2, <1>5, <1>6 DEF Restoring
<1> QED BY <1>1, <1>3, <1>7 DEF IInv, Fresh, Running, Writing, Files

(* Each node finds what its object points to, whose identifiers it had ... *)
LEMMA Reanimates == IInv /\ ReanimateNode => IInv'
<1> SUFFICES ASSUME IInv, ReanimateNode PROVE IInv'
  OBVIOUS
<1> DEFINE n == done + 1
           a == registry[n].obj
           fptr == reanimate_fptr(mem[a].fptr)
<1>1. /\ pc \in {"restored", "reanimating"} /\ done < Len(registry) /\ done' = n
      /\ mem' = [mem EXCEPT ![a].fptr = fptr]
      /\ pc' = IF mem[a].fptr # NULL /\ fptr = NULL THEN "error" ELSE "reanimating"
      /\ UNCHANGED <<registry, next_id, file, disk>>
  BY DEF ReanimateNode
<1>2. /\ Types /\ disk[file].complete /\ next_id = disk[file].next_id
      /\ Distinct(registry) /\ Echoes(registry, Written) /\ Built(registry, mem)
      /\ Len(registry) = Len(Written)
      /\ \A k \in DOMAIN registry :
           /\ k <= done => Points(mem[registry[k].obj].fptr, registry)
           /\ k > done => Refers(mem[registry[k].obj].fptr, registry)
  <2>1. /\ Types /\ disk[file].complete /\ next_id = disk[file].next_id
        /\ Distinct(registry) /\ Echoes(registry, Written) /\ Built(registry, mem)
        /\ Len(registry) = Len(Written)
        /\ \A k \in DOMAIN registry :
             IF k <= done THEN Points(mem[registry[k].obj].fptr, registry)
             ELSE Refers(mem[registry[k].obj].fptr, registry)
    BY <1>1 DEF IInv, Restoring
  <2>2. done \in Nat /\ DOMAIN registry = 1 .. Len(registry)
    BY <2>1, Nodes DEF Types
  <2> QED BY <2>1, <2>2
<1>3. registry \in Seq(Node) /\ mem \in [Addr -> Object] /\ done \in Nat
  BY <1>2 DEF Types
<1>4. n \in DOMAIN registry /\ DOMAIN registry = 1 .. Len(registry) /\ Len(registry) \in Nat
      /\ \A k \in DOMAIN registry : registry[k].obj \in Addr
  BY <1>1, <1>3, Nodes
<1>5. \A j \in DOMAIN registry : object_ptr(registry, registry[j].id) = registry[j].obj
  BY <1>2, <1>3, ObjectPtr DEF Distinct
<1>6. \/ mem[a].fptr = NULL /\ fptr = NULL
      \/ \E j \in DOMAIN registry : fptr = registry[j].obj
  <2>1. mem[a].fptr = NULL \/ \E j \in DOMAIN registry : mem[a].fptr = registry[j].id
    BY <1>2, <1>3, <1>4 DEF Refers
  <2>2. CASE mem[a].fptr = NULL
    BY <2>2 DEF reanimate_fptr
  <2>3. CASE mem[a].fptr # NULL
    BY <2>1, <2>3, <1>5 DEF reanimate_fptr
  <2> QED BY <2>2, <2>3
<1>7. pc' = "reanimating" /\ fptr \in Addr \cup {NULL} /\ Points(fptr, registry)
  BY <1>1, <1>4, <1>6, CheckptAssumption DEF Points
<1>8. \A k \in DOMAIN registry : k # n => registry[k].obj # a
  BY <1>2, <1>4 DEF Distinct
<1> HIDE DEF fptr, n
<1>9. /\ mem' \in [Addr -> Object] /\ mem'[a].fptr = fptr
      /\ \A b \in Addr : mem'[b].ptr = mem[b].ptr /\ (b # a => mem'[b].fptr = mem[b].fptr)
  BY <1>1, <1>3, <1>4, <1>7 DEF Object
<1>10. Types'
  BY <1>1, <1>2, <1>3, <1>7, <1>9 DEF Types, Place, n
<1>11. Built(registry, mem')
  BY <1>2, <1>4, <1>9 DEF Built
<1>12. ASSUME NEW k \in DOMAIN registry
       PROVE  IF k <= n THEN Points(mem'[registry[k].obj].fptr, registry)
              ELSE Refers(mem'[registry[k].obj].fptr, registry)
  <2>1. CASE k = n
    BY <2>1, <1>4, <1>7, <1>9
  <2>2. CASE k # n
    <3>1. mem'[registry[k].obj].fptr = mem[registry[k].obj].fptr
      BY <2>2, <1>4, <1>8, <1>9
    <3> QED BY <2>2, <3>1, <1>2, <1>3, <1>4 DEF n
  <2> QED BY <2>1, <2>2
<1>13. Restoring'
  <2>1. Written' = Written
    BY <1>1 DEF Written
  <2>2. done' = n /\ n <= Len(registry)
    BY <1>1, <1>3, <1>4 DEF n
  <2> QED BY <2>1, <2>2, <1>1, <1>2, <1>7, <1>11, <1>12 DEF Restoring
<1> QED BY <1>1, <1>7, <1>10, <1>13 DEF IInv, Fresh, Running, Writing, Files

(* ... and the program has its objects back.                               *)
LEMMA Resumes == IInv /\ ReanimateReturn => IInv'
<1> SUFFICES ASSUME IInv, ReanimateReturn PROVE IInv'
  OBVIOUS
<1>1. /\ pc \in {"restored", "reanimating"} /\ done = Len(registry) /\ pc' = "app" /\ done' = 0
      /\ UNCHANGED <<registry, next_id, mem, file, disk>>
  BY DEF ReanimateReturn
<1>2. /\ Types /\ Files /\ disk[file].complete /\ next_id = disk[file].next_id
      /\ Distinct(registry) /\ Echoes(registry, Written) /\ Built(registry, mem)
      /\ \A k \in DOMAIN registry :
           IF k <= done THEN Points(mem[registry[k].obj].fptr, registry)
           ELSE Refers(mem[registry[k].obj].fptr, registry)
  BY <1>1 DEF IInv, Restoring
<1>3. DOMAIN registry = 1 .. done /\ file \in Names
  BY <1>1, <1>2, Nodes DEF Types
<1>4. Below(registry, next_id)
  BY <1>2, <1>3 DEF Files, Restorable, Below, Echoes, Written
<1>5. \A k \in DOMAIN registry : Points(mem[registry[k].obj].fptr, registry)
  BY <1>2, <1>3
<1>6. Types' /\ Running'
  BY <1>1, <1>2, <1>4, <1>5 DEF Types, Place, Running
<1> QED BY <1>1, <1>6 DEF IInv, Fresh, Writing, Files, Restoring

(* A process that dies leaves what it has on disk.                         *)
LEMMA Dies == IInv /\ Die => IInv'
<1> SUFFICES ASSUME IInv, Die PROVE IInv'
  OBVIOUS
<1>1. Types'
  <2>1. Blank \in Object
    BY DEF Blank, Object
  <2> QED BY <2>1 DEF IInv, Types, Die, Place
<1> QED BY <1>1 DEF IInv, Die, Fresh, Running, Writing, Files, Restoring

-----------------------------------------------------------------------------
(* All of this holds of any program that has no CHECKPT_PTR to the object  *)
(* itself or to a younger one.                                             *)
THEOREM RegistryKept == ASSUME ~Forward PROVE Spec => []IInv
<1>1. IInv /\ [Next]_vars => IInv'
  <2> SUFFICES ASSUME IInv, [Next]_vars PROVE IInv'
    OBVIOUS
  <2>1. ASSUME NEW a \in Heap \ Objs, NEW p \in Targets \cup {NULL},
               NEW f \in Targets \cup {NULL, a}, RegisterObject(a, p, f)
        PROVE  IInv'
    BY <2>1, Registers
  <2>2. ASSUME NEW a \in Objs \cap Heap,
               UnregisterObject(a) \/ \E f \in Targets \cup {NULL} : SetFptr(a, f)
        PROVE  IInv'
    BY <2>2, Unregisters, Sets
  <2>3. ASSUME NEW n \in Names, CheckptOpen(n) \/ RestoreOpen(n)
        PROVE  IInv'
    BY <2>3, Opens, Forgets
  <2>4. ASSUME NEW a \in Addr, RestoreNode(a)
        PROVE  IInv'
    BY <2>4, Restores
  <2>5. CASE Initialize
    BY <2>5 DEF Initialize, IInv, Types, Place, Fresh, Running, Writing, Files, Restoring
  <2>6. CASE UNCHANGED vars
    BY <2>6 DEF vars, IInv, Types, Fresh, Running, Writing, Written, Files, Restoring
  <2> QED BY <2>1, <2>2, <2>3, <2>4, <2>5, <2>6, Boots, Writes, Closes, Returns, Reanimates,
             Resumes, Dies DEF Next
<1> QED BY <1>1, Starts, PTL DEF Spec

-----------------------------------------------------------------------------
(* What writing a node does to the files.                                  *)
LEMMA WriteEffect ==
  ASSUME IInv, CheckptNode, pc' \in Place
  PROVE  LET n == Len(Written)
             o == mem[registry[n + 1].obj]
         IN /\ pc = "writing" /\ n \in Nat /\ DOMAIN Written = 1 .. n
            /\ DOMAIN Written' = 1 .. n + 1 /\ \A k \in 1 .. n : Written'[k] = Written[k]
            /\ Written'[n + 1].ptr = object_id(registry, o.ptr)
            /\ Written'[n + 1].fptr = object_id(registry, o.fptr)
            /\ UNCHANGED <<pc, registry, next_id, mem, file, done>>
            /\ ~disk[file].complete /\ ~disk'[file].complete
            /\ \A m \in Names : m # file => disk'[m] = disk[m]
<1> DEFINE n == Len(Written)
           r == registry[n + 1]
           o == mem[r.obj]
           e == [id |-> r.id, obj |-> r.obj, ptr |-> object_id(registry, o.ptr),
                 fptr |-> object_id(registry, o.fptr)]
           f == [disk[file] EXCEPT !.nodes = Append(Written, e)]
<1>1. /\ pc = "writing" /\ UNCHANGED <<registry, next_id, mem, file, done>>
      /\ disk \in [Names -> File] /\ file \in Names /\ ~disk[file].complete
  BY DEF CheckptNode, IInv, Types, Writing
<1>2. ~(Refused(o.ptr) \/ Refused(o.fptr))
  BY DEF CheckptNode, Place
<1>3. pc' = pc /\ disk' = [disk EXCEPT ![file] = f]
  BY <1>1, <1>2 DEF CheckptNode, Written
<1>4. Written \in Seq(Saved) /\ disk[file] \in File
  BY <1>1 DEF File, Written
<1>5. n \in Nat /\ DOMAIN Written = 1 .. n
  BY <1>4
<1>6. /\ DOMAIN Append(Written, e) = 1 .. n + 1 /\ Append(Written, e)[n + 1] = e
      /\ \A k \in 1 .. n : Append(Written, e)[k] = Written[k]
  BY <1>4
<1>7. f.nodes = Append(Written, e) /\ f.complete = disk[file].complete
  BY <1>4 DEF File
<1>8. e.ptr = object_id(registry, o.ptr) /\ e.fptr = object_id(registry, o.fptr)
  OBVIOUS
<1> HIDE DEF n, r, o, e, f
<1>9. /\ Written' = Append(Written, e) /\ disk'[file] = f
      /\ \A m \in Names : m # file => disk'[m] = disk[m]
  BY <1>1, <1>3, <1>7 DEF Written
<1> QED BY <1>1, <1>3, <1>5, <1>6, <1>7, <1>8, <1>9 DEF n, r, o

(* What closing the file does to the files.                                *)
LEMMA CloseEffect ==
  ASSUME IInv, CheckptClose
  PROVE  /\ pc = "writing" /\ pc' = "app" /\ DOMAIN Written = DOMAIN registry
         /\ UNCHANGED <<registry, next_id, mem, file, done>> /\ file \in Names
         /\ ~disk[file].complete /\ disk'[file].complete
         /\ disk'[file].nodes = Written /\ disk'[file].next_id = next_id
         /\ \A m \in Names : m # file => disk'[m] = disk[m]
<1> DEFINE f == [disk[file] EXCEPT !.complete = TRUE]
<1>1. /\ pc = "writing" /\ pc' = "app" /\ Len(Written) = Len(registry)
      /\ UNCHANGED <<registry, next_id, mem, file, done>>
      /\ disk \in [Names -> File] /\ file \in Names /\ registry \in Seq(Node)
      /\ ~disk[file].complete /\ disk[file].next_id = next_id
  BY DEF CheckptClose, IInv, Types, Writing
<1>2. disk[file] \in File
  BY <1>1
<1>3. disk' = [disk EXCEPT ![file] = f]
  BY <1>2 DEF CheckptClose
<1>4. f.complete /\ f.nodes = Written /\ f.next_id = next_id /\ Written \in Seq(Saved)
  BY <1>1, <1>2 DEF File, Written
<1> HIDE DEF f
<1>5. disk'[file] = f /\ \A m \in Names : m # file => disk'[m] = disk[m]
  BY <1>1, <1>3
<1> QED BY <1>1, <1>4, <1>5

(* What TypeOK says beyond Types: identifiers, pointers written as such    *)
(* and those of a file are below a next_id within the bound.               *)
Bounds ==
  /\ next_id > 0 /\ next_id <= MaxId + 1
  /\ pc \notin {"restored", "reanimating"} => done = 0
  /\ \A k \in DOMAIN registry : registry[k].id < next_id
  /\ \A a \in Addr : mem[a].fptr \in Addr \cup {NULL} \cup (1 .. MaxId)
  /\ \A n \in Names :
       /\ disk[n].next_id <= MaxId + 1
       /\ \A k \in DOMAIN disk[n].nodes :
            LET node == disk[n].nodes[k]
            IN /\ node.id < disk[n].next_id
               /\ node.ptr < disk[n].next_id /\ node.fptr < disk[n].next_id

(* The bounds hold to begin with.                                          *)
LEMMA BoundsStart == Init => Bounds
BY CheckptAssumption DEF Init, Bounds, Blank

(* No step leaves the bounds.                                              *)
LEMMA BoundsKept == ~Forward /\ IInv /\ IInv' /\ Bounds /\ [Next]_vars => Bounds'
<1> SUFFICES ASSUME ~Forward, IInv, IInv', Bounds, [Next]_vars PROVE Bounds'
  OBVIOUS
<1>1. /\ registry \in Seq(Node) /\ next_id \in Nat /\ mem \in [Addr -> Object] /\ done \in Nat
      /\ file \in Names /\ disk \in [Names -> File] /\ MaxId \in Nat /\ NULL \notin Addr
      /\ DOMAIN registry = 1 .. Len(registry) /\ Len(registry) \in Nat
      /\ \A k \in DOMAIN registry : registry[k].id \in Nat \ {0} /\ registry[k].obj \in Addr
  BY Nodes, CheckptAssumption DEF IInv, Types
<1>2. CASE Boot
  BY <1>1, <1>2, CheckptAssumption DEF Boot, FirstId, Bounds
<1>3. ASSUME NEW a \in Heap \ Objs, NEW p \in Targets \cup {NULL},
             NEW f \in Targets \cup {NULL, a}, RegisterObject(a, p, f)
      PROVE  Bounds'
  <2> DEFINE node == [id |-> next_id, obj |-> a]
  <2>1. /\ registry' = Append(registry, node) /\ next_id' = next_id + 1 /\ next_id <= MaxId
        /\ mem' = [mem EXCEPT ![a] = [ptr |-> p, fptr |-> f]] /\ UNCHANGED <<pc, done, disk>>
    BY <1>3 DEF RegisterObject, Registered
  <2>2. a \in Addr /\ f \in Addr \cup {NULL}
    BY DEF Addr, Targets
  <2>3. node \in Node /\ node.id = next_id
    BY <1>1, <2>2 DEF Node, Bounds
  <2> HIDE DEF node
  <2>4. /\ DOMAIN registry' = 1 .. Len(registry) + 1 /\ Len(registry') = Len(registry) + 1
        /\ registry'[Len(registry) + 1] = node
        /\ \A k \in DOMAIN registry : registry'[k] = registry[k]
    BY <1>1, <2>1, <2>3, Appended
  <2>5. \A k \in DOMAIN registry' : registry'[k].id < next_id'
    BY <1>1, <2>1, <2>3, <2>4 DEF Bounds
  <2>6. \A b \in Addr : mem'[b].fptr \in Addr \cup {NULL} \cup (1 .. MaxId)
    BY <1>1, <2>1, <2>2 DEF Bounds
  <2> QED BY <1>1, <2>1, <2>4, <2>5, <2>6 DEF Bounds
<1>4. ASSUME NEW a \in Objs \cap Heap, NEW f \in Targets \cup {NULL}, SetFptr(a, f)
      PROVE  Bounds'
  <2>1. a \in Addr /\ f \in Addr \cup {NULL}
    BY DEF Addr, Targets
  <2>2. \A b \in Addr : mem'[b].fptr = IF b = a THEN f ELSE mem[b].fptr
    BY <1>1, <1>4, <2>1 DEF SetFptr, Object
  <2> QED BY <1>1, <1>4, <2>1, <2>2 DEF SetFptr, Bounds
<1>5. ASSUME NEW a \in Objs \cap Heap, UnregisterObject(a)
      PROVE  Bounds'
  <2>1. /\ pc = "app" /\ mem' = [mem EXCEPT ![a] = Blank] /\ UNCHANGED <<pc, next_id, done, disk>>
    BY <1>5 DEF UnregisterObject
  <2>2. PICK r \in DOMAIN registry : registry' = Without(registry, r)
    BY <1>5 DEF UnregisterObject
  <2>3. Below(registry', next_id')
    BY <2>1 DEF IInv, Running
  <2>4. \A b \in Addr : mem'[b].fptr \in Addr \cup {NULL} \cup (1 .. MaxId)
    BY <1>1, <2>1 DEF Bounds, Blank
  <2> QED BY <2>1, <2>3, <2>4 DEF Bounds, Below
<1>6. ASSUME NEW n \in Names, CheckptOpen(n)
      PROVE  Bounds'
  <2> DEFINE f == [next_id |-> next_id, nodes |-> <<>>, complete |-> FALSE]
  <2>1. /\ pc = "app" /\ pc' = "writing" /\ disk' = [disk EXCEPT ![n] = f]
        /\ UNCHANGED <<registry, next_id, mem, done>>
    BY <1>6 DEF CheckptOpen
  <2>2. f.next_id = next_id /\ DOMAIN f.nodes = {}
    OBVIOUS
  <2> HIDE DEF f
  <2>3. disk'[n] = f /\ \A m \in Names : m # n => disk'[m] = disk[m]
    BY <1>1, <2>1
  <2> QED BY <2>1, <2>2, <2>3 DEF Bounds
<1>7. ASSUME NEW n \in Names, RestoreOpen(n)
      PROVE  Bounds'
  <2>1. disk[n].complete /\ next_id' = disk[n].next_id /\ registry' = <<>> /\ pc' = "reading"
        /\ pc = "booted" /\ UNCHANGED <<mem, done, disk>>
    BY <1>7 DEF RestoreOpen, RestoredNextId
  <2>2. next_id' > 0
    BY <2>1 DEF IInv, Files, Restorable, Below
  <2> QED BY <2>1, <2>2 DEF Bounds
<1>8. CASE CheckptNode
  <2> DEFINE n == Len(Written)
             o == mem[registry[n + 1].obj]
             e == Written'[n + 1]
  <2>1. /\ pc = "writing" /\ n \in Nat /\ DOMAIN Written = 1 .. n
        /\ DOMAIN Written' = 1 .. n + 1 /\ \A k \in 1 .. n : Written'[k] = Written[k]
        /\ e.id = registry[n + 1].id /\ n + 1 \in DOMAIN registry
        /\ e.ptr = object_id(registry, o.ptr) /\ e.fptr = object_id(registry, o.fptr)
        /\ UNCHANGED <<pc, registry, next_id, mem, file, done>>
        /\ disk'[file].next_id = next_id /\ disk[file].next_id = next_id
        /\ \A m \in Names : m # file => disk'[m] = disk[m]
    <3>1. pc' \in Place
      BY DEF IInv, Types
    <3>2. /\ pc = "writing" /\ n \in Nat /\ DOMAIN Written = 1 .. n
          /\ DOMAIN Written' = 1 .. n + 1 /\ \A k \in 1 .. n : Written'[k] = Written[k]
          /\ e.ptr = object_id(registry, o.ptr) /\ e.fptr = object_id(registry, o.fptr)
          /\ UNCHANGED <<pc, registry, next_id, mem, file, done>>
          /\ \A m \in Names : m # file => disk'[m] = disk[m]
      BY <1>8, <3>1, WriteEffect
    <3> HIDE DEF n
    <3>3. pc' = "writing" /\ n + 1 \in DOMAIN Written'
      BY <3>2
    <3>4. Same(Written', registry') /\ disk'[file].next_id = next_id /\ disk[file].next_id = next_id
      BY <3>2, <3>3 DEF IInv, Writing
    <3>5. e.id = registry[n + 1].id /\ n + 1 \in DOMAIN registry
      BY <3>2, <3>3, <3>4 DEF Same
    <3> QED BY <3>2, <3>4, <3>5
  <2>2. \A p : p = NULL \/ (\E j \in DOMAIN registry : p = registry[j].obj)
          => object_id(registry, p) < next_id
    <3>1. object_id(registry, NULL) = 0
      BY <1>1, NullId
    <3>2. \A j \in DOMAIN registry : object_id(registry, registry[j].obj) = registry[j].id
      BY <1>1, <2>1, ObjectId DEF IInv, Running
    <3> QED BY <3>1, <3>2 DEF Bounds
  <2>3. \A p \in {o.ptr, o.fptr} : p = NULL \/ \E j \in DOMAIN registry : p = registry[j].obj
    <3> HIDE DEF n
    <3>1. Built(registry, mem) /\ Points(o.fptr, registry)
      BY <2>1 DEF IInv, Running
    <3>2. \A j \in 1 .. (n + 1) - 1 : j \in DOMAIN registry
      BY <1>1, <2>1
    <3> QED BY <3>1, <3>2, <2>1 DEF Built, Points
  <2>4. e.id < next_id /\ e.ptr < next_id /\ e.fptr < next_id
    BY <2>1, <2>2, <2>3 DEF Bounds
  <2> HIDE DEF n, e
  <2>5. \A k \in 1 .. n :
          Written[k].id < next_id /\ Written[k].ptr < next_id /\ Written[k].fptr < next_id
    BY <1>1, <2>1 DEF Bounds, Written
  <2>6. \A k \in DOMAIN Written' :
          Written'[k].id < next_id /\ Written'[k].ptr < next_id /\ Written'[k].fptr < next_id
    <3>1. \A k \in DOMAIN Written' : k \in 1 .. n \/ k = n + 1
      BY <2>1
    <3> QED BY <3>1, <2>1, <2>4, <2>5 DEF e
  <2>7. Written' = disk'[file].nodes
    BY <2>1 DEF Written
  <2> QED BY <2>1, <2>6, <2>7 DEF Bounds
<1>9. CASE CheckptClose
  <2>1. disk'[file].nodes = disk[file].nodes /\ disk'[file].next_id = disk[file].next_id
    BY <1>9, CloseEffect DEF Written, IInv, Writing
  <2> QED BY <1>9, <2>1, CloseEffect DEF Bounds
<1>10. ASSUME NEW a \in Addr, RestoreNode(a)
       PROVE  Bounds'
  <2> DEFINE n == Len(registry)
             node == Written[n + 1]
             back == [id |-> node.id, obj |-> a]
             ptr == restore_ptr(Append(registry, Stale(node)), node.ptr)
  <2>1. /\ pc = "reading" /\ n < Len(Written) /\ registry' = Append(registry, back)
        /\ next_id = disk[file].next_id /\ UNCHANGED <<next_id, done, disk>>
    BY <1>10 DEF RestoreNode, Back, IInv, Restoring
  <2>2. mem' = [mem EXCEPT ![a] = [ptr |-> ptr, fptr |-> restore_fptr(node.fptr)]]
    BY <1>10, Restores
  <2>3. Written \in Seq(Saved)
    BY <1>1 DEF File, Written
  <2>4. n + 1 \in DOMAIN Written /\ node \in Saved
    BY <1>1, <2>1, <2>3
  <2>5. node.id < next_id /\ node.fptr < next_id /\ node.fptr \in Nat /\ node.id \in Nat \ {0}
    BY <1>1, <2>1, <2>4 DEF Bounds, Written, Saved
  <2>6. back \in Node /\ back.id = node.id
    BY <2>5 DEF Node
  <2> HIDE DEF node, back, ptr
  <2>7. /\ DOMAIN registry' = 1 .. n + 1 /\ registry'[n + 1] = back
        /\ \A k \in 1 .. n : registry'[k] = registry[k]
    BY <1>1, <2>1, <2>6, Appended
  <2>8. \A k \in DOMAIN registry' : registry'[k].id < next_id
    <3>1. \A k \in DOMAIN registry' : k \in DOMAIN registry \/ k = n + 1
      BY <1>1, <2>7
    <3> QED BY <3>1, <1>1, <2>5, <2>6, <2>7 DEF Bounds
  <2>9. restore_fptr(node.fptr) \in {NULL} \cup (1 .. MaxId)
    BY <1>1, <2>5 DEF restore_fptr, Bounds
  <2>10. \A b \in Addr : mem'[b].fptr \in Addr \cup {NULL} \cup (1 .. MaxId)
    BY <1>1, <2>2, <2>9 DEF Bounds
  <2>11. pc' = "reading"
    BY <1>10, <2>1 DEF RestoreNode, IInv, Types, Place
  <2> QED BY <2>1, <2>8, <2>10, <2>11 DEF Bounds
<1>11. CASE ReanimateNode
  <2> DEFINE a == registry[done + 1].obj
             fptr == reanimate_fptr(mem[a].fptr)
  <2>1. /\ mem' = [mem EXCEPT ![a].fptr = fptr] /\ UNCHANGED <<registry, next_id, disk>>
        /\ done < Len(registry) /\ pc' = "reanimating"
    BY <1>11 DEF ReanimateNode, IInv, Types, Place
  <2>2. a \in Addr
    BY <1>1, <2>1
  <2>3. fptr = mem'[a].fptr
    BY <1>1, <2>1, <2>2 DEF Object
  <2>4. fptr \in Addr \cup {NULL}
    <3>1. object_ptr(registry, mem[a].fptr) \in Addr \cup {NULL}
      <4>1. CASE \E k \in DOMAIN registry : registry[k].id = mem[a].fptr
        <5>1. PICK k \in DOMAIN registry : registry[k].id = mem[a].fptr
          BY <4>1
        <5>2. Distinct(registry)
          BY <1>11 DEF ReanimateNode, IInv, Restoring
        <5>3. object_ptr(registry, registry[k].id) = registry[k].obj
          BY <1>1, <5>2, ObjectPtr DEF Distinct
        <5> QED BY <1>1, <5>1, <5>3
      <4>2. CASE ~\E k \in DOMAIN registry : registry[k].id = mem[a].fptr
        BY <4>2 DEF object_ptr
      <4> QED BY <4>1, <4>2
    <3> QED BY <3>1 DEF reanimate_fptr
  <2> HIDE DEF a, fptr
  <2>5. \A b \in Addr : mem'[b].fptr = IF b = a THEN fptr ELSE mem[b].fptr
    BY <1>1, <2>1, <2>2 DEF Object
  <2> QED BY <2>1, <2>4, <2>5 DEF Bounds
<1>12. CASE RestoreClose
  BY <1>12 DEF RestoreClose, Bounds
<1>13. CASE ReanimateReturn
  BY <1>13 DEF ReanimateReturn, Bounds
<1>14. CASE Initialize
  BY <1>14 DEF Initialize, Bounds
<1>15. CASE Die
  BY <1>1, <1>15, CheckptAssumption DEF Die, Bounds, Blank
<1>16. CASE UNCHANGED vars
  BY <1>16 DEF vars, Bounds
<1> QED BY <1>2, <1>3, <1>4, <1>5, <1>6, <1>7, <1>8, <1>9, <1>10, <1>11, <1>12, <1>13, <1>14,
           <1>15, <1>16 DEF Next

(* Every variable keeps its type, and no identifier is zero or beyond the  *)
(* bound (checkpt.cc: zero indicates an error).                            *)
THEOREM TypeCorrect == ASSUME ~Forward PROVE Spec => []TypeOK
<1>1. IInv /\ Bounds => TypeOK
  <2> SUFFICES ASSUME IInv, Bounds PROVE TypeOK
    OBVIOUS
  <2>1. /\ Types /\ registry \in Seq(Node) /\ disk \in [Names -> File] /\ mem \in [Addr -> Object]
        /\ MaxId \in Nat /\ next_id \in Nat /\ done \in Nat
    BY CheckptAssumption DEF IInv, Types
  <2>2. registry \in Seq([id : 1 .. MaxId, obj : Addr])
    <3>1. ASSUME NEW k \in DOMAIN registry
          PROVE  registry[k] \in [id : 1 .. MaxId, obj : Addr]
      <4>1. registry[k] \in Node /\ registry[k].id < next_id
        BY <2>1, Nodes DEF Bounds
      <4>2. registry[k].id \in 1 .. MaxId
        BY <2>1, <4>1 DEF Node, Bounds
      <4> QED BY <4>1, <4>2 DEF Node
    <3> QED BY <2>1, <3>1, Narrowed
  <2>3. mem \in [Addr -> [ptr : Addr \cup {NULL}, fptr : Addr \cup {NULL} \cup (1 .. MaxId)]]
    BY <2>1 DEF Bounds, Object
  <2>4. done \in 0 .. Len(registry)
    BY <2>1, Nodes DEF Bounds, IInv, Restoring
  <2>5. ASSUME NEW n \in Names
        PROVE  disk[n] \in [next_id : 0 .. MaxId + 1, complete : BOOLEAN,
                            nodes : Seq([id : 1 .. MaxId, obj : Addr,
                                         ptr : 0 .. MaxId, fptr : 0 .. MaxId])]
    <3> DEFINE nodes == disk[n].nodes
    <3>1. disk[n] \in File /\ nodes \in Seq(Saved)
      BY <2>1 DEF File
    <3>2. disk[n].next_id \in 0 .. MaxId + 1
      BY <2>1, <3>1 DEF Bounds, File
    <3>3. \A k \in DOMAIN nodes : nodes[k] \in [id : 1 .. MaxId, obj : Addr,
                                                ptr : 0 .. MaxId, fptr : 0 .. MaxId]
      <4> SUFFICES ASSUME NEW k \in DOMAIN nodes
                   PROVE  nodes[k] \in [id : 1 .. MaxId, obj : Addr,
                                        ptr : 0 .. MaxId, fptr : 0 .. MaxId]
        OBVIOUS
      <4>1. nodes[k] \in Saved
        BY <3>1
      <4>2. nodes[k].id <= MaxId /\ nodes[k].ptr <= MaxId /\ nodes[k].fptr <= MaxId
        BY <2>1, <3>2, <4>1 DEF Bounds, Saved
      <4> QED BY <2>1, <4>1, <4>2 DEF Saved
    <3>4. nodes \in Seq([id : 1 .. MaxId, obj : Addr, ptr : 0 .. MaxId, fptr : 0 .. MaxId])
      BY <3>1, <3>3, Narrowed
    <3> QED BY <3>1, <3>2, <3>4 DEF File
  <2>6. disk \in [Names -> [next_id : 0 .. MaxId + 1, complete : BOOLEAN,
                            nodes : Seq([id : 1 .. MaxId, obj : Addr,
                                         ptr : 0 .. MaxId, fptr : 0 .. MaxId])]]
    BY <2>1, <2>5
  <2>7. next_id \in 1 .. MaxId + 1 /\ file \in Names /\ pc \in Place
    BY <2>1 DEF Bounds, Types
  <2> QED BY <2>2, <2>3, <2>4, <2>6, <2>7 DEF TypeOK, Place
<1> QED BY <1>1, BoundsStart, BoundsKept, RegistryKept, PTL DEF Spec

-----------------------------------------------------------------------------
(* No call of the checkpoint service meets an ERROR (checkpt.cc: "Object   *)
(* not registered", "not found"), however often the process dies and with  *)
(* whatever it had written.                                                *)
THEOREM NothingRefused == ASSUME ~Forward PROVE Spec => []NeverRefuses
<1>1. IInv => NeverRefuses
  BY DEF IInv, Types, Place, NeverRefuses
<1> QED BY <1>1, RegistryKept, PTL

(* While the program runs, no address of the process that wrote the file   *)
(* and no identifier is left in a pointer (checkpt.h: reanimate).          *)
THEOREM PointersRestored == ASSUME ~Forward PROVE Spec => []NoStalePointer
<1>1. IInv => NoStalePointer
  <2> SUFFICES ASSUME IInv, pc \in {"app", "writing"}, NEW k \in DOMAIN registry
               PROVE  LET o == mem[registry[k].obj] IN {o.ptr, o.fptr} \subseteq Objs \cup {NULL}
    BY DEF NoStalePointer, Objs
  <2>1. /\ registry \in Seq(Node) /\ Built(registry, mem)
        /\ Points(mem[registry[k].obj].fptr, registry)
    BY DEF IInv, Types, Running
  <2>2. DOMAIN registry = 1 .. Len(registry) /\ Len(registry) \in Nat
        /\ \A j \in DOMAIN registry : registry[j].obj \in Objs
    BY <2>1, Nodes DEF Objs
  <2>3. mem[registry[k].obj].ptr \in Objs \cup {NULL}
    BY <2>1, <2>2 DEF Built
  <2>4. mem[registry[k].obj].fptr \in Objs \cup {NULL}
    BY <2>1, <2>2 DEF Points
  <2> QED BY <2>3, <2>4
<1> QED BY <1>1, RegistryKept, PTL

-----------------------------------------------------------------------------
(***************************************************************************)
(* The checkpoint service implements the object store, for any heap, any   *)
(* number of objects and any names of checkpoints: a checkpoint is taken   *)
(* at its close, a restored one is back when reanimate_objects returns,    *)
(* and what happens in between changes nothing that is seen.               *)
(*                                                                         *)
(* To the invariant of CheckptProofs this adds that the identifiers in a   *)
(* file are those of the pointers they were written for, and the pointers  *)
(* restored from it those of the identifiers; and that one static object   *)
(* at least is always registered, by which a process that runs is told     *)
(* from one that does not.                                                 *)
(***************************************************************************)

(* Pointer p is what identifier i stands for in registry r.                *)
Means(p, i, r) == (i = 0 /\ p = NULL) \/ \E j \in DOMAIN r : i = r[j].id /\ p = r[j].obj

Holds(nodes) == \E k \in DOMAIN nodes : nodes[k].obj = Statics[1]
Anchored ==
  /\ Up => Holds(registry)
  /\ \A n \in Names : disk[n].complete => Holds(disk[n].nodes)

Exact ==
  pc = "writing" =>
    \A k \in DOMAIN Written :
      /\ Written[k].ptr = object_id(registry, mem[registry[k].obj].ptr)
      /\ Written[k].fptr = object_id(registry, mem[registry[k].obj].fptr)

Faithful ==
  pc \in {"reading", "restored", "reanimating"} =>
    \A k \in DOMAIN registry :
      /\ Means(mem[registry[k].obj].ptr, Written[k].ptr, registry)
      /\ IF pc # "reading" /\ k <= done
         THEN Means(mem[registry[k].obj].fptr, Written[k].fptr, registry)
         ELSE mem[registry[k].obj].fptr = restore_fptr(Written[k].fptr)

RInv == Anchored /\ Exact /\ Faithful
-----------------------------------------------------------------------------
(* It holds to begin with, and every step keeps it.                        *)
LEMMA RStarts == Init => RInv
BY DEF Init, RInv, Anchored, Up, Exact, Faithful

(* Boot registers the first static object ...                              *)
LEMMA RBoots == IInv /\ RInv /\ Boot => RInv'
<1> SUFFICES ASSUME IInv, RInv, Boot PROVE RInv'
  OBVIOUS
<1>1. /\ pc' = "booted" /\ UNCHANGED <<mem, file, done, disk>>
      /\ registry' = [k \in DOMAIN Statics |-> [id |-> FirstId + k - 1, obj |-> Statics[k]]]
  BY DEF Boot
<1>2. 1 \in DOMAIN Statics
  BY CheckptAssumption
<1>3. Holds(registry')
  BY <1>1, <1>2 DEF Holds
<1> QED BY <1>1, <1>3 DEF RInv, Anchored, Exact, Faithful

(* ... which stays when another is registered behind it ...                *)
LEMMA RRegisters ==
  ASSUME IInv, RInv, NEW a \in Heap \ Objs, NEW p, NEW f, RegisterObject(a, p, f)
  PROVE  RInv'
<1> DEFINE node == [id |-> next_id, obj |-> a]
<1>1. pc = "app" /\ registry' = Append(registry, node) /\ UNCHANGED <<pc, disk>>
  BY DEF RegisterObject, Registered
<1>2. registry \in Seq(Node) /\ next_id \in Nat \ {0} /\ a \in Addr
  BY <1>1 DEF IInv, Types, Running, Below, Addr
<1>3. node \in Node
  BY <1>2 DEF Node
<1> HIDE DEF node
<1>4. /\ DOMAIN registry \subseteq DOMAIN registry'
      /\ \A k \in DOMAIN registry : registry'[k] = registry[k]
  BY <1>1, <1>2, <1>3, Appended
<1>5. Holds(registry)
  BY <1>1 DEF RInv, Anchored, Up
<1>6. Holds(registry')
  BY <1>4, <1>5 DEF Holds
<1> QED BY <1>1, <1>6 DEF RInv, Anchored, Exact, Faithful

(* ... and when another is unregistered, since the program unregisters     *)
(* none that is static.                                                    *)
LEMMA RUnregisters ==
  ASSUME IInv, RInv, NEW a \in Objs \cap Heap, UnregisterObject(a)
  PROVE  RInv'
<1>1. PICK r \in DOMAIN registry : registry[r].obj = a /\ registry' = Without(registry, r)
  BY DEF UnregisterObject
<1>2. pc = "app" /\ UNCHANGED <<pc, disk>>
  BY DEF UnregisterObject
<1>3. registry \in Seq(Node)
  BY DEF IInv, Types
<1>4. PICK k \in DOMAIN registry : registry[k].obj = Statics[1]
  BY <1>2 DEF RInv, Anchored, Up, Holds
<1>5. k # r
  <2>1. Statics[1] \in StaticSet
    BY CheckptAssumption DEF StaticSet
  <2> QED BY <2>1, <1>1, <1>4, CheckptAssumption
<1>6. /\ DOMAIN registry' = 1 .. Len(registry) - 1
      /\ \A j \in 1 .. Len(registry) - 1 :
           registry'[j] = IF j < r THEN registry[j] ELSE registry[j + 1]
  BY <1>1, <1>3, Taken
<1>7. Len(registry) \in Nat /\ DOMAIN registry = 1 .. Len(registry)
  BY <1>3, Nodes
<1>8. CASE k < r
  BY <1>1, <1>2, <1>4, <1>6, <1>7, <1>8 DEF Holds, RInv, Anchored, Exact, Faithful
<1>9. CASE k > r
  <2>1. k - 1 \in DOMAIN registry' /\ registry'[k - 1] = registry[k]
    BY <1>1, <1>6, <1>7, <1>9
  <2> QED BY <1>2, <1>4, <2>1 DEF Holds, RInv, Anchored, Exact, Faithful
<1> QED BY <1>1, <1>5, <1>7, <1>8, <1>9

(* A file that is opened has no identifiers yet ...                        *)
LEMMA ROpens ==
  ASSUME IInv, RInv, NEW n \in Names, CheckptOpen(n)
  PROVE  RInv'
<1> DEFINE f == [next_id |-> next_id, nodes |-> <<>>, complete |-> FALSE]
<1>1. /\ pc = "app" /\ pc' = "writing" /\ file' = n /\ disk' = [disk EXCEPT ![n] = f]
      /\ UNCHANGED <<registry, mem, done>>
  BY DEF CheckptOpen
<1>2. disk \in [Names -> File]
  BY DEF IInv, Types
<1>3. /\ disk'[n].nodes = <<>> /\ ~disk'[n].complete
      /\ \A m \in Names : m # n => disk'[m] = disk[m]
  BY <1>1, <1>2
<1>4. Anchored'
  BY <1>1, <1>3 DEF RInv, Anchored, Up
<1>5. Exact'
  BY <1>1, <1>3 DEF Exact, Written
<1> QED BY <1>1, <1>4, <1>5 DEF RInv, Faithful

(* ... a node has those of the pointers of its object ...                  *)
LEMMA RWrites == IInv /\ IInv' /\ RInv /\ CheckptNode => RInv'
<1> SUFFICES ASSUME IInv, IInv', RInv, CheckptNode PROVE RInv'
  OBVIOUS
<1> DEFINE n == Len(Written)
           o == mem[registry[n + 1].obj]
<1>1. /\ pc = "writing" /\ n \in Nat /\ DOMAIN Written = 1 .. n
      /\ DOMAIN Written' = 1 .. n + 1 /\ \A k \in 1 .. n : Written'[k] = Written[k]
      /\ Written'[n + 1].ptr = object_id(registry, o.ptr)
      /\ Written'[n + 1].fptr = object_id(registry, o.fptr)
      /\ UNCHANGED <<pc, registry, next_id, mem, file, done>>
      /\ ~disk[file].complete /\ ~disk'[file].complete
      /\ \A m \in Names : m # file => disk'[m] = disk[m]
  <2>1. pc' \in Place
    BY DEF IInv, Types
  <2> QED BY <2>1, WriteEffect
<1> HIDE DEF n
<1>2. Exact'
  <2> SUFFICES ASSUME NEW k \in 1 .. n + 1
               PROVE  /\ Written'[k].ptr = object_id(registry, mem[registry[k].obj].ptr)
                      /\ Written'[k].fptr = object_id(registry, mem[registry[k].obj].fptr)
    BY <1>1 DEF Exact
  <2>1. CASE k = n + 1
    BY <2>1, <1>1
  <2>2. CASE k # n + 1
    <3>1. k \in 1 .. n
      BY <2>2, <1>1
    <3> QED BY <3>1, <1>1 DEF RInv, Exact
  <2> QED BY <2>1, <2>2
<1>3. Anchored'
  BY <1>1 DEF RInv, Anchored, Up
<1> QED BY <1>1, <1>2, <1>3 DEF RInv, Faithful

(* ... and a complete file has the static object.                          *)
LEMMA RCloses == IInv /\ RInv /\ CheckptClose => RInv'
<1> SUFFICES ASSUME IInv, RInv, CheckptClose PROVE RInv'
  OBVIOUS
<1>1. Holds(registry) /\ Same(Written, registry) /\ DOMAIN Written = DOMAIN registry
  BY CloseEffect DEF RInv, Anchored, Up, IInv, Writing
<1>2. Holds(Written)
  BY <1>1 DEF Holds, Same
<1>3. Anchored'
  BY <1>1, <1>2, CloseEffect DEF RInv, Anchored
<1> QED BY <1>3, CloseEffect DEF RInv, Exact, Faithful

(* An object that is restored gets the pointer it was written with.        *)
LEMMA RRestores ==
  ASSUME IInv, RInv, NEW a \in Addr, RestoreNode(a)
  PROVE  RInv'
<1> DEFINE n == Len(registry)
           node == Written[n + 1]
           back == [id |-> node.id, obj |-> a]
           ptr == restore_ptr(Append(registry, Stale(node)), node.ptr)
           fptr == restore_fptr(node.fptr)
<1>1. /\ pc = "reading" /\ n < Len(Written) /\ registry' = Append(registry, back)
      /\ UNCHANGED <<file, disk>> /\ Written' = Written
  BY DEF RestoreNode, Back, Written
<1>2. IInv' /\ a \notin Objs /\ mem' = [mem EXCEPT ![a] = [ptr |-> ptr, fptr |-> fptr]]
  BY Restores
<1>3. registry \in Seq(Node) /\ mem \in [Addr -> Object] /\ disk[file] \in File /\ pc' \in Place
  BY <1>2 DEF IInv, Types
<1>4. pc' = "reading"
  BY <1>1, <1>3 DEF RestoreNode, Place
<1>5. Written \in Seq(Saved)
  BY <1>3 DEF File, Written
<1>6. n \in Nat /\ DOMAIN registry = 1 .. n /\ n + 1 \in DOMAIN Written
  BY <1>1, <1>3, <1>5, Nodes
<1>7. node \in Saved
  BY <1>5, <1>6
<1>8. back \in Node /\ back.obj = a
  BY <1>7 DEF Saved, Node
<1>9. (node.ptr = 0 /\ ptr = NULL)
      \/ \E j \in DOMAIN registry : node.ptr = registry[j].id /\ ptr = registry[j].obj
  BY <1>1, PtrRestored
<1> HIDE DEF n, node, back, ptr, fptr
<1>10. /\ DOMAIN registry' = 1 .. n + 1 /\ registry'[n + 1] = back
       /\ \A k \in 1 .. n : registry'[k] = registry[k]
  BY <1>1, <1>3, <1>8, Appended DEF n
<1>11. Means(ptr, node.ptr, registry')
  BY <1>6, <1>9, <1>10 DEF Means
<1>12. mem'[a].ptr = ptr /\ mem'[a].fptr = fptr /\ \A b \in Addr : b # a => mem'[b] = mem[b]
  BY <1>2, <1>3
<1>13. \A k \in 1 .. n : mem'[registry'[k].obj] = mem[registry[k].obj]
  <2>1. \A k \in 1 .. n : registry[k].obj \in Addr /\ registry[k].obj # a
    BY <1>2, <1>3, <1>6, Nodes DEF Objs
  <2> QED BY <2>1, <1>10, <1>12
<1>14. Faithful'
  <2> SUFFICES ASSUME NEW k \in 1 .. n + 1
               PROVE  /\ Means(mem'[registry'[k].obj].ptr, Written[k].ptr, registry')
                      /\ mem'[registry'[k].obj].fptr = restore_fptr(Written[k].fptr)
    BY <1>1, <1>4, <1>10 DEF Faithful
  <2>1. CASE k = n + 1
    BY <2>1, <1>8, <1>10, <1>11, <1>12 DEF node, fptr
  <2>2. CASE k # n + 1
    <3>1. k \in 1 .. n
      BY <2>2, <1>6
    <3>2. Means(mem[registry[k].obj].ptr, Written[k].ptr, registry)
          /\ mem[registry[k].obj].fptr = restore_fptr(Written[k].fptr)
      BY <3>1, <1>1, <1>6 DEF RInv, Faithful
    <3>3. Means(mem[registry[k].obj].ptr, Written[k].ptr, registry')
      BY <3>2, <1>6, <1>10 DEF Means
    <3> QED BY <3>1, <3>2, <3>3, <1>13
  <2> QED BY <2>1, <2>2
<1> QED BY <1>1, <1>4, <1>14 DEF RInv, Anchored, Up, Exact

(* Reading the end of the file changes no pointer.                         *)
LEMMA RReturns == IInv /\ RInv /\ RestoreClose => RInv'
<1> SUFFICES ASSUME IInv, RInv, RestoreClose PROVE RInv'
  OBVIOUS
<1>1. /\ pc = "reading" /\ pc' = "restored" /\ done' = 0 /\ UNCHANGED <<registry, mem, file, disk>>
      /\ registry \in Seq(Node)
  BY DEF RestoreClose, IInv, Types
<1>2. \A k \in DOMAIN registry : ~(k <= 0)
  BY <1>1, Nodes
<1>3. Faithful'
  BY <1>1, <1>2 DEF RInv, Faithful, Written
<1> QED BY <1>1, <1>3 DEF RInv, Anchored, Up, Exact

(* The second pointer of an object is what it was written with once it is  *)
(* reanimated.                                                             *)
LEMMA RReanimates == IInv /\ RInv /\ ReanimateNode => RInv'
<1> SUFFICES ASSUME IInv, RInv, ReanimateNode PROVE RInv'
  OBVIOUS
<1> DEFINE n == done + 1
           a == registry[n].obj
           i == Written[n].fptr
           fptr == reanimate_fptr(mem[a].fptr)
<1>1. /\ pc \in {"restored", "reanimating"} /\ done < Len(registry) /\ done' = n
      /\ mem' = [mem EXCEPT ![a].fptr = fptr]
      /\ UNCHANGED <<registry, next_id, file, disk>> /\ Written' = Written
  BY DEF ReanimateNode, Written
<1>2. IInv'
  BY Reanimates
<1>3. pc' = "reanimating"
  BY <1>2 DEF ReanimateNode, IInv, Types, Place
<1>4. /\ registry \in Seq(Node) /\ mem \in [Addr -> Object] /\ done \in Nat
      /\ disk[file] \in File /\ Distinct(registry)
      /\ \A k \in DOMAIN registry :
           IF k <= done THEN Points(mem[registry[k].obj].fptr, registry)
           ELSE Refers(mem[registry[k].obj].fptr, registry)
  BY <1>1 DEF IInv, Types, Restoring
<1>5. n \in DOMAIN registry /\ DOMAIN registry = 1 .. Len(registry) /\ Len(registry) \in Nat
      /\ \A k \in DOMAIN registry : registry[k].obj \in Addr
  BY <1>1, <1>4, Nodes
<1>6. Written \in Seq(Saved) /\ n \in DOMAIN Written
  BY <1>1, <1>4, <1>5 DEF File, Written, IInv, Restoring, Echoes
<1>7. i \in Nat
  <2>1. Written[n] \in Saved
    BY <1>6
  <2> QED BY <2>1 DEF Saved
<1>8. mem[a].fptr = restore_fptr(i)
  BY <1>1, <1>4, <1>5 DEF RInv, Faithful
<1>9. Means(fptr, i, registry)
  <2>1. CASE i = 0
    BY <2>1, <1>8 DEF Means, restore_fptr, reanimate_fptr
  <2>2. CASE i # 0
    <3>1. mem[a].fptr = i /\ i # NULL
      BY <2>2, <1>7, <1>8, CheckptAssumption DEF restore_fptr
    <3>2. PICK j \in DOMAIN registry : i = registry[j].id
      BY <3>1, <1>4, <1>5 DEF Refers
    <3>3. object_ptr(registry, registry[j].id) = registry[j].obj
      BY <1>4, ObjectPtr DEF Distinct
    <3> QED BY <3>1, <3>2, <3>3 DEF Means, reanimate_fptr
  <2> QED BY <2>1, <2>2
<1>10. \A k \in DOMAIN registry : k # n => registry[k].obj # a
  BY <1>4, <1>5 DEF Distinct
<1> HIDE DEF fptr, n
<1>11. /\ mem'[a].fptr = fptr
       /\ \A b \in Addr : mem'[b].ptr = mem[b].ptr /\ (b # a => mem'[b].fptr = mem[b].fptr)
  BY <1>1, <1>4, <1>5 DEF Object
<1>12. ASSUME NEW k \in DOMAIN registry
       PROVE  /\ Means(mem'[registry[k].obj].ptr, Written[k].ptr, registry)
              /\ IF k <= n THEN Means(mem'[registry[k].obj].fptr, Written[k].fptr, registry)
                 ELSE mem'[registry[k].obj].fptr = restore_fptr(Written[k].fptr)
  <2>1. /\ Means(mem[registry[k].obj].ptr, Written[k].ptr, registry)
        /\ IF k <= done THEN Means(mem[registry[k].obj].fptr, Written[k].fptr, registry)
           ELSE mem[registry[k].obj].fptr = restore_fptr(Written[k].fptr)
    BY <1>1 DEF RInv, Faithful
  <2>2. mem'[registry[k].obj].ptr = mem[registry[k].obj].ptr
    BY <1>5, <1>11
  <2>3. CASE k = n
    BY <2>1, <2>2, <2>3, <1>5, <1>9, <1>11
  <2>4. CASE k # n
    <3>1. mem'[registry[k].obj].fptr = mem[registry[k].obj].fptr
      BY <2>4, <1>5, <1>10, <1>11
    <3>2. k <= n <=> k <= done
      BY <2>4, <1>4, <1>5 DEF n
    <3> QED BY <2>1, <2>2, <3>1, <3>2
  <2> QED BY <2>3, <2>4
<1>13. Faithful'
  BY <1>1, <1>3, <1>12 DEF Faithful
<1> QED BY <1>1, <1>3, <1>13 DEF RInv, Anchored, Up, Exact

(* The static object of the file is where it always is.                    *)
LEMMA RResumes == IInv /\ RInv /\ ReanimateReturn => RInv'
<1> SUFFICES ASSUME IInv, RInv, ReanimateReturn PROVE RInv'
  OBVIOUS
<1>1. /\ pc \in {"restored", "reanimating"} /\ pc' = "app" /\ UNCHANGED <<registry, file, disk>>
      /\ disk[file].complete /\ Echoes(registry, Written) /\ Len(registry) = Len(Written)
      /\ registry \in Seq(Node) /\ file \in Names /\ disk[file] \in File
  BY DEF ReanimateReturn, IInv, Types, Restoring
<1>2. Written \in Seq(Saved)
  BY <1>1 DEF File, Written
<1>3. DOMAIN registry = DOMAIN Written
  BY <1>1, <1>2
<1>4. PICK k \in DOMAIN registry : Written[k].obj = Statics[1]
  BY <1>1, <1>3 DEF RInv, Anchored, Holds, Written
<1>5. registry[k].obj = Statics[1]
  <2>1. Statics[1] \in StaticSet
    BY CheckptAssumption DEF StaticSet
  <2> QED BY <2>1, <1>1, <1>4 DEF Echoes
<1>6. Anchored'
  BY <1>1, <1>5 DEF RInv, Anchored, Holds
<1> QED BY <1>1, <1>6 DEF RInv, Exact, Faithful

(* All of it is kept by every step.                                        *)
LEMMA RKept == ~Forward /\ IInv /\ IInv' /\ RInv /\ [Next]_vars => RInv'
<1> SUFFICES ASSUME ~Forward, IInv, IInv', RInv, [Next]_vars PROVE RInv'
  OBVIOUS
<1>1. ASSUME NEW a \in Heap \ Objs, NEW p \in Targets \cup {NULL},
             NEW f \in Targets \cup {NULL, a}, RegisterObject(a, p, f)
      PROVE  RInv'
  BY <1>1, RRegisters
<1>2. ASSUME NEW a \in Objs \cap Heap, UnregisterObject(a)
      PROVE  RInv'
  BY <1>2, RUnregisters
<1>3. ASSUME NEW a \in Objs \cap Heap, NEW f \in Targets \cup {NULL}, SetFptr(a, f)
      PROVE  RInv'
  BY <1>3 DEF SetFptr, RInv, Anchored, Up, Exact, Faithful
<1>4. ASSUME NEW n \in Names, CheckptOpen(n)
      PROVE  RInv'
  BY <1>4, ROpens
<1>5. ASSUME NEW n \in Names, RestoreOpen(n)
      PROVE  RInv'
  BY <1>5 DEF RestoreOpen, RInv, Anchored, Up, Exact, Faithful
<1>6. ASSUME NEW a \in Addr, RestoreNode(a)
      PROVE  RInv'
  BY <1>6, RRestores
<1>7. CASE Initialize
  BY <1>7 DEF Initialize, RInv, Anchored, Up, Exact, Faithful
<1>8. CASE Die
  BY <1>8 DEF Die, RInv, Anchored, Up, Exact, Faithful
<1>9. CASE UNCHANGED vars
  BY <1>9 DEF vars, RInv, Anchored, Up, Exact, Faithful, Written
<1> QED BY <1>1, <1>2, <1>3, <1>4, <1>5, <1>6, <1>7, <1>8, <1>9, RBoots, RWrites, RCloses,
           RReturns, RReanimates, RResumes DEF Next
-----------------------------------------------------------------------------
(* What a registry maps to: a function of identifiers.                     *)
Ids(o, reg) == [ptr |-> object_id(reg, o.ptr), fptr |-> object_id(reg, o.fptr)]

(* Where objects occur once, each has its place in the graph of the        *)
(* registry ...                                                            *)
LEMMA GraphIs ==
  ASSUME NEW reg \in Seq(Node), Distinct(reg), NEW m
  PROVE  /\ Graph(reg, m) = [i \in {reg[k].id : k \in DOMAIN reg} |-> Graph(reg, m)[i]]
         /\ DOMAIN Graph(reg, m) = {reg[k].id : k \in DOMAIN reg}
         /\ \A k \in DOMAIN reg : Graph(reg, m)[reg[k].id] = Ids(m[reg[k].obj], reg)
<1>1. \A k \in DOMAIN reg : object_ptr(reg, reg[k].id) = reg[k].obj
  BY ObjectPtr DEF Distinct
<1> QED BY <1>1 DEF Graph, Ids

(* ... and in the graph of a file.                                         *)
LEMMA GraphOfIs ==
  ASSUME NEW nodes, Distinct(nodes)
  PROVE  /\ GraphOf(nodes) = [i \in {nodes[k].id : k \in DOMAIN nodes} |-> GraphOf(nodes)[i]]
         /\ DOMAIN GraphOf(nodes) = {nodes[k].id : k \in DOMAIN nodes}
         /\ \A k \in DOMAIN nodes :
              GraphOf(nodes)[nodes[k].id] = [ptr |-> nodes[k].ptr, fptr |-> nodes[k].fptr]
<1>1. ASSUME NEW k \in DOMAIN nodes
      PROVE  (CHOOSE j \in DOMAIN nodes : nodes[j].id = nodes[k].id) = k
  BY DEF Distinct
<1> QED BY <1>1 DEF GraphOf

(* Two graphs are the same when they have the same objects and pointers.   *)
LEMMA Extensional ==
  ASSUME NEW S, NEW f, NEW g, f = [x \in S |-> f[x]], g = [x \in S |-> g[x]],
         \A x \in S : f[x] = g[x]
  PROVE  f = g
OBVIOUS

(* What a program that runs maps to: its pointers are to objects that have *)
(* identifiers, distinct and below next_id.                                *)
Mapped ==
  /\ registry \in Seq(Node) /\ Distinct(registry) /\ next_id \in Nat \ {0}
  /\ Used = 1 .. next_id - 1
  /\ DOMAIN Live = {registry[k].id : k \in DOMAIN registry} /\ DOMAIN Live \subseteq Used
  /\ Live # Nothing /\ Live = [i \in DOMAIN Live |-> Live[i]]
  /\ \A k \in DOMAIN registry :
       /\ Live[registry[k].id] = Ids(mem[registry[k].obj], registry)
       /\ object_id(registry, registry[k].obj) = registry[k].id
       /\ \A p \in {mem[registry[k].obj].ptr, mem[registry[k].obj].fptr} :
            p = NULL \/ \E j \in DOMAIN registry : p = registry[j].obj
  /\ object_id(registry, NULL) = 0

(* A program that runs has a graph, which is not empty.                    *)
LEMMA RunningMaps == IInv /\ RInv /\ Up => Mapped
<1> SUFFICES ASSUME IInv, RInv, Up PROVE Mapped
  OBVIOUS
<1>1. /\ registry \in Seq(Node) /\ next_id \in Nat
      /\ Distinct(registry) /\ Below(registry, next_id) /\ Built(registry, mem)
      /\ \A k \in DOMAIN registry : Points(mem[registry[k].obj].fptr, registry)
  BY DEF IInv, Types, Running, Up
<1>2. DOMAIN registry = 1 .. Len(registry) /\ Len(registry) \in Nat
      /\ \A k \in DOMAIN registry : registry[k].id \in Nat \ {0}
  BY <1>1, Nodes
<1>3. Live = Graph(registry, mem) /\ Used = 1 .. next_id - 1
  BY DEF Live, Used
<1>4. /\ Live = [i \in {registry[k].id : k \in DOMAIN registry} |-> Live[i]]
      /\ DOMAIN Live = {registry[k].id : k \in DOMAIN registry}
      /\ \A k \in DOMAIN registry : Live[registry[k].id] = Ids(mem[registry[k].obj], registry)
  BY <1>1, <1>3, GraphIs
<1>5. next_id > 0 /\ \A k \in DOMAIN registry : registry[k].id < next_id
  BY <1>1 DEF Below
<1>6. DOMAIN Live \subseteq Used
  BY <1>1, <1>2, <1>3, <1>4, <1>5
<1>7. Live # Nothing
  <2>1. DOMAIN Live # {}
    BY <1>4 DEF RInv, Anchored, Holds
  <2> QED BY <2>1 DEF Nothing
<1>8. \A k \in DOMAIN registry : object_id(registry, registry[k].obj) = registry[k].id
  BY <1>1, ObjectId
<1>9. ASSUME NEW k \in DOMAIN registry
      PROVE  \A p \in {mem[registry[k].obj].ptr, mem[registry[k].obj].fptr} :
               p = NULL \/ \E j \in DOMAIN registry : p = registry[j].obj
  <2>1. \A j \in 1 .. k - 1 : j \in DOMAIN registry
    BY <1>2
  <2> QED BY <2>1, <1>1 DEF Built, Points
<1>10. Live = [i \in DOMAIN Live |-> Live[i]]
  BY <1>4
<1>11. object_id(registry, NULL) = 0
  BY <1>1, NullId
<1>12. next_id \in Nat \ {0}
  BY <1>1, <1>5
<1>13. DOMAIN Live = {registry[k].id : k \in DOMAIN registry}
  BY <1>4
<1>14. \A k \in DOMAIN registry : Live[registry[k].id] = Ids(mem[registry[k].obj], registry)
  BY <1>4
<1> QED BY <1>1, <1>3, <1>6, <1>7, <1>8, <1>9, <1>10, <1>11, <1>12, <1>13, <1>14 DEF Mapped

(* So it has after a step.                                                 *)
LEMMA RunningMapsNext == IInv' /\ RInv' /\ Up' => Mapped'
BY RunningMaps, PTL

-----------------------------------------------------------------------------
(* Every call is the operation of the store it stands for: registering an  *)
(* object,                                                                 *)
LEMMA RegisterRefines ==
  ASSUME IInv, IInv', RInv, RInv', NEW a \in Heap \ Objs, NEW p \in Targets \cup {NULL},
         NEW f \in Targets \cup {NULL, a}, RegisterObject(a, p, f)
  PROVE  Store!Register
<1> DEFINE n == Len(registry)
           node == [id |-> next_id, obj |-> a]
           P == object_id(registry, p)
           F == IF f = a THEN next_id ELSE object_id(registry, f)
           New == [j \in DOMAIN Live \cup {next_id} |->
                     IF j = next_id THEN [ptr |-> P, fptr |-> F] ELSE Live[j]]
<1>1. /\ pc = "app" /\ registry' = Append(registry, node) /\ next_id' = next_id + 1
      /\ mem' = [mem EXCEPT ![a] = [ptr |-> p, fptr |-> f]] /\ UNCHANGED <<pc, disk>>
      /\ next_id <= MaxId
  BY DEF RegisterObject, Registered
<1>2. Mapped /\ Mapped'
  <2>1. Up /\ Up'
    BY <1>1 DEF Up
  <2> QED BY <2>1, RunningMaps, RunningMapsNext
<1>3. /\ registry \in Seq(Node) /\ mem \in [Addr -> Object] /\ next_id \in Nat \ {0}
      /\ Used = 1 .. next_id - 1 /\ Used' = 1 .. next_id' - 1
      /\ DOMAIN Live \subseteq Used /\ Live # Nothing
      /\ DOMAIN Live = {registry[k].id : k \in DOMAIN registry}
  BY <1>2 DEF Mapped, IInv, Types
<1>4. next_id \in (1 .. MaxId) \ Used /\ Used' = Used \cup {next_id} /\ next_id \notin DOMAIN Live
  <2>1. next_id \in 1 .. MaxId /\ next_id \notin Used
    BY <1>1, <1>3, CheckptAssumption
  <2>2. Used' = 1 .. next_id
    BY <1>1, <1>3
  <2>3. 1 .. next_id = (1 .. next_id - 1) \cup {next_id}
    BY <1>3
  <2> QED BY <2>1, <2>2, <2>3, <1>3
<1>5. node \in Node /\ node.id = next_id /\ node.obj = a /\ a \in Addr
  BY <1>3 DEF Node, Addr
<1> HIDE DEF node
<1>6. /\ n \in Nat /\ DOMAIN registry = 1 .. n /\ DOMAIN registry' = 1 .. n + 1
      /\ registry'[n + 1] = node /\ \A k \in 1 .. n : registry'[k] = registry[k]
  BY <1>1, <1>3, <1>5, Appended
<1> HIDE DEF n
<1>7. \A t : t = NULL \/ (\E j \in 1 .. n : t = registry[j].obj)
        => /\ object_id(registry', t) = object_id(registry, t)
           /\ object_id(registry, t) \in DOMAIN Live \cup {0}
  <2>1. object_id(registry', NULL) = 0 /\ object_id(registry, NULL) = 0
    BY <1>2 DEF Mapped
  <2>2. ASSUME NEW j \in 1 .. n
        PROVE  /\ object_id(registry', registry[j].obj) = registry[j].id
               /\ object_id(registry, registry[j].obj) = registry[j].id
    <3>1. j \in DOMAIN registry /\ j \in DOMAIN registry' /\ registry'[j] = registry[j]
      BY <1>6
    <3> QED BY <3>1, <1>2 DEF Mapped
  <2> QED BY <2>1, <2>2, <1>3, <1>6
<1>8. (p = NULL \/ \E j \in 1 .. n : p = registry[j].obj)
      /\ (f = NULL \/ f = a \/ \E j \in 1 .. n : f = registry[j].obj)
  BY <1>6 DEF Targets, Objs
<1>9. P \in DOMAIN Live \cup {0} /\ F \in DOMAIN Live \cup {0, next_id}
  BY <1>7, <1>8
<1>10. Live'[next_id] = [ptr |-> P, fptr |-> F]
  <2>1. mem'[a] = [ptr |-> p, fptr |-> f]
    BY <1>1, <1>3, <1>5
  <2>2. n + 1 \in DOMAIN registry' /\ registry'[n + 1].id = next_id /\ registry'[n + 1].obj = a
    BY <1>5, <1>6
  <2>3. Live'[next_id] = Ids(mem'[a], registry') /\ object_id(registry', a) = next_id
    BY <2>2, <1>2 DEF Mapped
  <2>4. object_id(registry', p) = P
    BY <1>7, <1>8
  <2>5. object_id(registry', f) = F
    BY <2>3, <1>7, <1>8
  <2> QED BY <2>1, <2>3, <2>4, <2>5 DEF Ids
<1> HIDE DEF P, F
<1>11. ASSUME NEW k \in 1 .. n
       PROVE  Live'[registry[k].id] = Live[registry[k].id]
  <2>1. k \in DOMAIN registry /\ k \in DOMAIN registry' /\ registry'[k] = registry[k]
    BY <1>6
  <2>2. mem'[registry[k].obj] = mem[registry[k].obj]
    BY <2>1, <1>1, <1>3, Nodes DEF Objs
  <2>3. /\ Live'[registry[k].id] = Ids(mem[registry[k].obj], registry')
        /\ Live[registry[k].id] = Ids(mem[registry[k].obj], registry)
    <3>1. Live'[registry'[k].id] = Ids(mem'[registry'[k].obj], registry')
      BY <2>1, <1>2 DEF Mapped
    <3>2. Live[registry[k].id] = Ids(mem[registry[k].obj], registry)
      BY <2>1, <1>2 DEF Mapped
    <3> QED BY <2>1, <2>2, <3>1, <3>2
  <2>4. \A t \in {mem[registry[k].obj].ptr, mem[registry[k].obj].fptr} :
          object_id(registry', t) = object_id(registry, t)
    <3>1. \A t \in {mem[registry[k].obj].ptr, mem[registry[k].obj].fptr} :
            t = NULL \/ \E j \in DOMAIN registry : t = registry[j].obj
      BY <2>1, <1>2, Zenon DEF Mapped
    <3>2. DOMAIN registry = 1 .. n
      BY <1>6, Zenon
    <3> QED BY <1>7, <3>1, <3>2, Zenon
  <2> QED BY <2>3, <2>4 DEF Ids
<1>12. DOMAIN Live' = DOMAIN Live \cup {next_id}
  <2>1. DOMAIN Live' = {registry'[k].id : k \in 1 .. n + 1}
    BY <1>2, <1>6 DEF Mapped
  <2>2. \A k \in 1 .. n : k \in 1 .. n + 1 /\ registry'[k].id = registry[k].id
    BY <1>6
  <2>3. n + 1 \in 1 .. n + 1 /\ registry'[n + 1].id = next_id
    BY <1>5, <1>6
  <2>4. \A k \in 1 .. n + 1 : k \in 1 .. n \/ k = n + 1
    BY <1>6
  <2>5. DOMAIN Live = {registry[k].id : k \in 1 .. n}
    BY <1>3, <1>6
  <2> HIDE DEF Live, n
  <2> QED BY <2>1, <2>2, <2>3, <2>4, <2>5
<1>13. Live' = New
  <2>1. Live' = [j \in DOMAIN Live \cup {next_id} |-> Live'[j]]
    BY <1>2, <1>12 DEF Mapped
  <2>2. Live'[next_id] = New[next_id]
    BY <1>10
  <2>3. ASSUME NEW j \in DOMAIN Live PROVE Live'[j] = New[j]
    <3>1. New[j] = Live[j]
      BY <1>4, <2>3
    <3>2. PICK k \in 1 .. n : j = registry[k].id
      BY <1>3, <1>6, <2>3, Zenon
    <3> QED BY <1>11, <3>1, <3>2, Zenon
  <2>4. New = [j \in DOMAIN Live \cup {next_id} |-> New[j]]
    OBVIOUS
  <2>5. \A j \in DOMAIN Live \cup {next_id} : Live'[j] = New[j]
    BY <2>2, <2>3
  <2> HIDE DEF Live, New
  <2> QED BY <2>1, <2>4, <2>5, Zenon
<1>14. Kept' = Kept
  BY <1>1 DEF Kept
<1> QED BY <1>3, <1>4, <1>9, <1>13, <1>14 DEF Store!Register, Store!NoObjects, Nothing

(* setting a pointer of one,                                               *)
LEMMA LinkRefines ==
  ASSUME IInv, IInv', RInv, RInv', NEW a \in Objs \cap Heap, NEW f \in Targets \cup {NULL},
         SetFptr(a, f)
  PROVE  Store!Link
<1>1. /\ pc = "app" /\ mem' = [mem EXCEPT ![a].fptr = f]
      /\ UNCHANGED <<pc, registry, next_id, disk>>
  BY DEF SetFptr
<1>2. Mapped /\ Mapped'
  <2>1. Up /\ Up'
    BY <1>1 DEF Up
  <2> QED BY <2>1, RunningMaps, RunningMapsNext
<1>3. registry \in Seq(Node) /\ mem \in [Addr -> Object]
  BY <1>2 DEF Mapped, IInv, Types
<1>4. PICK r \in DOMAIN registry : a = registry[r].obj
  BY DEF Objs
<1> DEFINE i == registry[r].id
           F == object_id(registry, f)
           New == [Live EXCEPT ![i].fptr = F]
<1>5. i \in DOMAIN Live
  BY <1>2 DEF Mapped
<1>6. F \in DOMAIN Live \cup {0}
  <2>1. CASE f = NULL
    BY <2>1, <1>2 DEF Mapped
  <2>2. CASE f # NULL
    <3>1. PICK j \in DOMAIN registry : f = registry[j].obj
      BY <2>2 DEF Targets, Objs
    <3> QED BY <3>1, <1>2 DEF Mapped
  <2> QED BY <2>1, <2>2
<1>7. a \in Addr /\ mem[a] \in Object /\ mem'[a] = [mem[a] EXCEPT !.fptr = f]
      /\ \A b \in Addr : b # a => mem'[b] = mem[b]
  BY <1>1, <1>3 DEF Addr
<1>8. Live'[i] = [ptr |-> object_id(registry, mem[a].ptr), fptr |-> F]
  <2>1. Live'[i] = Ids(mem'[a], registry)
    <3>1. r \in DOMAIN registry' /\ registry' = registry
      BY <1>1
    <3> QED BY <3>1, <1>2, <1>4 DEF Mapped
  <2>2. mem'[a].ptr = mem[a].ptr /\ mem'[a].fptr = f
    BY <1>7 DEF Object
  <2> QED BY <2>1, <2>2 DEF Ids
<1>9. Live[i] = [ptr |-> object_id(registry, mem[a].ptr), fptr |-> object_id(registry, mem[a].fptr)]
  BY <1>2, <1>4 DEF Mapped, Ids
<1>10. ASSUME NEW k \in DOMAIN registry, registry[k].id # i
       PROVE  Live'[registry[k].id] = Live[registry[k].id]
  <2>1. registry[k].obj # a /\ registry[k].obj \in Addr
    BY <1>2, <1>3, <1>4, <1>10, Nodes DEF Mapped, Distinct
  <2>2. Live'[registry[k].id] = Ids(mem'[registry[k].obj], registry)
    <3>1. k \in DOMAIN registry' /\ registry' = registry
      BY <1>1
    <3> QED BY <3>1, <1>2 DEF Mapped
  <2>3. Live[registry[k].id] = Ids(mem[registry[k].obj], registry)
    BY <1>2 DEF Mapped
  <2> QED BY <2>1, <2>2, <2>3, <1>7
<1>11. DOMAIN Live' = DOMAIN Live /\ DOMAIN Live = {registry[k].id : k \in DOMAIN registry}
  BY <1>1, <1>2 DEF Mapped
<1> HIDE DEF i, F
<1>12. Live' = New
  <2>1. Live' = [j \in DOMAIN Live |-> Live'[j]] /\ Live = [j \in DOMAIN Live |-> Live[j]]
    BY <1>2, <1>11 DEF Mapped
  <2>2. New = [j \in DOMAIN Live |-> New[j]]
    BY <2>1
  <2>3. New[i] = [ptr |-> object_id(registry, mem[a].ptr), fptr |-> F]
    BY <2>1, <1>5, <1>9
  <2>4. \A j \in DOMAIN Live : j # i => New[j] = Live[j]
    BY <2>1
  <2>5. \A j \in DOMAIN Live : Live'[j] = New[j]
    BY <2>3, <2>4, <1>8, <1>10, <1>11
  <2> HIDE DEF Live, New
  <2> QED BY <2>1, <2>2, <2>5, Extensional
<1>13. Kept' = Kept /\ Used' = Used
  BY <1>1 DEF Kept, Used, Up
<1> QED BY <1>5, <1>6, <1>12, <1>13 DEF Store!Link

(* unregistering one that none points to,                                  *)
LEMMA UnregisterRefines ==
  ASSUME IInv, IInv', RInv, RInv', NEW a \in Objs \cap Heap, UnregisterObject(a)
  PROVE  Store!Unregister
<1>1. PICK r \in DOMAIN registry : registry[r].obj = a /\ registry' = Without(registry, r)
  BY DEF UnregisterObject
<1>2. /\ pc = "app" /\ UNCHANGED <<pc, next_id, disk>> /\ mem' = [mem EXCEPT ![a] = Blank]
      /\ \A b \in Objs \ {a} : mem[b].ptr # a /\ mem[b].fptr # a
  BY DEF UnregisterObject
<1>3. Mapped /\ Mapped'
  <2>1. Up /\ Up'
    BY <1>2 DEF Up
  <2> QED BY <2>1, RunningMaps, RunningMapsNext
<1>4. registry \in Seq(Node) /\ mem \in [Addr -> Object] /\ Distinct(registry)
      /\ DOMAIN Live = {registry[k].id : k \in DOMAIN registry}
  BY <1>3 DEF Mapped, IInv, Types
<1> DEFINE n == Len(registry) - 1
           i == registry[r].id
           New == [j \in DOMAIN Live \ {i} |-> Live[j]]
<1>5. /\ DOMAIN registry' = 1 .. n
      /\ \A k \in 1 .. n : registry'[k] = IF k < r THEN registry[k] ELSE registry[k + 1]
  BY <1>1, <1>4, Taken
<1>6. DOMAIN registry = 1 .. n + 1 /\ n \in Nat /\ r \in 1 .. n + 1
      /\ \A k \in DOMAIN registry : registry[k].obj \in Addr
  BY <1>4, Nodes
<1> HIDE DEF n
<1>7. \A k \in 1 .. n : \E j \in DOMAIN registry : j # r /\ registry'[k] = registry[j]
  BY <1>5, <1>6
<1>8. ASSUME NEW j \in DOMAIN registry, j # r
      PROVE  \E k \in 1 .. n : registry'[k] = registry[j]
  <2>1. CASE j < r
    <3>1. j \in 1 .. n
      BY <2>1, <1>6
    <3> QED BY <3>1, <2>1, <1>5
  <2>2. CASE j > r
    <3>1. j - 1 \in 1 .. n /\ ~(j - 1 < r) /\ (j - 1) + 1 = j
      BY <2>2, <1>6
    <3> QED BY <3>1, <1>5
  <2> QED BY <1>6, <1>8, <2>1, <2>2
<1>9. DOMAIN Live' = DOMAIN Live \ {i}
  <2>1. DOMAIN Live' = {registry'[k].id : k \in 1 .. n}
    BY <1>3, <1>5 DEF Mapped
  <2>2. \A j \in DOMAIN registry : j # r => registry[j].id # i
    BY <1>4 DEF Distinct
  <2> HIDE DEF i
  <2>3. \A x : x \in DOMAIN Live' <=> x \in DOMAIN Live \ {i}
    <3>1. ASSUME NEW x \in DOMAIN Live' PROVE x \in DOMAIN Live \ {i}
      BY <2>1, <2>2, <1>4, <1>7
    <3>2. ASSUME NEW x \in DOMAIN Live \ {i} PROVE x \in DOMAIN Live'
      <4>1. PICK j \in DOMAIN registry : x = registry[j].id /\ j # r
        BY <1>4 DEF i
      <4> QED BY <4>1, <2>1, <1>8
    <3> QED BY <3>1, <3>2
  <2> QED BY <2>3
<1>10. ASSUME NEW j \in DOMAIN registry, j # r
       PROVE  /\ registry[j].obj # a
              /\ mem[registry[j].obj].ptr # a /\ mem[registry[j].obj].fptr # a
              /\ mem'[registry[j].obj] = mem[registry[j].obj]
  <2>1. registry[j].obj # a /\ registry[j].obj \in Objs
    BY <1>1, <1>4, <1>10 DEF Distinct, Objs
  <2> QED BY <2>1, <1>2, <1>4, <1>6
<1>11. \A t : t = NULL \/ (\E j \in DOMAIN registry : j # r /\ t = registry[j].obj)
         => /\ object_id(registry', t) = object_id(registry, t)
            /\ object_id(registry, t) # i
  <2>1. object_id(registry', NULL) = 0 /\ object_id(registry, NULL) = 0 /\ i # 0
    BY <1>3, <1>4, Nodes DEF Mapped
  <2>2. ASSUME NEW j \in DOMAIN registry, j # r
        PROVE  /\ object_id(registry', registry[j].obj) = registry[j].id
               /\ object_id(registry, registry[j].obj) = registry[j].id
               /\ registry[j].id # i
    <3>1. PICK k \in 1 .. n : registry'[k] = registry[j]
      BY <2>2, <1>8
    <3>2. object_id(registry', registry'[k].obj) = registry'[k].id
      BY <1>3, <1>5 DEF Mapped
    <3>3. object_id(registry, registry[j].obj) = registry[j].id
      BY <1>3 DEF Mapped
    <3>4. registry[j].id # i
      BY <2>2, <1>4 DEF Distinct
    <3> QED BY <3>1, <3>2, <3>3, <3>4
  <2> QED BY <2>1, <2>2
<1>12. ASSUME NEW j \in DOMAIN registry, j # r
       PROVE  /\ Live'[registry[j].id] = Live[registry[j].id]
              /\ Live[registry[j].id].ptr # i /\ Live[registry[j].id].fptr # i
  <2>1. PICK k \in 1 .. n : registry'[k] = registry[j]
    BY <1>8, <1>12
  <2>2. Live'[registry'[k].id] = Ids(mem'[registry'[k].obj], registry')
    BY <1>3, <1>5 DEF Mapped
  <2>3. Live[registry[j].id] = Ids(mem[registry[j].obj], registry)
    BY <1>3 DEF Mapped
  <2>4. ASSUME NEW t \in {mem[registry[j].obj].ptr, mem[registry[j].obj].fptr}
        PROVE  t = NULL \/ \E l \in DOMAIN registry : l # r /\ t = registry[l].obj
    <3>1. t = NULL \/ \E l \in DOMAIN registry : t = registry[l].obj
      BY <1>3 DEF Mapped
    <3>2. t # a
      BY <1>10, <1>12
    <3> QED BY <3>1, <3>2, <1>1
  <2>5. \A t \in {mem[registry[j].obj].ptr, mem[registry[j].obj].fptr} :
          object_id(registry', t) = object_id(registry, t) /\ object_id(registry, t) # i
    BY <2>4, <1>11
  <2>6. mem'[registry[j].obj] = mem[registry[j].obj]
    BY <1>10, <1>12
  <2> HIDE DEF i
  <2> QED BY <2>1, <2>2, <2>3, <2>5, <2>6 DEF Ids
<1>13. i \in DOMAIN Live
  BY <1>4
<1> HIDE DEF i
<1>14. \A j \in DOMAIN Live \ {i} : Live'[j] = Live[j] /\ Live[j].ptr # i /\ Live[j].fptr # i
  <2> SUFFICES ASSUME NEW k \in DOMAIN registry, registry[k].id # i
               PROVE  /\ Live'[registry[k].id] = Live[registry[k].id]
                      /\ Live[registry[k].id].ptr # i /\ Live[registry[k].id].fptr # i
    BY <1>4
  <2> QED BY <1>12 DEF i
<1>15. Live' = New
  <2>1. Live' = [j \in DOMAIN Live \ {i} |-> Live'[j]]
    BY <1>3, <1>9 DEF Mapped
  <2> HIDE DEF Live
  <2> QED BY <2>1, <1>14
<1>16. Kept' = Kept /\ Used' = Used
  BY <1>2 DEF Kept, Used, Up
<1> QED BY <1>13, <1>14, <1>15, <1>16 DEF Store!Unregister

(* booting,                                                                *)
LEMMA BootRefines ==
  ASSUME IInv, IInv', RInv, RInv', Boot
  PROVE  Store!Boot
<1> DEFINE New == [i \in 1 .. Len(Statics) |-> [ptr |-> 0, fptr |-> 0]]
<1>1. /\ pc = "down" /\ pc' = "booted" /\ next_id' = 1 + Len(Statics) /\ UNCHANGED <<mem, disk>>
      /\ registry' = [k \in DOMAIN Statics |-> [id |-> FirstId + k - 1, obj |-> Statics[k]]]
  BY DEF Boot, FirstId
<1>2. Live = Nothing
  BY <1>1 DEF Live, Up
<1>3. Mapped'
  <2>1. Up'
    BY <1>1 DEF Up
  <2> QED BY <2>1, RunningMapsNext
<1>4. Len(Statics) \in Nat /\ DOMAIN Statics = 1 .. Len(Statics)
      /\ \A k \in DOMAIN Statics : Statics[k] \in Addr
  BY CheckptAssumption DEF Addr
<1>5. Used' = 1 .. Len(Statics)
  <2>1. (1 + Len(Statics)) - 1 = Len(Statics)
    BY <1>4
  <2> QED BY <2>1, <1>1, <1>3 DEF Mapped
<1>6. DOMAIN registry' = 1 .. Len(Statics)
      /\ \A k \in 1 .. Len(Statics) : registry'[k].id = k /\ registry'[k].obj \in Addr
  BY <1>1, <1>4 DEF FirstId
<1>7. DOMAIN Live' = 1 .. Len(Statics)
  BY <1>3, <1>6 DEF Mapped
<1>8. ASSUME NEW k \in 1 .. Len(Statics)
      PROVE  Live'[k] = [ptr |-> 0, fptr |-> 0]
  <2>1. k \in DOMAIN registry' /\ registry'[k].id = k /\ mem'[registry'[k].obj] = Blank
    BY <1>1, <1>6 DEF IInv, Fresh
  <2>2. Live'[k] = Ids(Blank, registry')
    BY <2>1, <1>3 DEF Mapped
  <2>3. object_id(registry', NULL) = 0
    BY <1>3 DEF Mapped
  <2> QED BY <2>2, <2>3 DEF Ids, Blank
<1>9. Live' = New
  <2>1. Live' = [i \in 1 .. Len(Statics) |-> Live'[i]]
    BY <1>3, <1>7 DEF Mapped
  <2> HIDE DEF Live
  <2> QED BY <2>1, <1>8
<1>10. Kept' = Kept
  BY <1>1 DEF Kept
<1> QED BY <1>2, <1>5, <1>9, <1>10 DEF Store!Boot, Store!NoObjects, Nothing

(* losing the checkpoint of that name when a file is opened,               *)
LEMMA OpenRefines ==
  ASSUME IInv, NEW n \in Names, CheckptOpen(n)
  PROVE  Store!Discard
<1> DEFINE f == [next_id |-> next_id, nodes |-> <<>>, complete |-> FALSE]
<1>1. /\ pc = "app" /\ pc' = "writing" /\ disk' = [disk EXCEPT ![n] = f]
      /\ UNCHANGED <<registry, next_id, mem>> /\ disk \in [Names -> File]
  BY DEF CheckptOpen, IInv, Types
<1>2. ~disk'[n].complete /\ \A m \in Names : m # n => disk'[m] = disk[m]
  BY <1>1
<1>3. Kept' = [Kept EXCEPT ![n] = [live |-> Nothing, used |-> {}]]
  BY <1>2 DEF Kept
<1>4. UNCHANGED <<Live, Used>>
  BY <1>1 DEF Live, Used, Up
<1> QED BY <1>3, <1>4 DEF Store!Discard, Store!Partial, Store!NoObjects, Nothing

(* saving when it is closed,                                               *)
LEMMA CloseRefines ==
  ASSUME IInv, RInv, CheckptClose
  PROVE  Store!Save
<1>1. /\ pc = "writing" /\ pc' = "app" /\ DOMAIN Written = DOMAIN registry
      /\ UNCHANGED <<registry, next_id, mem>> /\ file \in Names
      /\ ~disk[file].complete /\ disk'[file].complete
      /\ disk'[file].nodes = Written /\ disk'[file].next_id = next_id
      /\ \A m \in Names : m # file => disk'[m] = disk[m]
  BY CloseEffect
<1>2. Mapped
  <2>1. Up
    BY <1>1 DEF Up
  <2> QED BY <2>1, RunningMaps
<1>3. /\ \A k \in DOMAIN registry :
           /\ Written[k].id = registry[k].id /\ Written[k].obj = registry[k].obj
           /\ Written[k].ptr = object_id(registry, mem[registry[k].obj].ptr)
           /\ Written[k].fptr = object_id(registry, mem[registry[k].obj].fptr)
      /\ Distinct(registry)
  BY <1>1, <1>2 DEF Mapped, IInv, Writing, Same, RInv, Exact
<1>4. Distinct(Written)
  BY <1>1, <1>3 DEF Distinct
<1>5. GraphOf(Written) = Live
  <2>1. {Written[k].id : k \in DOMAIN Written} = DOMAIN Live
    BY <1>1, <1>2, <1>3 DEF Mapped
  <2>2. GraphOf(Written) = [i \in DOMAIN Live |-> GraphOf(Written)[i]]
    BY <1>4, <2>1, GraphOfIs
  <2>3. ASSUME NEW k \in DOMAIN registry
        PROVE  GraphOf(Written)[registry[k].id] = Live[registry[k].id]
    <3>1. GraphOf(Written)[Written[k].id] = [ptr |-> Written[k].ptr, fptr |-> Written[k].fptr]
      <4>1. k \in DOMAIN Written
        BY <1>1
      <4> QED BY <4>1, <1>4, GraphOfIs
    <3>2. Live[registry[k].id] = Ids(mem[registry[k].obj], registry)
      BY <1>2 DEF Mapped
    <3> QED BY <3>1, <3>2, <1>3 DEF Ids
  <2>4. \A i \in DOMAIN Live : GraphOf(Written)[i] = Live[i]
    BY <2>3, <1>2 DEF Mapped
  <2>5. Live = [i \in DOMAIN Live |-> Live[i]]
    BY <1>2 DEF Mapped
  <2> QED BY <2>2, <2>4, <2>5, Extensional
<1>6. Kept[file] = [live |-> Nothing, used |-> {}]
  BY <1>1 DEF Kept
<1>7. Kept' = [Kept EXCEPT ![file] = [live |-> Live, used |-> Used]]
  <2>1. Used = 1 .. next_id - 1
    BY <1>2 DEF Mapped
  <2>2. Kept'[file] = [live |-> Live, used |-> Used]
    BY <1>1, <1>5, <2>1 DEF Kept
  <2> HIDE DEF Live, Used
  <2>3. \A m \in Names : m # file => Kept'[m] = Kept[m]
    BY <1>1 DEF Kept
  <2>4. Kept' = [m \in Names |-> Kept'[m]] /\ Kept = [m \in Names |-> Kept[m]]
    BY DEF Kept
  <2> QED BY <2>2, <2>3, <2>4, <1>1
<1>8. UNCHANGED <<Live, Used>>
  BY <1>1 DEF Live, Used, Up
<1> QED BY <1>1, <1>6, <1>7, <1>8 DEF Store!Save, Store!Partial, Store!NoObjects, Nothing

(* and restoring, when the last pointer has been reanimated.               *)
LEMMA ResumeRefines ==
  ASSUME IInv, IInv', RInv, RInv', ReanimateReturn
  PROVE  Store!Restore
<1>1. /\ pc \in {"restored", "reanimating"} /\ pc' = "app" /\ done = Len(registry)
      /\ UNCHANGED <<registry, next_id, mem, file, disk>>
      /\ disk[file].complete /\ Echoes(registry, Written) /\ Len(registry) = Len(Written)
      /\ next_id = disk[file].next_id /\ Written = disk[file].nodes
      /\ registry \in Seq(Node) /\ file \in Names /\ disk[file] \in File
  BY DEF ReanimateReturn, IInv, Types, Restoring, Written
<1>2. Written \in Seq(Saved) /\ Distinct(Written)
  BY <1>1 DEF File, Written, IInv, Files, Restorable
<1>3. DOMAIN registry = DOMAIN Written /\ DOMAIN registry = 1 .. done
  BY <1>1, <1>2, Nodes
<1>4. Live = Nothing /\ Used = {}
  BY <1>1 DEF Live, Used, Up
<1>5. Mapped'
  <2>1. Up'
    BY <1>1 DEF Up
  <2> QED BY <2>1, RunningMapsNext
<1>6. ASSUME NEW k \in DOMAIN registry
      PROVE  /\ Written[k].id = registry[k].id
             /\ Written[k].ptr = object_id(registry, mem[registry[k].obj].ptr)
             /\ Written[k].fptr = object_id(registry, mem[registry[k].obj].fptr)
  <2>1. /\ Means(mem[registry[k].obj].ptr, Written[k].ptr, registry)
        /\ Means(mem[registry[k].obj].fptr, Written[k].fptr, registry)
    BY <1>1, <1>3 DEF RInv, Faithful
  <2>2. object_id(registry, NULL) = 0
        /\ \A j \in DOMAIN registry : object_id(registry, registry[j].obj) = registry[j].id
    BY <1>1, <1>5 DEF Mapped
  <2> QED BY <2>1, <2>2, <1>1 DEF Means, Echoes
<1>7. GraphOf(Written) = Live'
  <2>1. {Written[k].id : k \in DOMAIN Written} = DOMAIN Live'
    <3>1. DOMAIN Live' = {registry'[k].id : k \in DOMAIN registry'}
      BY <1>5, Zenon DEF Mapped
    <3>2. registry' = registry /\ \A k \in DOMAIN registry : Written[k].id = registry[k].id
      BY <1>1, <1>6, Zenon
    <3> HIDE DEF Live, Written
    <3> QED BY <1>3, <3>1, <3>2
  <2>2. GraphOf(Written) = [i \in DOMAIN Live' |-> GraphOf(Written)[i]]
    BY <1>2, <2>1, GraphOfIs
  <2>3. ASSUME NEW k \in DOMAIN registry
        PROVE  GraphOf(Written)[registry[k].id] = Live'[registry[k].id]
    <3>1. GraphOf(Written)[Written[k].id] = [ptr |-> Written[k].ptr, fptr |-> Written[k].fptr]
      BY <1>2, <1>3, GraphOfIs
    <3>2. Live'[registry[k].id] = Ids(mem[registry[k].obj], registry)
      BY <1>1, <1>5 DEF Mapped
    <3> QED BY <3>1, <3>2, <1>6 DEF Ids
  <2>4. \A i \in DOMAIN Live' : GraphOf(Written)[i] = Live'[i]
    BY <2>3, <1>1, <1>5 DEF Mapped
  <2>5. Live' = [i \in DOMAIN Live' |-> Live'[i]]
    BY <1>5 DEF Mapped
  <2> HIDE DEF Live
  <2> QED BY <2>2, <2>4, <2>5, Extensional
<1>8. Used' = 1 .. next_id - 1
  BY <1>1, <1>5 DEF Mapped
<1>9. Kept[file] = [live |-> Live', used |-> Used']
  BY <1>1, <1>7, <1>8 DEF Kept
<1>10. Live' # Nothing
  BY <1>5 DEF Mapped
<1>11. /\ Kept[file] # [live |-> Nothing, used |-> {}]
       /\ Kept[file].live = Live' /\ Kept[file].used = Used'
  <2> HIDE DEF Live, Used
  <2> QED BY <1>9, <1>10
<1>12. Kept' = Kept
  BY <1>1 DEF Kept
<1> QED BY <1>1, <1>4, <1>11, <1>12 DEF Store!Restore, Store!Partial, Store!NoObjects, Nothing

(* A process that dies, or forgets what it booted with to restore, loses   *)
(* its objects and no file.                                                *)
LEMMA DieRefines ==
  ASSUME Die \/ \E n \in Names : RestoreOpen(n)
  PROVE  Store!Die
<1>1. ~Up' /\ UNCHANGED disk
  BY DEF Die, RestoreOpen, Up
<1> QED BY <1>1 DEF Store!Die, Store!NoObjects, Nothing, Live, Used, Kept

(* Every other step is not seen.                                           *)
Quiet == UNCHANGED <<Live, Used, Kept>>

(* Writing a node is not seen: the file is not complete before or after    *)
(* it.                                                                     *)
LEMMA WriteQuiet == IInv /\ IInv' /\ CheckptNode => Quiet
<1> SUFFICES ASSUME IInv, IInv', CheckptNode PROVE Quiet
  OBVIOUS
<1>1. /\ UNCHANGED <<pc, registry, next_id, mem>>
      /\ ~disk[file].complete /\ ~disk'[file].complete
      /\ \A m \in Names : m # file => disk'[m] = disk[m]
  <2>1. pc' \in Place
    BY DEF IInv, Types
  <2> QED BY <2>1, WriteEffect
<1>2. Kept' = Kept
  BY <1>1 DEF Kept
<1> QED BY <1>1, <1>2 DEF Quiet, Live, Used, Up

(* Restoring and reanimating a node is not seen: the program does not run  *)
(* yet.                                                                    *)
LEMMA RestoreQuiet ==
  ASSUME IInv', (\E a \in Addr : RestoreNode(a)) \/ RestoreClose \/ ReanimateNode
  PROVE  Quiet
<1>1. /\ pc \in {"reading", "restored", "reanimating"}
      /\ pc' \in {"reading", "restored", "reanimating"} /\ UNCHANGED disk
  BY DEF RestoreNode, RestoreClose, ReanimateNode, IInv, Types, Place
<1> QED BY <1>1 DEF Quiet, Live, Used, Kept, Up

-----------------------------------------------------------------------------
(* The service implements the store (checkpt.h): identifiers are stable    *)
(* across a checkpoint and a restore and never given twice in one history, *)
(* and a restored checkpoint has the objects and the pointers it was taken *)
(* with, though nothing is where it was.                                   *)
THEOREM Refinement == ASSUME ~Forward PROVE Spec => ImplementsObjectStore
<1>1. Init => Store!Init
  BY DEF Init, Store!Init, Store!Partial, Store!NoObjects, Nothing, Live, Used, Kept, Up
<1>2. IInv /\ IInv' /\ RInv /\ RInv' /\ [Next]_vars => [Store!Next]_(Store!vars)
  <2> SUFFICES ASSUME IInv, IInv', RInv, RInv', [Next]_vars PROVE Store!Next \/ Quiet
    BY DEF Store!vars, Quiet
  <2>1. ASSUME NEW a \in Heap \ Objs, NEW p \in Targets \cup {NULL},
               NEW f \in Targets \cup {NULL, a}, RegisterObject(a, p, f)
        PROVE  Store!Register
    BY <2>1, RegisterRefines
  <2>2. ASSUME NEW a \in Objs \cap Heap, UnregisterObject(a)
        PROVE  Store!Unregister
    BY <2>2, UnregisterRefines
  <2>3. ASSUME NEW a \in Objs \cap Heap, NEW f \in Targets \cup {NULL}, SetFptr(a, f)
        PROVE  Store!Link
    BY <2>3, LinkRefines
  <2>4. ASSUME NEW n \in Names, CheckptOpen(n)
        PROVE  Store!Discard
    BY <2>4, OpenRefines
  <2>5. CASE Initialize
    BY <2>5 DEF Initialize, Quiet, Live, Used, Kept, Up
  <2>6. CASE UNCHANGED vars
    BY <2>6 DEF vars, Quiet, Live, Used, Kept, Up
  <2>7. CASE Boot
    BY <2>7, BootRefines DEF Store!Next
  <2>8. CASE CheckptNode
    BY <2>8, WriteQuiet
  <2>9. CASE CheckptClose
    BY <2>9, CloseRefines DEF Store!Next
  <2>10. CASE (\E a \in Addr : RestoreNode(a)) \/ RestoreClose \/ ReanimateNode
    BY <2>10, RestoreQuiet
  <2>11. CASE ReanimateReturn
    BY <2>11, ResumeRefines DEF Store!Next
  <2>12. CASE Die \/ \E n \in Names : RestoreOpen(n)
    BY <2>12, DieRefines DEF Store!Next
  <2> QED BY <2>1, <2>2, <2>3, <2>4, <2>5, <2>6, <2>7, <2>8, <2>9, <2>10, <2>11, <2>12
          DEF Next, Store!Next
<1> QED BY <1>1, <1>2, RStarts, RKept, RegistryKept, PTL DEF Spec, ImplementsObjectStore, Store!Spec
=============================================================================
