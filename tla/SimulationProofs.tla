-------------------------- MODULE SimulationProofs --------------------------
(***************************************************************************)
(* Ranks that advance are in step, and there is always a checkpoint to     *)
(* restart from, for every number of ranks, of steps and of restarts.      *)
(*                                                                         *)
(* How far a rank is ahead of another shows in what they have sent: a rank *)
(* sends again only when its neighbors have sent as much as it has, so     *)
(* that two ranks are apart by no more than the faces between them.  What  *)
(* is left is that all count from the same step, which a job started from  *)
(* a checkpoint takes from as many files as there are ranks.               *)
(***************************************************************************)
EXTENDS Simulation, TLAPS

Place == {"off", "boot", "restored", "reanimated", "null", "initializing", "initialized",
          "advance", "exchange", "diagnostics", "dumpstart", "checkpt", "finalize", "exited",
          "failed"}
File == [complete : BOOLEAN, main : BOOLEAN, step : Nat, num_step : Nat, rtoggle : Int, life : Nat]

(* What the variables hold, short of the bounds that TypeOK gives them.    *)
Types ==
  /\ policy \in Policies /\ lives \in Nat /\ from \in Name \cup {None}
  /\ mod \in Nat \cup {None}
  /\ pc \in [Rank -> Place]
  /\ entered \in [Rank -> Nat] /\ sent \in [Rank -> Nat]
  /\ sim \in [Rank -> BOOLEAN] /\ registered \in [Rank -> BOOLEAN]
  /\ step \in [Rank -> Nat] /\ num_step \in [Rank -> Nat] /\ rtoggle \in [Rank -> Int]
  /\ disk \in [Name -> [Rank -> File]]

(* No rank that restores is past the barrier behind restore_objects while  *)
(* another has yet to read its file.                                       *)
Barriers ==
  \A r \in Rank :
    /\ pc[r] = "boot" => entered[r] = 1 /\ sent[r] = 0 /\ step[r] = 0
    /\ pc[r] = "restored" => entered[r] >= 2
    /\ pc[r] \notin {"off", "boot", "restored"} /\ from # None => \A q \in Rank : entered[q] >= 2

(* A rank that does not wait for its neighbors has nothing to wait for.    *)
Sends ==
  /\ \A r \in Rank : pc[r] \notin {"off", "exchange"} => Received(r)
  /\ \A r, n \in Rank : sent[r] <= sent[n] + Distance(r, n)

(* A file named after a step holds that step.                              *)
Files ==
  policy = "step" =>
    \A r \in Rank :
      /\ \A n \in Name : disk[n][r].complete => disk[n][r].step = n
      /\ pc[r] = "checkpt" /\ step[r] \in Name => disk[step[r]][r].step = step[r]

(* The step at which a rank started or will have started.                  *)
Base(r) ==
  IF pc[r] = "boot" THEN IF from = None THEN 0 ELSE disk[from][r].step
  ELSE step[r] - sent[r] + (IF pc[r] = "exchange" THEN 1 ELSE 0)
Bases == \A r, n \in Rank : pc[r] # "off" /\ pc[n] # "off" => Base(r) = Base(n)

(* Nothing counts past the last step of the job, by way of a checkpoint or *)
(* of --modify, and a toggle stays one of two; the barriers a rank enters  *)
(* are those around the run and, for a deck that asks for the uptime, one  *)
(* a step.                                                                 *)
Entries(label) ==
  CASE label = "boot"                                       -> 1
    [] label \in {"restored", "initializing", "diagnostics"} -> 2
    [] label \in {"finalize", "exited", "failed"}            -> 4
    [] OTHER                                                -> 3
RankBounds(r) ==
  /\ entered[r] <= LastStep + 4 /\ sent[r] <= LastStep
  /\ step[r] <= LastStep /\ num_step[r] <= LastStep /\ rtoggle[r] \in {0, 1}
  /\ pc[r] \notin {"off", "boot"} => num_step[r] >= 1
  /\ pc[r] = "exchange" => step[r] < num_step[r]
  /\ pc[r] # "off" => /\ sent[r] <= step[r] + (IF pc[r] = "exchange" THEN 1 ELSE 0)
                      /\ entered[r] <= step[r] + Entries(pc[r])
FileBounds(f) ==
  /\ f.step <= LastStep /\ f.num_step <= LastStep /\ f.rtoggle \in {0, 1} /\ f.life <= MaxLives
  /\ f.complete => f.num_step >= 1
Written(r) ==
  /\ pc[r] = "boot" /\ from # None => disk[from][r].num_step >= 1
  /\ pc[r] = "checkpt" => disk[TagOf(step[r], rtoggle[r])][r].num_step >= 1
Bounds ==
  /\ lives <= MaxLives /\ mod \in ModSteps \cup {None}
  /\ \A r \in Rank : RankBounds(r) /\ Written(r) /\ \A n \in Name : FileBounds(disk[n][r])

IInv == Types /\ Barriers /\ Sends /\ Files /\ Bases
-----------------------------------------------------------------------------
(* From any rank one of its neighbors is a face nearer to any other.       *)
LEMMA Nearer ==
  ASSUME NEW r \in Rank, NEW n \in Rank, r # n
  PROVE  \E m \in Neighbor(r) : m \in Rank /\ Distance(r, n) = Distance(m, n) + 1
<1> USE SimulationAssumption DEF Rank, Neighbor, Distance
<1>1. CASE r < n
  <2>1. r + 1 \in Neighbor(r) /\ Distance(r, n) = Distance(r + 1, n) + 1
    BY <1>1
  <2> QED BY <2>1
<1>2. CASE n < r
  <2>1. r - 1 \in Neighbor(r) /\ Distance(r, n) = Distance(r - 1, n) + 1
    BY <1>2
  <2> QED BY <2>1
<1> QED BY <1>1, <1>2

(* A rank is no face away from itself.                                     *)
LEMMA DistanceType ==
  ASSUME NEW r \in Rank, NEW n \in Rank
  PROVE  Distance(r, n) \in Nat /\ Distance(r, r) = 0
BY SimulationAssumption DEF Rank, Distance

-----------------------------------------------------------------------------
(* Every variable has its type to begin with.                              *)
LEMMA TypesInit == Init => Types
<1> SUFFICES ASSUME Init PROVE Types
  OBVIOUS
<1>1. Lost \in File
  BY DEF Lost, File
<1> QED BY <1>1 DEF Init, Types, Place, None

(* What opening a file does to the files.                                  *)
LEMMA OpenEffect ==
  ASSUME Types, NEW r \in Rank, OpenCheckpt(r)
  PROVE  /\ pc[r] \in {"diagnostics", "dumpstart"} /\ pc' = [pc EXCEPT ![r] = "checkpt"]
         /\ UNCHANGED <<job, entered, sent, step>>
         /\ rtoggle' \in [Rank -> Int] /\ disk' \in [Name -> [Rank -> File]]
         /\ policy = "step" =>
              \A k \in Name, q \in Rank :
                IF k = step[r] /\ q = r
                THEN disk'[k][q].step = step[r] /\ ~disk'[k][q].complete
                ELSE disk'[k][q] = disk[k][q]
<1> DEFINE t == IF policy = "toggle" THEN Flipped(rtoggle[r]) ELSE rtoggle[r]
           n == TagOf(step[r], t)
           f == [complete |-> FALSE, main |-> registered[r], step |-> step[r],
                 num_step |-> num_step[r], rtoggle |-> t, life |-> lives]
<1>1. t \in Int
  BY DEF Types, Flipped
<1>2. f \in File /\ f.step = step[r] /\ ~f.complete
  BY <1>1 DEF Types, File
<1>3. rtoggle' = [rtoggle EXCEPT ![r] = t] /\ disk' = [disk EXCEPT ![n][r] = f]
  BY DEF OpenCheckpt
<1>4. policy = "step" => n = step[r]
  BY DEF TagOf
<1> HIDE DEF t, n, f
<1>5. rtoggle' \in [Rank -> Int]
  BY <1>1, <1>3 DEF Types
<1>6. /\ disk' \in [Name -> [Rank -> File]]
      /\ \A k \in Name, q \in Rank : disk'[k][q] = IF k = n /\ q = r THEN f ELSE disk[k][q]
  <2>1. disk \in [Name -> [Rank -> File]]
    BY DEF Types
  <2> QED BY <2>1, <1>2, <1>3
<1>7. /\ pc[r] \in {"diagnostics", "dumpstart"} /\ pc' = [pc EXCEPT ![r] = "checkpt"]
      /\ UNCHANGED <<job, entered, sent, step>>
  BY DEF OpenCheckpt, AtCheckpt, Goto
<1> QED BY <1>2, <1>4, <1>5, <1>6, <1>7

(* What closing it does.                                                   *)
LEMMA CloseEffect ==
  ASSUME Types, NEW r \in Rank, CloseCheckpt(r)
  PROVE  /\ pc[r] = "checkpt" /\ pc' = [pc EXCEPT ![r] = After(r)]
         /\ UNCHANGED <<job, entered, sent, step>>
         /\ rtoggle' \in [Rank -> Int] /\ disk' \in [Name -> [Rank -> File]]
         /\ policy = "step" =>
              \A k \in Name, q \in Rank :
                /\ disk'[k][q].step = disk[k][q].step
                /\ disk'[k][q].complete => disk[k][q].complete \/ (k = step[r] /\ q = r)
<1> DEFINE n == TagOf(step[r], rtoggle[r])
           f == [disk[n][r] EXCEPT !.complete = TRUE]
<1>1. disk' = [disk EXCEPT ![n][r] = f]
  BY DEF CloseCheckpt
<1>2. policy = "step" => n = step[r]
  BY DEF TagOf
<1>3. rtoggle' \in [Rank -> Int]
  BY DEF CloseCheckpt, Flipped, Types
<1>4. /\ pc[r] = "checkpt" /\ pc' = [pc EXCEPT ![r] = After(r)]
      /\ UNCHANGED <<job, entered, sent, step>>
  BY DEF CloseCheckpt, Goto
<1>5. disk \in [Name -> [Rank -> File]]
  BY DEF Types
<1>6. CASE n \in Name
  <2>1. disk[n][r] \in File
    BY <1>5, <1>6
  <2>2. f \in File /\ f.step = disk[n][r].step
    BY <2>1 DEF File
  <2> HIDE DEF n, f
  <2>3. /\ disk' \in [Name -> [Rank -> File]]
        /\ \A k \in Name, q \in Rank : disk'[k][q] = IF k = n /\ q = r THEN f ELSE disk[k][q]
    BY <1>1, <1>5, <2>2
  <2> QED BY <1>2, <1>3, <1>4, <2>2, <2>3
<1>7. CASE n \notin Name
  <2> HIDE DEF n, f
  <2>1. disk' = disk
    BY <1>1, <1>5, <1>7
  <2> QED BY <1>3, <1>4, <1>5, <2>1
<1> QED BY <1>6, <1>7

-----------------------------------------------------------------------------
(* Every step of every rank keeps the types ...                            *)
LEMMA TypesKept == Types /\ [Next]_vars => Types'
<1> SUFFICES ASSUME Types, [Next]_vars PROVE Types'
  OBVIOUS
<1> USE SimulationAssumption DEF Types, job, state
<1>1. CASE Start
  <2>1. PICK n \in Name \cup {None}, m \in ModSteps \cup {None} : Launch(n, m)
    BY <1>1 DEF Start
  <2> QED BY <2>1 DEF Launch, Place
<1>2. CASE Crash
  BY <1>2 DEF Crash, Place
<1>3. ASSUME NEW r \in Rank, Main(r) PROVE Types'
  <2>1. CASE Restore(r)
    <3>1. disk[from][r] \in File
      BY <2>1 DEF Restore
    <3> QED BY <2>1, <3>1 DEF Restore, Enter, Goto, Place, File
  <2>2. CASE Reanimate(r)
    BY <2>2 DEF Reanimate, Enter, Goto, Place
  <2>3. CASE Modify(r)
    BY <2>3 DEF Modify, Modified, Goto, Place
  <2>4. CASE Initialize(r)
    BY <2>4 DEF Initialize, Enter, Goto, Place
  <2>5. CASE InitialDiagnostics(r)
    BY <2>5 DEF InitialDiagnostics, Goto, Place
  <2>6. CASE EndInitialize(r)
    BY <2>6 DEF EndInitialize, RegisterMain, Goto, Place
  <2>7. CASE BeginStep(r)
    BY <2>7 DEF BeginStep, Goto, Place
  <2>8. CASE EndStep(r)
    BY <2>8 DEF EndStep, Goto, Place
  <2>9. CASE NoCheckpt(r)
    BY <2>9 DEF NoCheckpt, After, Goto, Place
  <2>10. CASE DumpStart(r)
    BY <2>10 DEF DumpStart, Enter, Goto, Place
  <2>11. CASE OpenCheckpt(r)
    <3>1. rtoggle' \in [Rank -> Int] /\ disk' \in [Name -> [Rank -> File]]
      BY <2>11, OpenEffect
    <3> QED BY <2>11, <3>1 DEF OpenCheckpt, Goto, Place
  <2>12. CASE CloseCheckpt(r)
    <3>1. rtoggle' \in [Rank -> Int] /\ disk' \in [Name -> [Rank -> File]]
      BY <2>12, CloseEffect
    <3> QED BY <2>12, <3>1 DEF CloseCheckpt, After, Goto, Place
  <2>13. CASE CleanUp(r)
    BY <2>13 DEF CleanUp, UnregisterMain, Enter, Goto, Place
  <2>14. CASE Halt(r)
    BY <2>14 DEF Halt, Goto, Place
  <2> QED BY <1>3, <2>1, <2>2, <2>3, <2>4, <2>5, <2>6, <2>7, <2>8, <2>9, <2>10, <2>11, <2>12,
             <2>13, <2>14 DEF Main
<1>4. CASE UNCHANGED vars
  BY <1>4 DEF vars
<1> QED BY <1>1, <1>2, <1>3, <1>4 DEF Next

(* ... and the order of the barriers: a rank past one has seen that all have*)
(* entered it, and nobody leaves what it has entered;                      *)
LEMMA BarriersKept == Types /\ Barriers /\ [Next]_vars => Barriers'
<1> SUFFICES ASSUME Types, Barriers, [Next]_vars PROVE Barriers'
  OBVIOUS
<1> USE DEF Types, Barriers, job, state
<1>1. CASE Start
  <2>1. PICK n \in Name \cup {None}, m \in ModSteps \cup {None} : Launch(n, m)
    BY <1>1 DEF Start
  <2> QED BY <2>1 DEF Launch
<1>2. CASE Crash
  BY <1>2 DEF Crash
<1>3. ASSUME NEW r \in Rank, Main(r) PROVE Barriers'
  <2>1. CASE Restore(r)
    BY <2>1 DEF Restore, Enter, Goto
  <2>2. CASE Reanimate(r)
    BY <2>2 DEF Reanimate, Together, Enter, Goto
  <2>3. CASE Modify(r)
    BY <2>3 DEF Modify, Goto
  <2>4. CASE Initialize(r)
    BY <2>4 DEF Initialize, Enter, Goto
  <2>5. CASE InitialDiagnostics(r)
    BY <2>5 DEF InitialDiagnostics, Goto
  <2>6. CASE EndInitialize(r)
    BY <2>6 DEF EndInitialize, RegisterMain, Goto
  <2>7. CASE BeginStep(r)
    BY <2>7 DEF BeginStep, Goto
  <2>8. CASE EndStep(r)
    BY <2>8 DEF EndStep, Goto
  <2>9. CASE NoCheckpt(r)
    BY <2>9 DEF NoCheckpt, After, Goto
  <2>10. CASE DumpStart(r)
    BY <2>10 DEF DumpStart, Enter, Goto
  <2>11. CASE OpenCheckpt(r)
    BY <2>11, OpenEffect
  <2>12. CASE CloseCheckpt(r)
    BY <2>12, CloseEffect DEF After
  <2>13. CASE CleanUp(r)
    BY <2>13 DEF CleanUp, UnregisterMain, Enter, Goto
  <2>14. CASE Halt(r)
    BY <2>14 DEF Halt, Goto
  <2> QED BY <1>3, <2>1, <2>2, <2>3, <2>4, <2>5, <2>6, <2>7, <2>8, <2>9, <2>10, <2>11, <2>12,
             <2>13, <2>14 DEF Main
<1>4. CASE UNCHANGED vars
  BY <1>4 DEF vars
<1> QED BY <1>1, <1>2, <1>3, <1>4 DEF Next

(* a rank that sends has received as much as it had sent, so that the way  *)
(* to any other rank leads over a neighbor that has sent no less;          *)
LEMMA SendsKept == Types /\ Sends /\ [Next]_vars => Sends'
<1> SUFFICES ASSUME Types, Sends, [Next]_vars PROVE Sends'
  OBVIOUS
<1> USE DEF Types, Sends, job, state
<1>1. CASE Start
  <2>1. PICK n \in Name \cup {None}, m \in ModSteps \cup {None} : Launch(n, m)
    BY <1>1 DEF Start
  <2> QED BY <2>1, DistanceType DEF Launch, Received, Neighbor
<1>2. CASE Crash
  BY <1>2 DEF Crash
<1>3. ASSUME NEW r \in Rank, Main(r) PROVE Sends'
  <2>1. CASE Restore(r)
    BY <2>1 DEF Restore, Enter, Goto, Received
  <2>2. CASE Reanimate(r)
    BY <2>2 DEF Reanimate, Together, Enter, Goto, Received
  <2>3. CASE Modify(r)
    BY <2>3 DEF Modify, Goto, Received
  <2>4. CASE Initialize(r)
    BY <2>4 DEF Initialize, Enter, Goto, Received
  <2>5. CASE InitialDiagnostics(r)
    BY <2>5 DEF InitialDiagnostics, Goto, Received
  <2>6. CASE EndInitialize(r)
    BY <2>6 DEF EndInitialize, RegisterMain, Goto, Received
  <2>7. CASE BeginStep(r)
    <3>1. \A n \in Rank : sent'[r] <= sent'[n] + Distance(r, n)
      <4>1. SUFFICES ASSUME NEW n \in Rank, n # r PROVE sent'[r] <= sent'[n] + Distance(r, n)
        BY <2>7, DistanceType DEF BeginStep
      <4>2. PICK m \in Neighbor(r) : m \in Rank /\ Distance(r, n) = Distance(m, n) + 1
        BY <4>1, Nearer
      <4>3. sent[r] <= sent[m] /\ sent[m] <= sent[n] + Distance(m, n)
        BY <2>7, <4>2 DEF BeginStep, Received
      <4> QED BY <2>7, <4>1, <4>2, <4>3, DistanceType DEF BeginStep
    <3>2. \A q, n \in Rank : q # r => sent'[q] <= sent'[n] + Distance(q, n)
      BY <2>7, DistanceType DEF BeginStep
    <3>3. \A q \in Rank : pc'[q] \notin {"off", "exchange"} => Received(q)'
      BY <2>7 DEF BeginStep, Goto, Received, Neighbor
    <3> QED BY <3>1, <3>2, <3>3
  <2>8. CASE EndStep(r)
    BY <2>8 DEF EndStep, Goto, Received, Neighbor
  <2>9. CASE NoCheckpt(r)
    BY <2>9 DEF NoCheckpt, After, Goto, Received
  <2>10. CASE DumpStart(r)
    BY <2>10 DEF DumpStart, Enter, Goto, Received
  <2>11. CASE OpenCheckpt(r)
    BY <2>11, OpenEffect DEF Received
  <2>12. CASE CloseCheckpt(r)
    BY <2>12, CloseEffect DEF After, Received
  <2>13. CASE CleanUp(r)
    BY <2>13 DEF CleanUp, UnregisterMain, Enter, Goto, Received
  <2>14. CASE Halt(r)
    BY <2>14 DEF Halt, Goto, Received
  <2> QED BY <1>3, <2>1, <2>2, <2>3, <2>4, <2>5, <2>6, <2>7, <2>8, <2>9, <2>10, <2>11, <2>12,
             <2>13, <2>14 DEF Main
<1>4. CASE UNCHANGED vars
  BY <1>4 DEF vars, Received, Neighbor
<1> QED BY <1>1, <1>2, <1>3, <1>4 DEF Next

(* a file is opened with the step of its name, by its own rank only;       *)
LEMMA FilesKept == Types /\ Files /\ [Next]_vars => Files'
<1> SUFFICES ASSUME Types, Files, [Next]_vars PROVE Files'
  OBVIOUS
<1> USE DEF Types, Files, job, state
<1>1. CASE Start
  <2>1. PICK n \in Name \cup {None}, m \in ModSteps \cup {None} : Launch(n, m)
    BY <1>1 DEF Start
  <2> QED BY <2>1 DEF Launch
<1>2. CASE Crash
  BY <1>2 DEF Crash
<1>3. ASSUME NEW r \in Rank, Main(r) PROVE Files'
  <2>1. CASE Restore(r)
    BY <2>1 DEF Restore, Enter, Goto
  <2>2. CASE Reanimate(r)
    BY <2>2 DEF Reanimate, Together, Enter, Goto
  <2>3. CASE Modify(r)
    BY <2>3 DEF Modify, Goto
  <2>4. CASE Initialize(r)
    BY <2>4 DEF Initialize, Enter, Goto
  <2>5. CASE InitialDiagnostics(r)
    BY <2>5 DEF InitialDiagnostics, Goto
  <2>6. CASE EndInitialize(r)
    BY <2>6 DEF EndInitialize, RegisterMain, Goto
  <2>7. CASE BeginStep(r)
    BY <2>7 DEF BeginStep, Goto
  <2>8. CASE EndStep(r)
    BY <2>8 DEF EndStep, Goto
  <2>9. CASE NoCheckpt(r)
    BY <2>9 DEF NoCheckpt, After, Goto
  <2>10. CASE DumpStart(r)
    BY <2>10 DEF DumpStart, Enter, Goto
  <2>11. CASE OpenCheckpt(r)
    <3>1. ASSUME policy = "step", NEW q \in Rank, NEW n \in Name, disk'[n][q].complete
          PROVE  disk'[n][q].step = n
      <4>1. ~(n = step[r] /\ q = r)
        BY <2>11, <3>1, OpenEffect
      <4>2. disk'[n][q] = disk[n][q]
        BY <2>11, <3>1, <4>1, OpenEffect
      <4> QED BY <3>1, <4>2
    <3>2. ASSUME policy = "step", NEW q \in Rank, pc'[q] = "checkpt", step[q] \in Name
          PROVE  disk'[step[q]][q].step = step[q]
      <4>1. CASE q = r
        BY <2>11, <3>2, <4>1, OpenEffect
      <4>2. CASE q # r
        <5>1. disk'[step[q]][q] = disk[step[q]][q]
          BY <2>11, <3>2, <4>2, OpenEffect
        <5> QED BY <2>11, <3>2, <4>2, <5>1, OpenEffect
      <4> QED BY <4>1, <4>2
    <3>3. policy' = policy /\ step' = step
      BY <2>11, OpenEffect
    <3> QED BY <3>1, <3>2, <3>3
  <2>12. CASE CloseCheckpt(r)
    <3>1. ASSUME policy = "step", NEW q \in Rank, NEW n \in Name, disk'[n][q].complete
          PROVE  disk'[n][q].step = n
      <4>1. disk[n][q].complete \/ (n = step[r] /\ q = r)
        BY <2>12, <3>1, CloseEffect
      <4>2. disk[n][q].step = n
        BY <2>12, <3>1, <4>1, CloseEffect
      <4> QED BY <2>12, <3>1, <4>2, CloseEffect
    <3>2. ASSUME policy = "step", NEW q \in Rank, pc'[q] = "checkpt", step[q] \in Name
          PROVE  disk'[step[q]][q].step = step[q]
      <4>1. pc[q] = "checkpt"
        BY <2>12, <3>2, CloseEffect DEF After
      <4> QED BY <2>12, <3>2, <4>1, CloseEffect
    <3>3. policy' = policy /\ step' = step
      BY <2>12, CloseEffect
    <3> QED BY <3>1, <3>2, <3>3
  <2>13. CASE CleanUp(r)
    BY <2>13 DEF CleanUp, UnregisterMain, Enter, Goto
  <2>14. CASE Halt(r)
    BY <2>14 DEF Halt, Goto
  <2> QED BY <1>3, <2>1, <2>2, <2>3, <2>4, <2>5, <2>6, <2>7, <2>8, <2>9, <2>10, <2>11, <2>12,
             <2>13, <2>14 DEF Main
<1>4. CASE UNCHANGED vars
  BY <1>4 DEF vars
<1> QED BY <1>1, <1>2, <1>3, <1>4 DEF Next

(* a rank that goes on from where it started keeps its base;               *)
LEMMA SameBases ==
  ASSUME Bases, \A q \in Rank : pc'[q] # "off" => pc[q] # "off" /\ Base(q)' = Base(q)
  PROVE  Bases'
BY DEF Bases

(* all start from the same step: the files a job is started from agree, and*)
(* none is written again while a rank has yet to read its own.             *)
LEMMA BasesKept == Types /\ Barriers /\ Files /\ Bases /\ [Next]_vars => Bases'
<1> SUFFICES ASSUME Types, Barriers, Files, Bases, [Next]_vars PROVE Bases'
  OBVIOUS
<1> USE DEF Types, job, state
<1>1. CASE Start
  <2>1. PICK n \in Name \cup {None}, m \in ModSteps \cup {None} :
          Launch(n, m) /\ (n = None \/ (n \in Name /\ Usable(n)))
    BY <1>1 DEF Start
  <2>2. \A r \in Rank : Base(r)' = IF n = None THEN 0 ELSE disk[n][r].step
    BY <2>1 DEF Launch, Base
  <2>3. ASSUME n \in Name, Usable(n), NEW r \in Rank, NEW q \in Rank
        PROVE  disk[n][r].step = disk[n][q].step
    BY <2>3 DEF Usable, Whole, Agree, Files
  <2> QED BY <2>1, <2>2, <2>3 DEF Bases
<1>2. CASE Crash
  BY <1>2 DEF Crash, Bases
<1>3. ASSUME NEW r \in Rank, Main(r) PROVE Bases'
  <2>1. CASE Restore(r)
    <3>1. \A q \in Rank : pc'[q] # "off" => pc[q] # "off" /\ Base(q)' = Base(q)
      <4>1. disk[from][r] \in File
        BY <2>1 DEF Restore
      <4>2. Base(r)' = Base(r) /\ pc[r] # "off"
        BY <2>1, <4>1 DEF Restore, Goto, Barriers, Base, File
      <4>3. \A q \in Rank : q # r => Base(q)' = Base(q) /\ pc'[q] = pc[q]
        BY <2>1 DEF Restore, Goto, Base
      <4> QED BY <4>2, <4>3
    <3> QED BY <3>1, SameBases
  <2>2. CASE Reanimate(r)
    <3>1. \A q \in Rank : pc'[q] # "off" => pc[q] # "off" /\ Base(q)' = Base(q)
      BY <2>2 DEF Reanimate, Together, Enter, Goto, Barriers, Base
    <3> QED BY <3>1, SameBases
  <2>3. CASE Modify(r)
    <3>1. \A q \in Rank : pc'[q] # "off" => pc[q] # "off" /\ Base(q)' = Base(q)
      BY <2>3 DEF Modify, Goto, Barriers, Base
    <3> QED BY <3>1, SameBases
  <2>4. CASE Initialize(r)
    <3>1. \A q \in Rank : pc'[q] # "off" => pc[q] # "off" /\ Base(q)' = Base(q)
      BY <2>4 DEF Initialize, Enter, Goto, Barriers, Base
    <3> QED BY <3>1, SameBases
  <2>5. CASE InitialDiagnostics(r)
    <3>1. \A q \in Rank : pc'[q] # "off" => pc[q] # "off" /\ Base(q)' = Base(q)
      BY <2>5 DEF InitialDiagnostics, Goto, Barriers, Base
    <3> QED BY <3>1, SameBases
  <2>6. CASE EndInitialize(r)
    <3>1. \A q \in Rank : pc'[q] # "off" => pc[q] # "off" /\ Base(q)' = Base(q)
      <4>1. pc[r] # "off" /\ Base(r)' = Base(r)
        BY <2>6 DEF EndInitialize, Goto, Base
      <4>2. \A q \in Rank : q # r => Base(q)' = Base(q) /\ pc'[q] = pc[q]
        BY <2>6 DEF EndInitialize, Goto, Base
      <4> QED BY <4>1, <4>2
    <3> QED BY <3>1, SameBases
  <2>7. CASE BeginStep(r)
    <3>1. \A q \in Rank : pc'[q] # "off" => pc[q] # "off" /\ Base(q)' = Base(q)
      <4>1. pc[r] # "off" /\ Base(r)' = Base(r)
        BY <2>7 DEF BeginStep, Goto, Base
      <4>2. \A q \in Rank : q # r => Base(q)' = Base(q) /\ pc'[q] = pc[q]
        BY <2>7 DEF BeginStep, Goto, Base
      <4> QED BY <4>1, <4>2
    <3> QED BY <3>1, SameBases
  <2>8. CASE EndStep(r)
    <3>1. \A q \in Rank : pc'[q] # "off" => pc[q] # "off" /\ Base(q)' = Base(q)
      <4>1. pc[r] # "off" /\ Base(r)' = Base(r)
        BY <2>8 DEF EndStep, Goto, Base
      <4>2. \A q \in Rank : q # r => Base(q)' = Base(q) /\ pc'[q] = pc[q]
        BY <2>8 DEF EndStep, Goto, Base
      <4> QED BY <4>1, <4>2
    <3> QED BY <3>1, SameBases
  <2>9. CASE NoCheckpt(r)
    <3>1. \A q \in Rank : pc'[q] # "off" => pc[q] # "off" /\ Base(q)' = Base(q)
      BY <2>9 DEF NoCheckpt, After, Goto, Barriers, Base
    <3> QED BY <3>1, SameBases
  <2>10. CASE DumpStart(r)
    <3>1. \A q \in Rank : pc'[q] # "off" => pc[q] # "off" /\ Base(q)' = Base(q)
      BY <2>10 DEF DumpStart, Enter, Goto, Barriers, Base
    <3> QED BY <3>1, SameBases
  <2>11. CASE OpenCheckpt(r)
    <3>1. \A q \in Rank : pc'[q] = "boot" => pc[q] = "boot" /\ from = None /\ from' = None
      <4>1. pc[r] \in {"diagnostics", "dumpstart"} /\ pc' = [pc EXCEPT ![r] = "checkpt"] /\ from' = from
        BY <2>11, OpenEffect
      <4>2. from # None => \A q \in Rank : entered[q] >= 2
        BY <4>1 DEF Barriers
      <4>3. ASSUME NEW q \in Rank, pc'[q] = "boot" PROVE q # r /\ pc[q] = "boot"
        BY <4>1, <4>3 DEF Types
      <4>4. \A q \in Rank : pc[q] = "boot" => entered[q] = 1
        BY DEF Barriers
      <4>5. \A q \in Rank : pc'[q] = "boot" => from = None
        BY <4>2, <4>3, <4>4
      <4> QED BY <4>1, <4>3, <4>5
    <3>2. \A q \in Rank : pc'[q] # "off" => pc[q] # "off" /\ Base(q)' = Base(q)
      BY <2>11, <3>1, OpenEffect DEF Base
    <3> QED BY <3>2, SameBases
  <2>12. CASE CloseCheckpt(r)
    <3>1. \A q \in Rank : pc'[q] = "boot" => pc[q] = "boot" /\ from = None /\ from' = None
      <4>1. \A q \in Rank : pc'[q] = "boot" => pc[q] = "boot" /\ q # r
        BY <2>12, CloseEffect DEF After
      <4>2. from # None => \A q \in Rank : pc[q] # "boot"
        <5>1. pc[r] = "checkpt"
          BY <2>12 DEF CloseCheckpt
        <5>2. from # None => \A q \in Rank : entered[q] >= 2
          BY <5>1 DEF Barriers
        <5>3. \A q \in Rank : pc[q] = "boot" => entered[q] = 1
          BY DEF Barriers
        <5> QED BY <5>2, <5>3
      <4> QED BY <2>12, <4>1, <4>2, CloseEffect
    <3>2. \A q \in Rank : pc'[q] # "off" => pc[q] # "off" /\ Base(q)' = Base(q)
      BY <2>12, <3>1, CloseEffect DEF After, Base
    <3> QED BY <3>2, SameBases
  <2>13. CASE CleanUp(r)
    <3>1. \A q \in Rank : pc'[q] # "off" => pc[q] # "off" /\ Base(q)' = Base(q)
      BY <2>13 DEF CleanUp, UnregisterMain, Enter, Goto, Barriers, Base
    <3> QED BY <3>1, SameBases
  <2>14. CASE Halt(r)
    <3>1. \A q \in Rank : pc'[q] # "off" => pc[q] # "off" /\ Base(q)' = Base(q)
      BY <2>14 DEF Halt, Goto, Barriers, Base
    <3> QED BY <3>1, SameBases
  <2> QED BY <1>3, <2>1, <2>2, <2>3, <2>4, <2>5, <2>6, <2>7, <2>8, <2>9, <2>10, <2>11, <2>12,
             <2>13, <2>14 DEF Main
<1>4. CASE UNCHANGED vars
  BY <1>4 DEF vars, Bases, Base
<1> QED BY <1>1, <1>2, <1>3, <1>4 DEF Next

-----------------------------------------------------------------------------
(* What each step of each rank keeps.                                      *)
THEOREM StepsCounted == Spec => []IInv
<1>1. Init => IInv
  <2> SUFFICES ASSUME Init PROVE IInv
    OBVIOUS
  <2>1. Types
    BY TypesInit
  <2>2. Barriers /\ Bases
    BY DEF Init, Barriers, Bases
  <2>3. Sends
    BY DistanceType DEF Init, Sends
  <2>4. Files
    BY DEF Init, Files, Lost
  <2> QED BY <2>1, <2>2, <2>3, <2>4 DEF IInv
<1>2. IInv /\ [Next]_vars => IInv'
  BY TypesKept, BarriersKept, SendsKept, FilesKept, BasesKept DEF IInv
<1> QED BY <1>1, <1>2, PTL DEF Spec

(* Ranks that advance are apart by no more steps than the faces between    *)
(* them, however many there are and whatever checkpoint they come from: an *)
(* exchange mixes no two steps (advance.cc, main.cc).                      *)
THEOREM AlwaysInStep == Spec => []RanksInStep
<1>1. IInv => RanksInStep
  <2> SUFFICES ASSUME IInv, NEW r \in Rank, NEW n \in Rank, Advancing(r), Advancing(n)
               PROVE  Distance(r, n) >= step[r] - step[n]
    BY DEF RanksInStep
  <2> DEFINE x(q) == IF pc[q] = "exchange" THEN 1 ELSE 0
  <2>1. step[r] - sent[r] + x(r) = step[n] - sent[n] + x(n)
    BY DEF IInv, Bases, Base, Advancing
  <2>2. sent[r] - x(r) <= sent[n] - x(n) + Distance(r, n)
    <3>1. CASE pc[r] = "exchange" \/ pc[n] # "exchange"
      BY <3>1, DistanceType DEF IInv, Types, Sends
    <3>2. CASE pc[r] # "exchange" /\ pc[n] = "exchange"
      <4>1. PICK m \in Neighbor(r) : m \in Rank /\ Distance(r, n) = Distance(m, n) + 1
        BY <3>2, Nearer
      <4>2. sent[r] <= sent[m] /\ sent[m] <= sent[n] + Distance(m, n)
        BY <3>2, <4>1 DEF IInv, Sends, Received, Advancing
      <4> QED BY <3>2, <4>1, <4>2, DistanceType DEF IInv, Types
    <3> QED BY <3>1, <3>2
  <2> QED BY <2>1, <2>2, DistanceType DEF IInv, Types
<1> QED BY <1>1, StepsCounted, PTL
-----------------------------------------------------------------------------
(* The last step of a job is the greatest that its deck or --modify names. *)
LEMMA LastStepIs ==
  LastStep \in Nat \ {0} /\ \A s \in ModSteps \cup {NumStep} : s <= LastStep
BY SimulationAssumption DEF LastStep

(* What opening a file writes.                                             *)
LEMMA OpenIs ==
  ASSUME Types, NEW r \in Rank, OpenCheckpt(r)
  PROVE  LET t == IF policy = "toggle" THEN Flipped(rtoggle[r]) ELSE rtoggle[r]
             f == [complete |-> FALSE, main |-> registered[r], step |-> step[r],
                   num_step |-> num_step[r], rtoggle |-> t, life |-> lives]
         IN /\ AtCheckpt(r) /\ pc' = [pc EXCEPT ![r] = "checkpt"]
            /\ rtoggle' = [rtoggle EXCEPT ![r] = t] /\ rtoggle' \in [Rank -> Int]
            /\ UNCHANGED <<job, entered, sent, sim, registered, step, num_step>>
            /\ f \in File /\ disk' \in [Name -> [Rank -> File]]
            /\ \A k \in Name, q \in Rank :
                 disk'[k][q] = IF k = TagOf(step[r], t) /\ q = r THEN f ELSE disk[k][q]
<1> DEFINE t == IF policy = "toggle" THEN Flipped(rtoggle[r]) ELSE rtoggle[r]
           n == TagOf(step[r], t)
           f == [complete |-> FALSE, main |-> registered[r], step |-> step[r],
                 num_step |-> num_step[r], rtoggle |-> t, life |-> lives]
<1>1. t \in Int
  BY DEF Types, Flipped
<1>2. f \in File
  BY <1>1 DEF Types, File
<1>3. rtoggle' = [rtoggle EXCEPT ![r] = t] /\ disk' = [disk EXCEPT ![n][r] = f]
  BY DEF OpenCheckpt
<1>4. /\ AtCheckpt(r) /\ pc' = [pc EXCEPT ![r] = "checkpt"]
      /\ UNCHANGED <<job, entered, sent, sim, registered, step, num_step>>
  BY DEF OpenCheckpt, Goto
<1> HIDE DEF t, n, f
<1>5. rtoggle' \in [Rank -> Int]
  BY <1>1, <1>3 DEF Types
<1>6. /\ disk' \in [Name -> [Rank -> File]]
      /\ \A k \in Name, q \in Rank : disk'[k][q] = IF k = n /\ q = r THEN f ELSE disk[k][q]
  <2>1. disk \in [Name -> [Rank -> File]]
    BY DEF Types
  <2> QED BY <2>1, <1>2, <1>3
<1> QED BY <1>2, <1>3, <1>4, <1>5, <1>6 DEF t, n, f

(* What closing it does.                                                   *)
LEMMA CloseIs ==
  ASSUME Types, NEW r \in Rank, CloseCheckpt(r)
  PROVE  /\ pc[r] = "checkpt" /\ pc' = [pc EXCEPT ![r] = After(r)]
         /\ rtoggle' = IF policy = "late" THEN [rtoggle EXCEPT ![r] = Flipped(@)] ELSE rtoggle
         /\ UNCHANGED <<job, entered, sent, sim, registered, step, num_step>>
         /\ \A k \in Name, q \in Rank :
              disk'[k][q] = IF k = TagOf(step[r], rtoggle[r]) /\ q = r
                            THEN [disk[k][q] EXCEPT !.complete = TRUE] ELSE disk[k][q]
<1> DEFINE n == TagOf(step[r], rtoggle[r])
           f == [disk[n][r] EXCEPT !.complete = TRUE]
<1>1. disk' = [disk EXCEPT ![n][r] = f]
  BY DEF CloseCheckpt
<1>2. /\ pc[r] = "checkpt" /\ pc' = [pc EXCEPT ![r] = After(r)]
      /\ rtoggle' = IF policy = "late" THEN [rtoggle EXCEPT ![r] = Flipped(@)] ELSE rtoggle
      /\ UNCHANGED <<job, entered, sent, sim, registered, step, num_step>>
  BY DEF CloseCheckpt, Goto
<1>3. disk \in [Name -> [Rank -> File]]
  BY DEF Types
<1>4. \A k \in Name, q \in Rank : disk'[k][q] = IF k = n /\ q = r THEN f ELSE disk[k][q]
  <2> HIDE DEF n, f
  <2> QED BY <1>1, <1>3
<1>5. \A k \in Name, q \in Rank :
        disk'[k][q] = IF k = n /\ q = r THEN [disk[k][q] EXCEPT !.complete = TRUE] ELSE disk[k][q]
  BY <1>4, Zenon
<1> QED BY <1>2, <1>5

(* The name of a file is one of those that there are.                      *)
LEMMA NamesAre ==
  /\ {0, 1} \subseteq Name /\ Name \subseteq Nat
  /\ "step" \in Policies => Name = 0 .. LastStep
BY LastStepIs DEF Name

(* The tag of a checkpoint names a file.                                   *)
LEMMA TagIs ==
  ASSUME Types, NEW s \in Nat, s <= LastStep, NEW t \in {0, 1}
  PROVE  TagOf(s, t) \in Name
BY NamesAre, LastStepIs DEF Types, TagOf

(* Steps that write no file leave what is said of files as it is.          *)
LEMMA QuietFiles ==
  ASSUME Bounds, UNCHANGED <<job, disk>>, \A q \in Rank : RankBounds(q)',
         \A q \in Rank : pc'[q] \in {"boot", "checkpt"} =>
                           pc'[q] = pc[q] /\ step'[q] = step[q] /\ rtoggle'[q] = rtoggle[q]
  PROVE  Bounds'
<1>1. \A q \in Rank : Written(q)'
  BY DEF Bounds, Written, TagOf, job
<1>2. lives' <= MaxLives /\ mod' \in ModSteps \cup {None}
  BY DEF Bounds, job
<1>3. \A n \in Name, q \in Rank : FileBounds(disk'[n][q])
  BY DEF Bounds
<1> QED BY <1>1, <1>2, <1>3 DEF Bounds

(* A step of one rank leaves the bounds of the others as they are.         *)
LEMMA OthersBounds ==
  ASSUME Bounds, NEW r \in Rank, RankBounds(r)',
         \A q \in Rank : q # r => /\ pc'[q] = pc[q] /\ entered'[q] = entered[q] /\ sent'[q] = sent[q]
                                  /\ step'[q] = step[q] /\ num_step'[q] = num_step[q]
                                  /\ rtoggle'[q] = rtoggle[q]
  PROVE  \A q \in Rank : RankBounds(q)'
<1>1. ASSUME NEW q \in Rank, q # r PROVE RankBounds(q)'
  BY <1>1 DEF Bounds, RankBounds
<1> QED BY <1>1

(* Opening a file writes bounded numbers ...                               *)
LEMMA OpenBounds ==
  ASSUME Types, Bounds, NEW r \in Rank, OpenCheckpt(r)
  PROVE  Bounds'
<1> DEFINE t == IF policy = "toggle" THEN Flipped(rtoggle[r]) ELSE rtoggle[r]
           k == TagOf(step[r], t)
           f == [complete |-> FALSE, main |-> registered[r], step |-> step[r],
                 num_step |-> num_step[r], rtoggle |-> t, life |-> lives]
<1>1. /\ AtCheckpt(r) /\ pc' = [pc EXCEPT ![r] = "checkpt"]
      /\ rtoggle' = [rtoggle EXCEPT ![r] = t] /\ rtoggle' \in [Rank -> Int]
      /\ UNCHANGED <<job, entered, sent, sim, registered, step, num_step>>
      /\ f \in File
      /\ \A n \in Name, q \in Rank : disk'[n][q] = IF n = k /\ q = r THEN f ELSE disk[n][q]
  BY OpenIs
<1>2. RankBounds(r) /\ step[r] \in Nat /\ num_step[r] \in Nat /\ rtoggle[r] \in Int
  BY DEF Types, Bounds
<1>3. pc[r] \in {"diagnostics", "dumpstart"}
  BY <1>1 DEF AtCheckpt
<1>4. t \in {0, 1}
  BY <1>2 DEF RankBounds, Flipped
<1>5. k \in Name
  BY <1>2, <1>4, TagIs DEF RankBounds
<1>6. FileBounds(f) /\ f.num_step >= 1
  BY <1>2, <1>3, <1>4 DEF FileBounds, RankBounds, Bounds, Types
<1>7. rtoggle'[r] = t /\ policy' = policy /\ step' = step /\ lives' = lives /\ mod' = mod /\ from' = from
  BY <1>1 DEF job, Types
<1>8. TagOf(step[r], rtoggle[r])' = k
  BY <1>7 DEF TagOf
<1> HIDE DEF t, k, f
<1>9. RankBounds(r)'
  BY <1>1, <1>2, <1>3, <1>4, <1>7 DEF RankBounds, Entries, Types
<1>10. \A q \in Rank : RankBounds(q)'
  BY <1>1, <1>9, OthersBounds DEF Types
<1>11. Written(r)'
  BY <1>1, <1>5, <1>6, <1>8 DEF Written, Types
<1>12. ASSUME NEW q \in Rank, q # r PROVE Written(q)'
  <2>1. TagOf(step[q], rtoggle[q]) \in Name /\ TagOf(step[q], rtoggle[q])' = TagOf(step[q], rtoggle[q])
    BY <1>1, <1>7, <1>12, TagIs DEF Bounds, RankBounds, Types, TagOf
  <2>2. from # None => from \in Name
    BY DEF Types
  <2>3. Written(q) /\ pc'[q] = pc[q]
    BY <1>1, <1>12 DEF Bounds, Types
  <2> QED BY <1>1, <1>7, <1>12, <2>1, <2>2, <2>3 DEF Written
<1>13. \A n \in Name, q \in Rank : FileBounds(disk'[n][q])
  BY <1>1, <1>6 DEF Bounds
<1>14. lives' <= MaxLives /\ mod' \in ModSteps \cup {None}
  BY <1>7 DEF Bounds
<1> QED BY <1>10, <1>11, <1>12, <1>13, <1>14 DEF Bounds

(* ... and closing it completes one that has them.                         *)
LEMMA CloseBounds ==
  ASSUME Types, Bounds, NEW r \in Rank, CloseCheckpt(r)
  PROVE  Bounds'
<1> DEFINE k == TagOf(step[r], rtoggle[r])
<1>1. /\ pc[r] = "checkpt" /\ pc' = [pc EXCEPT ![r] = After(r)] /\ After(r) \in {"advance", "initialized"}
      /\ rtoggle' = IF policy = "late" THEN [rtoggle EXCEPT ![r] = Flipped(@)] ELSE rtoggle
      /\ UNCHANGED <<job, entered, sent, sim, registered, step, num_step>>
      /\ \A n \in Name, q \in Rank :
           disk'[n][q] = IF n = k /\ q = r THEN [disk[n][q] EXCEPT !.complete = TRUE] ELSE disk[n][q]
  BY CloseIs DEF After
<1>2. RankBounds(r) /\ step[r] \in Nat /\ rtoggle[r] \in Int /\ Written(r)
  BY DEF Types, Bounds
<1>3. k \in Name
  BY <1>2, TagIs DEF RankBounds
<1>4. policy' = policy /\ step' = step /\ lives' = lives /\ mod' = mod /\ from' = from
  BY <1>1 DEF job
<1>5. \A n \in Name, q \in Rank :
        /\ disk[n][q] \in File /\ disk'[n][q].num_step = disk[n][q].num_step
        /\ FileBounds(disk'[n][q])
  <2>1. \A n \in Name, q \in Rank : disk[n][q] \in File /\ FileBounds(disk[n][q])
    BY DEF Types, Bounds
  <2>2. disk[k][r].num_step >= 1
    BY <1>1, <1>2 DEF Written
  <2> HIDE DEF k
  <2>3. ASSUME NEW g \in File, FileBounds(g), g.num_step >= 1, NEW h, h = [g EXCEPT !.complete = TRUE]
        PROVE  h.num_step = g.num_step /\ FileBounds(h)
    BY <2>3 DEF FileBounds, File
  <2>4. ASSUME NEW n \in Name, NEW q \in Rank
        PROVE  disk'[n][q].num_step = disk[n][q].num_step /\ FileBounds(disk'[n][q])
    <3>1. CASE n = k /\ q = r
      BY <1>1, <2>1, <2>2, <2>3, <3>1
    <3>2. CASE ~(n = k /\ q = r)
      <4>1. disk'[n][q] = disk[n][q]
        BY <1>1, <3>2
      <4> QED BY <2>1, <4>1
    <3> QED BY <3>1, <3>2
  <2> QED BY <2>1, <2>4
<1> HIDE DEF k
<1>6. RankBounds(r)'
  BY <1>1, <1>2 DEF RankBounds, Entries, Types, Flipped
<1>7. \A q \in Rank : RankBounds(q)'
  BY <1>1, <1>6, OthersBounds DEF Types
<1>8. Written(r)'
  BY <1>1 DEF Written, Types
<1>9. ASSUME NEW q \in Rank, q # r PROVE Written(q)'
  <2>1. TagOf(step[q], rtoggle[q]) \in Name /\ TagOf(step[q], rtoggle[q])' = TagOf(step[q], rtoggle[q])
    BY <1>1, <1>4, <1>9, TagIs DEF Bounds, RankBounds, Types, TagOf
  <2>2. from # None => from \in Name
    BY DEF Types
  <2>3. Written(q) /\ pc'[q] = pc[q]
    BY <1>1, <1>9 DEF Bounds, Types
  <2> QED BY <1>4, <1>5, <1>9, <2>1, <2>2, <2>3 DEF Written
<1>10. lives' <= MaxLives /\ mod' \in ModSteps \cup {None}
  BY <1>4 DEF Bounds
<1> QED BY <1>5, <1>7, <1>8, <1>9, <1>10 DEF Bounds

(* Every step keeps the bounds.                                            *)
LEMMA BoundsKept == Types /\ Barriers /\ Bounds /\ [Next]_vars => Bounds'
<1> SUFFICES ASSUME Types, Barriers, Bounds, [Next]_vars PROVE Bounds'
  OBVIOUS
<1>1. CASE Start
  <2>1. PICK n \in Name \cup {None}, m \in ModSteps \cup {None} :
          Launch(n, m) /\ (n = None \/ (n \in Name /\ Usable(n)))
    BY <1>1 DEF Start
  <2>2. \A q \in Rank : RankBounds(q)'
    BY <2>1, LastStepIs DEF Launch, RankBounds, Entries
  <2>3. ASSUME NEW q \in Rank PROVE Written(q)'
    BY <2>1 DEF Launch, Written, Usable, Whole, Bounds, FileBounds
  <2>4. lives' <= MaxLives /\ mod' \in ModSteps \cup {None}
    BY <2>1, SimulationAssumption DEF Launch, Types
  <2>5. \A k \in Name, q \in Rank : FileBounds(disk'[k][q])
    BY <2>1 DEF Launch, Bounds
  <2> QED BY <2>2, <2>3, <2>4, <2>5 DEF Bounds
<1>2. CASE Crash
  <2>1. /\ \A q \in Rank : pc'[q] = "off"
        /\ UNCHANGED <<job, disk>> /\ UNCHANGED <<entered, sent, step, num_step, rtoggle>>
    BY <1>2 DEF Crash, state
  <2>2. \A q \in Rank : RankBounds(q)'
    BY <2>1 DEF Bounds, RankBounds
  <2> QED BY <2>1, <2>2, QuietFiles
<1>3. ASSUME NEW r \in Rank, Main(r) PROVE Bounds'
  <2>1. RankBounds(r) /\ Written(r)
    BY DEF Bounds
  <2>2. /\ entered[r] \in Nat /\ sent[r] \in Nat /\ step[r] \in Nat /\ num_step[r] \in Nat
        /\ pc \in [Rank -> Place] /\ entered \in [Rank -> Nat] /\ sent \in [Rank -> Nat]
        /\ step \in [Rank -> Nat] /\ num_step \in [Rank -> Nat] /\ rtoggle \in [Rank -> Int]
    BY DEF Types
  <2>3. LastStep \in Nat \ {0} /\ NumStep \in 1 .. LastStep
        /\ \A s \in ModSteps : s \in 1 .. LastStep
    BY LastStepIs, SimulationAssumption
  <2> USE DEF RankBounds, Entries, Goto, Enter, job, state
  <2>4. CASE Restore(r)
    <3>1. from \in Name /\ disk[from][r] \in File /\ FileBounds(disk[from][r])
          /\ disk[from][r].num_step >= 1
      BY <2>4, <2>1 DEF Restore, Types, Bounds, Written
    <3>2. entered[r] = 1 /\ sent[r] = 0
      BY <2>4 DEF Restore, Barriers
    <3>3. RankBounds(r)'
      BY <2>1, <2>2, <2>3, <2>4, <3>1, <3>2 DEF Restore, File, FileBounds
    <3>4. \A q \in Rank : RankBounds(q)'
      BY <2>2, <2>4, <3>3, OthersBounds DEF Restore
    <3>5. \A q \in Rank : pc'[q] \in {"boot", "checkpt"} =>
                            pc'[q] = pc[q] /\ step'[q] = step[q] /\ rtoggle'[q] = rtoggle[q]
      BY <2>2, <2>4 DEF Restore
    <3> QED BY <2>4, <3>4, <3>5, QuietFiles DEF Restore
  <2>5. CASE Reanimate(r)
    <3>1. RankBounds(r)'
      BY <2>1, <2>2, <2>3, <2>5 DEF Reanimate
    <3>2. \A q \in Rank : RankBounds(q)'
      BY <2>2, <2>5, <3>1, OthersBounds DEF Reanimate
    <3>3. \A q \in Rank : pc'[q] \in {"boot", "checkpt"} =>
                            pc'[q] = pc[q] /\ step'[q] = step[q] /\ rtoggle'[q] = rtoggle[q]
      BY <2>2, <2>5 DEF Reanimate
    <3> QED BY <2>5, <3>2, <3>3, QuietFiles DEF Reanimate
  <2>6. CASE Modify(r)
    <3>1. RankBounds(r)'
      BY <2>1, <2>2, <2>3, <2>6 DEF Modify, Modified, Bounds
    <3>2. \A q \in Rank : RankBounds(q)'
      BY <2>2, <2>6, <3>1, OthersBounds DEF Modify, Modified
    <3>3. \A q \in Rank : pc'[q] \in {"boot", "checkpt"} =>
                            pc'[q] = pc[q] /\ step'[q] = step[q] /\ rtoggle'[q] = rtoggle[q]
      BY <2>2, <2>6 DEF Modify, Modified
    <3> QED BY <2>6, <3>2, <3>3, QuietFiles DEF Modify
  <2>7. CASE Initialize(r)
    <3>1. RankBounds(r)'
      BY <2>1, <2>2, <2>3, <2>7 DEF Initialize, Barriers
    <3>2. \A q \in Rank : RankBounds(q)'
      BY <2>2, <2>7, <3>1, OthersBounds DEF Initialize
    <3>3. \A q \in Rank : pc'[q] \in {"boot", "checkpt"} =>
                            pc'[q] = pc[q] /\ step'[q] = step[q] /\ rtoggle'[q] = rtoggle[q]
      BY <2>2, <2>7 DEF Initialize
    <3> QED BY <2>7, <3>2, <3>3, QuietFiles DEF Initialize
  <2>8. CASE InitialDiagnostics(r)
    <3>1. RankBounds(r)'
      BY <2>1, <2>2, <2>3, <2>8 DEF InitialDiagnostics
    <3>2. \A q \in Rank : RankBounds(q)'
      BY <2>2, <2>8, <3>1, OthersBounds DEF InitialDiagnostics
    <3>3. \A q \in Rank : pc'[q] \in {"boot", "checkpt"} =>
                            pc'[q] = pc[q] /\ step'[q] = step[q] /\ rtoggle'[q] = rtoggle[q]
      BY <2>2, <2>8 DEF InitialDiagnostics
    <3> QED BY <2>8, <3>2, <3>3, QuietFiles DEF InitialDiagnostics
  <2>9. CASE EndInitialize(r)
    <3>1. RankBounds(r)'
      BY <2>1, <2>2, <2>3, <2>9 DEF EndInitialize, RegisterMain
    <3>2. \A q \in Rank : RankBounds(q)'
      BY <2>2, <2>9, <3>1, OthersBounds DEF EndInitialize, RegisterMain
    <3>3. \A q \in Rank : pc'[q] \in {"boot", "checkpt"} =>
                            pc'[q] = pc[q] /\ step'[q] = step[q] /\ rtoggle'[q] = rtoggle[q]
      BY <2>2, <2>9 DEF EndInitialize, RegisterMain
    <3> QED BY <2>9, <3>2, <3>3, QuietFiles DEF EndInitialize
  <2>10. CASE BeginStep(r)
    <3>1. RankBounds(r)'
      BY <2>1, <2>2, <2>3, <2>10 DEF BeginStep, Done
    <3>2. \A q \in Rank : RankBounds(q)'
      BY <2>2, <2>10, <3>1, OthersBounds DEF BeginStep, Done
    <3>3. \A q \in Rank : pc'[q] \in {"boot", "checkpt"} =>
                            pc'[q] = pc[q] /\ step'[q] = step[q] /\ rtoggle'[q] = rtoggle[q]
      BY <2>2, <2>10 DEF BeginStep, Done
    <3> QED BY <2>10, <3>2, <3>3, QuietFiles DEF BeginStep
  <2>11. CASE EndStep(r)
    <3>1. RankBounds(r)'
      BY <2>1, <2>2, <2>3, <2>11 DEF EndStep
    <3>2. \A q \in Rank : RankBounds(q)'
      BY <2>2, <2>11, <3>1, OthersBounds DEF EndStep
    <3>3. \A q \in Rank : pc'[q] \in {"boot", "checkpt"} =>
                            pc'[q] = pc[q] /\ step'[q] = step[q] /\ rtoggle'[q] = rtoggle[q]
      BY <2>2, <2>11 DEF EndStep
    <3> QED BY <2>11, <3>2, <3>3, QuietFiles DEF EndStep
  <2>12. CASE NoCheckpt(r)
    <3>1. RankBounds(r)'
      BY <2>1, <2>2, <2>3, <2>12 DEF NoCheckpt, After
    <3>2. \A q \in Rank : RankBounds(q)'
      BY <2>2, <2>12, <3>1, OthersBounds DEF NoCheckpt, After
    <3>3. \A q \in Rank : pc'[q] \in {"boot", "checkpt"} =>
                            pc'[q] = pc[q] /\ step'[q] = step[q] /\ rtoggle'[q] = rtoggle[q]
      BY <2>2, <2>12 DEF NoCheckpt, After
    <3> QED BY <2>12, <3>2, <3>3, QuietFiles DEF NoCheckpt
  <2>13. CASE DumpStart(r)
    <3>1. RankBounds(r)'
      BY <2>1, <2>2, <2>3, <2>13 DEF DumpStart
    <3>2. \A q \in Rank : RankBounds(q)'
      BY <2>2, <2>13, <3>1, OthersBounds DEF DumpStart
    <3>3. \A q \in Rank : pc'[q] \in {"boot", "checkpt"} =>
                            pc'[q] = pc[q] /\ step'[q] = step[q] /\ rtoggle'[q] = rtoggle[q]
      BY <2>2, <2>13 DEF DumpStart
    <3> QED BY <2>13, <3>2, <3>3, QuietFiles DEF DumpStart
  <2>14. CASE OpenCheckpt(r)
    BY <2>14, OpenBounds
  <2>15. CASE CloseCheckpt(r)
    BY <2>15, CloseBounds
  <2>16. CASE CleanUp(r)
    <3>1. RankBounds(r)'
      BY <2>1, <2>2, <2>3, <2>16 DEF CleanUp
    <3>2. \A q \in Rank : RankBounds(q)'
      BY <2>2, <2>16, <3>1, OthersBounds DEF CleanUp
    <3>3. \A q \in Rank : pc'[q] \in {"boot", "checkpt"} =>
                            pc'[q] = pc[q] /\ step'[q] = step[q] /\ rtoggle'[q] = rtoggle[q]
      BY <2>2, <2>16 DEF CleanUp
    <3> QED BY <2>16, <3>2, <3>3, QuietFiles DEF CleanUp
  <2>17. CASE Halt(r)
    <3>1. RankBounds(r)'
      BY <2>1, <2>2, <2>3, <2>17 DEF Halt
    <3>2. \A q \in Rank : RankBounds(q)'
      BY <2>2, <2>17, <3>1, OthersBounds DEF Halt
    <3>3. \A q \in Rank : pc'[q] \in {"boot", "checkpt"} =>
                            pc'[q] = pc[q] /\ step'[q] = step[q] /\ rtoggle'[q] = rtoggle[q]
      BY <2>2, <2>17 DEF Halt
    <3> QED BY <2>17, <3>2, <3>3, QuietFiles DEF Halt
  <2> QED BY <1>3, <2>4, <2>5, <2>6, <2>7, <2>8, <2>9, <2>10,
             <2>11, <2>12, <2>13, <2>14, <2>15, <2>16, <2>17 DEF Main
<1>4. CASE UNCHANGED vars
  <2>1. UNCHANGED <<job, disk>> /\ UNCHANGED <<pc, entered, sent, step, num_step, rtoggle>>
    BY <1>4 DEF vars, state
  <2>2. \A q \in Rank : RankBounds(q)'
    BY <2>1 DEF Bounds, RankBounds
  <2> QED BY <2>1, <2>2, QuietFiles
<1> QED BY <1>1, <1>2, <1>3, <1>4 DEF Next

(* The bounds hold at all times.                                           *)
LEMMA AlwaysBounded == Spec => []Bounds
<1>1. Init => Bounds
  <2> SUFFICES ASSUME Init PROVE Bounds
    OBVIOUS
  <2>1. \A q \in Rank : RankBounds(q)
    BY LastStepIs DEF Init, RankBounds
  <2>2. \A n \in Name, q \in Rank : FileBounds(disk[n][q])
    BY LastStepIs, SimulationAssumption DEF Init, FileBounds, Lost
  <2> QED BY <2>1, <2>2, SimulationAssumption DEF Init, Bounds, Written
<1>2. IInv /\ Bounds /\ [Next]_vars => Bounds'
  BY BoundsKept DEF IInv
<1> QED BY <1>1, <1>2, StepsCounted, PTL DEF Spec

(* Every variable keeps its type: in particular no rank, and no checkpoint,*)
(* counts past the last step that the deck or --modify names, and the      *)
(* toggle names one of two checkpoints whatever the job was started from.  *)
THEOREM TypeIsOK == Spec => []TypeOK
<1>1. IInv /\ Bounds => TypeOK
  <2> SUFFICES ASSUME IInv, Bounds PROVE TypeOK
    OBVIOUS
  <2>1. Types /\ LastStep \in Nat /\ MaxLives \in Nat
    BY LastStepIs, SimulationAssumption DEF IInv
  <2>2. /\ entered \in [Rank -> 0 .. LastStep + 4] /\ sent \in [Rank -> 0 .. LastStep]
        /\ step \in [Rank -> 0 .. LastStep] /\ num_step \in [Rank -> 0 .. LastStep]
        /\ rtoggle \in [Rank -> {0, 1}]
    BY <2>1 DEF Types, Bounds, RankBounds
  <2>3. \A n \in Name, q \in Rank :
          disk[n][q] \in [complete : BOOLEAN, main : BOOLEAN, step : 0 .. LastStep,
                         num_step : 0 .. LastStep, rtoggle : {0, 1}, life : 0 .. MaxLives]
    BY <2>1 DEF Types, Bounds, FileBounds, File
  <2>4. lives \in 0 .. MaxLives
    BY <2>1 DEF Types, Bounds
  <2> QED BY <2>1, <2>2, <2>3, <2>4 DEF Types, Bounds, TypeOK, Place
<1> QED BY <1>1, StepsCounted, AlwaysBounded, PTL
-----------------------------------------------------------------------------
(* A checkpoint to restart from.  For a deck that takes its two names in   *)
(* turn, what is said below holds of the file that a rank wrote last and of*)
(* the one before; a deck that changes the toggle late is careful within   *)
(* its first job.                                                          *)
Careful == policy = "toggle" \/ (policy = "late" /\ lives <= 1)
Multiple(x) == \E k \in Int : x = k * Interval

(* The name that a rank wrote last or started from, whether it has written *)
(* it in this job, and the step it holds: before the first checkpoint of a *)
(* fresh job, that of the checkpoint there would have been.                *)
Held(r) ==
  IF pc[r] = "boot" /\ from # None THEN from
  ELSE IF policy = "late" /\ pc[r] # "checkpt" THEN 1 - rtoggle[r] ELSE rtoggle[r]
Own(r) == disk[Held(r)][r].life = lives
Last(r) ==
  IF from = None /\ ~Own(r) THEN IF AtZero THEN -Interval ELSE 0 ELSE disk[Held(r)][r].step
Filed(r) == Own(r) \/ from # None

(* Every file says which job wrote it and, when it is complete, a step at  *)
(* which one is due and its own name.                                      *)
Saved ==
  \A n \in Name, r \in Rank :
    /\ disk[n][r].life <= lives
    /\ disk[n][r].complete => /\ disk[n][r].life >= 1 /\ Multiple(disk[n][r].step)
                              /\ policy = "toggle" => disk[n][r].rtoggle = n

(* A rank is less than an interval past its last checkpoint.               *)
Clock(r) ==
  /\ ~(pc[r] = "boot" /\ from # None) =>
       IF pc[r] \in {"boot", "initializing", "diagnostics", "dumpstart"}
       THEN /\ step[r] <= Last(r) + Interval
            /\ Last(r) < step[r] \/ (step[r] = 0 /\ Last(r) = 0 /\ ~AtZero)
       ELSE Last(r) <= step[r] /\ step[r] < Last(r) + Interval
  /\ pc[r] = "dumpstart" => ShouldDump(step[r])
  /\ pc[r] = "checkpt" => Own(r) /\ step[r] = Last(r)

(* Its last file is complete unless it is being written, and a rank that   *)
(* has written none in this job finds none of this job.                    *)
Mine(r) ==
  /\ Held(r) \in {0, 1} /\ lives >= 1 /\ Multiple(Last(r))
  /\ pc[r] = "checkpt" /\ policy = "toggle" => disk[Held(r)][r].rtoggle = Held(r)
  /\ Filed(r) /\ pc[r] # "checkpt" => disk[Held(r)][r].complete
  /\ ~Own(r) => \A n \in Name : disk[n][r].life < lives

(* Two ranks have written the same last, or one of them one more; that one *)
(* still has the file the other wrote last.                                *)
Pair(r, q) ==
  /\ IF Held(r) = Held(q) THEN Last(r) = Last(q)
                          ELSE Last(r) = Last(q) + Interval \/ Last(q) = Last(r) + Interval
  /\ Last(r) < Last(q) => Own(q)
  /\ Last(r) = Last(q) => (Own(r) <=> Own(q))
  /\ Last(r) = Last(q) /\ Filed(r) => disk[Held(r)][r].life = disk[Held(q)][q].life
  /\ Last(r) < Last(q) /\ Filed(r) => /\ disk[Held(r)][q].complete /\ disk[Held(r)][q].step = Last(r)
                                      /\ disk[Held(r)][q].life = disk[Held(r)][r].life

(* A fresh job is started when there is nothing to restart from, and there *)
(* is nothing before every rank has come to its first checkpoint.          *)
Good(n) == Whole(n) /\ Agree(n)
Fresh ==
  from = None /\ (\E r \in Rank : pc[r] # "off" /\ ~Own(r)) => \A n \in Name : ~Good(n)

(* A job dies as a whole.                                                  *)
Alive == \A r, q \in Rank : pc[r] = "off" => pc[q] = "off"

Dumps ==
  Careful =>
    /\ policy = "late" => from = None
    /\ Saved /\ Fresh
    /\ \A r \in Rank : pc[r] # "off" =>
         Clock(r) /\ Mine(r) /\ \A q \in Rank : pc[q] # "off" => Pair(r, q)

-----------------------------------------------------------------------------
(* A step at which a checkpoint is due is a multiple of the interval ...   *)
LEMMA DueIsMultiple ==
  ASSUME NEW s \in Nat, s % Interval = 0
  PROVE  Multiple(s)
<1> USE SimulationAssumption
<1>1. s = Interval * (s \div Interval) + (s % Interval) /\ s \div Interval \in Int
  OBVIOUS
<1> DEFINE k == s \div Interval
<1>2. k \in Int /\ s = Interval * k
  BY <1>1
<1> HIDE DEF k
<1>3. s = k * Interval
  BY <1>2
<1> QED BY <1>2, <1>3 DEF Multiple

(* ... and the other way around ...                                        *)
LEMMA MultipleIsDue ==
  ASSUME NEW s \in Nat, Multiple(s)
  PROVE  s % Interval = 0
<1> PICK k \in Int : s = k * Interval
  BY DEF Multiple
<1> QED BY SimulationAssumption

(* ... the next after one of which is an interval away.                    *)
LEMMA NextMultiple ==
  ASSUME NEW x \in Int, NEW y \in Int, Multiple(x), Multiple(y), x < y, y <= x + Interval
  PROVE  y = x + Interval
<1> USE SimulationAssumption
<1> PICK k \in Int : x = k * Interval
  BY DEF Multiple
<1> PICK j \in Int : y = j * Interval
  BY DEF Multiple
<1> DEFINE d == j - k
<1>1. d \in Int /\ d * Interval = y - x
  OBVIOUS
<1> HIDE DEF d
<1>2. d > 0
  BY <1>1
<1>3. d < 2
  BY <1>1
<1> QED BY <1>1, <1>2, <1>3

(* Adding an interval to one gives another, and so do none and minus one.  *)
LEMMA Multiples ==
  /\ Multiple(-Interval) /\ Multiple(0)
  /\ \A x \in Int : Multiple(x) => Multiple(x + Interval)
<1> USE SimulationAssumption
<1>1. -Interval = (-1) * Interval /\ 0 = 0 * Interval
  OBVIOUS
<1>2. ASSUME NEW x \in Int, Multiple(x) PROVE Multiple(x + Interval)
  <2> PICK k \in Int : x = k * Interval
    BY <1>2 DEF Multiple
  <2>1. x + Interval = (k + 1) * Interval /\ k + 1 \in Int
    OBVIOUS
  <2> QED BY <2>1 DEF Multiple
<1>3. Multiple(-Interval)
  BY <1>1 DEF Multiple
<1>4. Multiple(0)
  BY <1>1 DEF Multiple
<1> QED BY <1>2, <1>3, <1>4

(* What a rank's last checkpoint is.                                       *)
LEMMA LastIs ==
  ASSUME Types, NEW r \in Rank, Held(r) \in Name
  PROVE  /\ disk[Held(r)][r] \in File /\ Own(r) \in BOOLEAN
         /\ Last(r) \in Int /\ (~AtZero => Last(r) >= 0)
         /\ Filed(r) => Last(r) = disk[Held(r)][r].step /\ Last(r) >= 0
<1>1. disk[Held(r)][r] \in File
  BY DEF Types
<1>2. disk[Held(r)][r].step \in Nat
  BY <1>1 DEF File
<1> QED BY <1>1, <1>2, SimulationAssumption DEF Last, Filed, Own

(* Pairs of ranks that keep what they have written stay as they are.       *)
LEMMA PairStays ==
  ASSUME NEW r, NEW q, Pair(r, q), from' = from,
         \A n \in {r, q} : Held(n)' = Held(n) /\ (Own(n)' <=> Own(n)) /\ Last(n)' = Last(n)
                           /\ disk'[Held(n)][n].life = disk[Held(n)][n].life,
         /\ disk'[Held(r)][q].life = disk[Held(r)][q].life
         /\ disk'[Held(r)][q].step = disk[Held(r)][q].step
         /\ disk[Held(r)][q].complete => disk'[Held(r)][q].complete
  PROVE  Pair(r, q)'
BY DEF Pair, Filed

(* Ranks that write no file but go on, their checkpoints staying what they *)
(* are.                                                                    *)
LEMMA QuietDumps ==
  ASSUME Dumps, NEW r \in Rank, UNCHANGED <<job, disk>>,
         \A q \in Rank : q # r => pc'[q] = pc[q] /\ step'[q] = step[q] /\ rtoggle'[q] = rtoggle[q],
         pc[r] # "off",
         Careful /\ Clock(r) /\ Mine(r) =>
           /\ pc'[r] # "checkpt" /\ pc[r] # "checkpt"
           /\ Held(r)' = Held(r)
           /\ Own(r)' = Own(r) /\ Last(r)' = Last(r) => Clock(r)'
  PROVE  Dumps'
<1>1. policy' = policy /\ lives' = lives /\ from' = from /\ disk' = disk
  BY DEF job
<1>2. CASE ~Careful
  BY <1>1, <1>2 DEF Careful, Dumps
<1>3. CASE Careful
  <2>1. Clock(r) /\ Mine(r)
    BY <1>3 DEF Dumps
  <2>2. \A q \in Rank : Held(q)' = Held(q)
    BY <1>1, <1>3, <2>1 DEF Held
  <2>3. \A q \in Rank : (Own(q)' <=> Own(q)) /\ Own(q)' = Own(q)
    BY <1>1, <2>2 DEF Own
  <2>4. \A q \in Rank : Last(q)' = Last(q)
    BY <1>1, <2>2, <2>3 DEF Last
  <2>5. \A q \in Rank : pc'[q] # "off" => pc[q] # "off"
    OBVIOUS
  <2>6. Clock(r)'
    BY <1>3, <2>1, <2>3, <2>4
  <2>7. ASSUME NEW q \in Rank, q # r, pc'[q] # "off" PROVE Clock(q)'
    <3>1. Clock(q)
      BY <1>3, <2>5, <2>7 DEF Dumps
    <3> QED BY <1>1, <2>3, <2>4, <2>7, <3>1 DEF Clock
  <2>8. ASSUME NEW q \in Rank, pc'[q] # "off" PROVE Mine(q)'
    <3>1. Mine(q)
      BY <1>3, <2>5, <2>8 DEF Dumps
    <3>2. pc'[q] = "checkpt" <=> pc[q] = "checkpt"
      BY <1>3, <2>1
    <3> QED BY <1>1, <2>2, <2>3, <2>4, <3>1, <3>2 DEF Mine, Filed, Multiple
  <2>9. ASSUME NEW q \in Rank, NEW n \in Rank, pc'[q] # "off", pc'[n] # "off" PROVE Pair(q, n)'
    <3>1. Pair(q, n)
      BY <1>3, <2>5, <2>9 DEF Dumps
    <3> QED BY <1>1, <2>2, <2>3, <2>4, <3>1, PairStays
  <2>10. Saved'
    BY <1>1, <1>3 DEF Dumps, Saved, Multiple
  <2>11. Fresh'
    <3>1. \A n \in Name : Good(n)' <=> Good(n)
      BY <1>1 DEF Good, Whole, Agree
    <3> QED BY <1>1, <1>3, <2>3, <2>5, <3>1 DEF Dumps, Fresh
  <2>12. policy' = "late" => from' = None
    BY <1>1, <1>3 DEF Dumps
  <2> QED BY <2>6, <2>7, <2>8, <2>9, <2>10, <2>11, <2>12 DEF Dumps
<1> QED BY <1>2, <1>3

(* The last good checkpoint of a rank that opens its next: no rank is so   *)
(* far behind that it has not written it, for as many ranks in a row as    *)
(* there are steps in an interval, and one.                                *)
LEMMA NotFarBehind ==
  ASSUME IInv, NRank <= Interval + 1, NEW r \in Rank, NEW q \in Rank,
         pc[r] \in {"diagnostics", "dumpstart"}, pc[q] # "off"
  PROVE  /\ pc[q] = "boot" => from = None
         /\ step[r] < step[q] + Interval + (IF pc[q] = "exchange" THEN 1 ELSE 0)
<1> DEFINE x == IF pc[q] = "exchange" THEN 1 ELSE 0
<1>1. /\ step[r] \in Nat /\ step[q] \in Nat /\ sent[r] \in Nat /\ sent[q] \in Nat
      /\ Interval \in Nat \ {0} /\ NRank \in Nat
  BY SimulationAssumption DEF IInv, Types
<1>2. pc[q] = "boot" => from = None
  BY DEF IInv, Barriers
<1>3. step[r] - sent[r] = step[q] - sent[q] + x
  <2>1. Base(r) = Base(q)
    BY DEF IInv, Bases
  <2>2. pc[q] = "boot" => step[q] = 0 /\ sent[q] = 0
    BY DEF IInv, Barriers
  <2>3. Base(r) = step[r] - sent[r]
    BY <1>1 DEF Base
  <2>4. Base(q) = step[q] - sent[q] + x
    <3>1. CASE pc[q] = "boot"
      BY <1>1, <1>2, <2>2, <3>1 DEF Base
    <3>2. CASE pc[q] # "boot"
      BY <1>1, <3>2 DEF Base
    <3> QED BY <3>1, <3>2
  <2> QED BY <2>1, <2>3, <2>4
<1>4. CASE r = q
  BY <1>1, <1>2, <1>4
<1>5. CASE r # q
  <2>1. PICK m \in Neighbor(r) : m \in Rank /\ Distance(r, q) = Distance(m, q) + 1
    BY <1>5, Nearer
  <2>2. sent[r] <= sent[m] /\ sent[m] <= sent[q] + Distance(m, q)
    BY <2>1 DEF IInv, Sends, Received
  <2>3. Distance(m, q) \in Nat /\ Distance(m, q) <= Interval - 1
    <3>1. Distance(r, q) <= NRank - 1
      BY SimulationAssumption DEF Rank, Distance
    <3> QED BY <1>1, <2>1, <3>1, DistanceType
  <2>4. sent[m] \in Nat
    BY <2>1 DEF IInv, Types
  <2> QED BY <1>1, <1>2, <1>3, <2>2, <2>3, <2>4
<1> QED BY <1>4, <1>5

(* When a checkpoint is opened.                                            *)
LEMMA OpenWhen ==
  ASSUME IInv, Alive, Dumps, Careful, NRank <= Interval + 1, NEW r \in Rank, OpenCheckpt(r)
  PROVE  /\ Held(r) \in {0, 1} /\ Last(r) \in Int /\ step[r] = Last(r) + Interval /\ Multiple(step[r])
         /\ \A q \in Rank :
              /\ pc[q] # "off"
              /\ \/ Held(q) = Held(r) /\ Last(q) = Last(r) /\ pc[q] # "checkpt"
                 \/ Held(q) = 1 - Held(r) /\ Last(q) = step[r]
<1>1. /\ pc[r] \in {"diagnostics", "dumpstart"}
      /\ pc[r] = "diagnostics" => ShouldDump(step[r])
  BY DEF OpenCheckpt, AtCheckpt
<1>2. \A q \in Rank : pc[q] # "off"
  BY <1>1 DEF Alive
<1>3. \A q \in Rank : Clock(q) /\ Mine(q) /\ \A n \in Rank : Pair(q, n)
  BY <1>2 DEF Dumps
<1>4. \A q \in Rank : /\ Held(q) \in {0, 1} /\ Last(q) \in Int /\ (~AtZero => Last(q) >= 0)
                      /\ step[q] \in Nat
  <2>1. \A q \in Rank : Held(q) \in {0, 1}
    BY <1>3 DEF Mine
  <2> QED BY <2>1, LastIs, NamesAre DEF IInv, Types
<1>5. ShouldDump(step[r])
  BY <1>1, <1>3 DEF Clock
<1>6. Interval \in Nat \ {0}
  BY SimulationAssumption
<1>7. step[r] <= Last(r) + Interval /\ Last(r) < step[r]
  BY <1>1, <1>3, <1>5 DEF Clock, ShouldDump
<1>8. Multiple(step[r]) /\ Multiple(Last(r))
  BY <1>3, <1>4, <1>5, DueIsMultiple DEF ShouldDump, Mine
<1>9. step[r] = Last(r) + Interval
  BY <1>4, <1>7, <1>8, NextMultiple
<1>10. ASSUME NEW q \in Rank
       PROVE  \/ Held(q) = Held(r) /\ Last(q) = Last(r) /\ pc[q] # "checkpt"
              \/ Held(q) = 1 - Held(r) /\ Last(q) = step[r]
  <2>1. /\ pc[q] = "boot" => from = None
        /\ step[r] < step[q] + Interval + (IF pc[q] = "exchange" THEN 1 ELSE 0)
    BY <1>1, <1>2, NotFarBehind
  <2>2. Clock(q) /\ Pair(r, q)
    BY <1>3
  <2>3. Last(q) > Last(r) - Interval
    BY <1>4, <1>6, <1>9, <2>1, <2>2 DEF Clock
  <2>4. Last(q) = Last(r) => pc[q] # "checkpt"
    BY <1>4, <1>6, <1>9, <2>1, <2>2 DEF Clock
  <2>5. IF Held(r) = Held(q) THEN Last(r) = Last(q)
                             ELSE Last(r) = Last(q) + Interval \/ Last(q) = Last(r) + Interval
    BY <2>2 DEF Pair
  <2> QED BY <1>4, <1>6, <1>9, <2>3, <2>4, <2>5
<1> QED BY <1>2, <1>4, <1>8, <1>9, <1>10

(* What is opened is the other of the two names.                           *)
LEMMA OpenMoves ==
  ASSUME Types, Careful, NEW r \in Rank, Held(r) \in {0, 1}, OpenCheckpt(r)
  PROVE  /\ pc' = [pc EXCEPT ![r] = "checkpt"]
         /\ policy' = policy /\ lives' = lives /\ from' = from /\ step' = step
         /\ \A q \in Rank : Held(q)' = IF q = r THEN 1 - Held(r) ELSE Held(q)
         /\ \E f \in File :
              /\ ~f.complete /\ f.life = lives /\ f.step = step[r]
              /\ policy = "toggle" => f.rtoggle = 1 - Held(r)
              /\ \A n \in Name, q \in Rank :
                   disk'[n][q] = IF n = 1 - Held(r) /\ q = r THEN f ELSE disk[n][q]
<1> DEFINE t == IF policy = "toggle" THEN Flipped(rtoggle[r]) ELSE rtoggle[r]
           f == [complete |-> FALSE, main |-> registered[r], step |-> step[r],
                 num_step |-> num_step[r], rtoggle |-> t, life |-> lives]
<1>1. /\ AtCheckpt(r) /\ pc' = [pc EXCEPT ![r] = "checkpt"]
      /\ rtoggle' = [rtoggle EXCEPT ![r] = t] /\ rtoggle' \in [Rank -> Int]
      /\ UNCHANGED <<job, entered, sent, sim, registered, step, num_step>>
      /\ f \in File
      /\ \A n \in Name, q \in Rank :
           disk'[n][q] = IF n = TagOf(step[r], t) /\ q = r THEN f ELSE disk[n][q]
  BY OpenIs
<1>2. pc[r] \in {"diagnostics", "dumpstart"}
  BY <1>1 DEF AtCheckpt
<1>3. rtoggle[r] \in Int /\ pc \in [Rank -> Place] /\ rtoggle \in [Rank -> Int]
  BY DEF Types
<1>4. t = 1 - Held(r)
  BY <1>2, <1>3 DEF Careful, Held, Flipped
<1>5. TagOf(step[r], t) = t
  BY DEF TagOf, Careful
<1>6. ~f.complete /\ f.life = lives /\ f.step = step[r] /\ f.rtoggle = t
  OBVIOUS
<1>7. policy' = policy /\ lives' = lives /\ from' = from /\ step' = step
  BY <1>1 DEF job
<1> HIDE DEF t, f
<1>8. Held(r)' = t
  BY <1>1, <1>3, <1>7 DEF Held
<1>9. \A q \in Rank : q # r => Held(q)' = Held(q)
  BY <1>1, <1>3, <1>7 DEF Held
<1>10. \A q \in Rank : Held(q)' = IF q = r THEN 1 - Held(r) ELSE Held(q)
  BY <1>4, <1>8, <1>9
<1> QED BY <1>1, <1>4, <1>5, <1>6, <1>7, <1>10

(* When a rank opens a checkpoint in a job that has one, the one that it   *)
(* wrote last is complete at every rank.                                   *)
LEMMA LastIsGood ==
  ASSUME IInv, Alive, Dumps, Careful, NRank <= Interval + 1, NEW r \in Rank, OpenCheckpt(r),
         Filed(r), NEW q \in Rank
  PROVE  /\ disk[Held(r)][q].complete /\ disk[Held(r)][q].step = Last(r)
         /\ disk[Held(r)][q].life = disk[Held(r)][r].life
<1>1. /\ Held(r) \in {0, 1} /\ Last(r) \in Int /\ step[r] = Last(r) + Interval /\ pc[r] # "off"
      /\ pc[q] # "off" /\ Interval \in Nat \ {0}
      /\ \/ Held(q) = Held(r) /\ Last(q) = Last(r) /\ pc[q] # "checkpt"
         \/ Held(q) = 1 - Held(r) /\ Last(q) = step[r]
  BY OpenWhen, SimulationAssumption
<1>2. Mine(q) /\ Pair(r, q)
  BY <1>1 DEF Dumps
<1>3. CASE Held(q) = Held(r) /\ Last(q) = Last(r) /\ pc[q] # "checkpt"
  <2>1. Filed(q)
    BY <1>2, <1>3 DEF Pair, Filed
  <2>2. disk[Held(q)][q].complete
    BY <1>2, <1>3, <2>1 DEF Mine
  <2>3. disk[Held(q)][q].step = Last(q)
    BY <1>1, <1>3, <2>1, LastIs, NamesAre DEF IInv
  <2>4. disk[Held(r)][r].life = disk[Held(q)][q].life
    BY <1>2, <1>3 DEF Pair
  <2> QED BY <1>3, <2>2, <2>3, <2>4
<1>4. CASE Held(q) = 1 - Held(r) /\ Last(q) = step[r]
  <2>1. Last(r) < Last(q)
    BY <1>1, <1>4
  <2> QED BY <1>2, <2>1 DEF Pair
<1> QED BY <1>1, <1>3, <1>4

(* So it can be restarted from while the next is written.                  *)
LEMMA OpenRecovers ==
  ASSUME IInv, Alive, Dumps, Careful, NRank <= Interval + 1, NEW r \in Rank, OpenCheckpt(r)
  PROVE  RecoverableKept
<1>1. Held(r) \in {0, 1} /\ \A q \in Rank : pc[q] # "off"
  BY OpenWhen
<1>2. \A q \in Rank : disk'[Held(r)][q] = disk[Held(r)][q]
  BY <1>1, OpenMoves, NamesAre DEF IInv
<1>3. CASE Filed(r)
  <2> PICK n \in Name : n = Held(r)
    BY <1>1, NamesAre
  <2>1. \A q \in Rank : disk[n][q].complete /\ disk[n][q].step = Last(r)
                        /\ disk[n][q].life = disk[n][r].life
    BY <1>3, LastIsGood
  <2>2. \A q \in Rank : disk'[n][q] = disk[n][q]
    BY <1>2
  <2>3. Whole(n)' /\ Agree(n)'
    BY <2>1, <2>2 DEF Whole, Agree
  <2> QED BY <2>3 DEF RecoverableKept, Recoverable
<1>4. CASE ~Filed(r)
  <2>1. \A n \in Name : ~Good(n)
    BY <1>1, <1>4 DEF Dumps, Fresh, Filed
  <2> QED BY <2>1 DEF RecoverableKept, Recoverable, Good
<1> QED BY <1>3, <1>4

(* A rank that opens a checkpoint is one ahead of those it was level with  *)
(* and level with those that were ahead of it.                             *)
LEMMA OpenDumps ==
  ASSUME IInv, Alive, Dumps, Careful, NRank <= Interval + 1, NEW r \in Rank, OpenCheckpt(r)
  PROVE  Dumps'
<1>1. /\ Held(r) \in {0, 1} /\ Last(r) \in Int /\ step[r] = Last(r) + Interval /\ Multiple(step[r])
      /\ \A q \in Rank :
           /\ pc[q] # "off"
           /\ \/ Held(q) = Held(r) /\ Last(q) = Last(r) /\ pc[q] # "checkpt"
              \/ Held(q) = 1 - Held(r) /\ Last(q) = step[r]
  BY OpenWhen
<1> DEFINE h == Held(r)
<1>2. PICK f \in File :
        /\ ~f.complete /\ f.life = lives /\ f.step = step[r]
        /\ policy = "toggle" => f.rtoggle = 1 - h
        /\ \A n \in Name, q \in Rank : disk'[n][q] = IF n = 1 - h /\ q = r THEN f ELSE disk[n][q]
  BY <1>1, OpenMoves DEF IInv
<1>3. /\ pc' = [pc EXCEPT ![r] = "checkpt"]
      /\ policy' = policy /\ lives' = lives /\ from' = from /\ step' = step
      /\ \A q \in Rank : Held(q)' = IF q = r THEN 1 - h ELSE Held(q)
  BY <1>1, OpenMoves DEF IInv
<1>4. \A q \in Rank : Held(q) \in {0, 1} /\ Held(q) \in Name /\ 1 - h \in Name /\ h \in {0, 1} /\ h \in Name
  BY <1>1, NamesAre
<1>5. \A q \in Rank : Clock(q) /\ Mine(q) /\ \A n \in Rank : Pair(q, n)
  BY <1>1 DEF Dumps
<1>6. Interval \in Nat \ {0} /\ step[r] \in Nat /\ lives \in Nat
  BY SimulationAssumption DEF IInv, Types
<1> HIDE DEF h
<1>7. disk'[1 - h][r] = f /\ Own(r)' /\ Last(r)' = step[r] /\ Held(r)' = 1 - h
  <2>1. disk'[1 - h][r] = f /\ Held(r)' = 1 - h
    BY <1>2, <1>3, <1>4
  <2>2. Own(r)'
    BY <1>2, <1>3, <2>1 DEF Own
  <2> QED BY <1>2, <2>1, <2>2 DEF Last
<1>8. ASSUME NEW q \in Rank, q # r
      PROVE  /\ Held(q)' = Held(q) /\ (Own(q)' <=> Own(q)) /\ Last(q)' = Last(q) /\ pc'[q] = pc[q]
             /\ \A n \in Name : disk'[n][q] = disk[n][q]
  <2>1. Held(q)' = Held(q) /\ \A n \in Name : disk'[n][q] = disk[n][q]
    BY <1>2, <1>3, <1>8
  <2>2. disk'[Held(q)][q] = disk[Held(q)][q]
    BY <1>4, <2>1
  <2>3. Own(q)' <=> Own(q)
    BY <1>3, <2>1, <2>2 DEF Own
  <2>4. Last(q)' = Last(q)
    BY <1>3, <2>1, <2>2, <2>3 DEF Last
  <2>5. pc'[q] = pc[q]
    BY <1>3, <1>8 DEF IInv, Types
  <2> QED BY <2>1, <2>3, <2>4, <2>5
<1>9. pc'[r] = "checkpt"
  BY <1>3 DEF IInv, Types
<1>10. Clock(r)'
  BY <1>3, <1>6, <1>7, <1>9 DEF Clock
<1>11. ASSUME NEW q \in Rank, q # r PROVE Clock(q)'
  BY <1>3, <1>5, <1>8, <1>11 DEF Clock
<1>12. Mine(r)'
  <2>1. lives >= 1
    BY <1>5 DEF Mine
  <2>2. Multiple(Last(r)')
    BY <1>1, <1>7
  <2> QED BY <1>2, <1>3, <1>4, <1>7, <1>9, <2>1, <2>2 DEF Mine, Multiple
<1>13. ASSUME NEW q \in Rank, q # r PROVE Mine(q)'
  <2>1. disk'[Held(q)][q] = disk[Held(q)][q]
    BY <1>4, <1>8, <1>13
  <2> QED BY <1>3, <1>5, <1>8, <1>13, <2>1 DEF Mine, Filed, Multiple
<1>14. ASSUME NEW q \in Rank, NEW n \in Rank, q # r, n # r PROVE Pair(q, n)'
  <2>1. \A m \in Name : disk'[m][q] = disk[m][q] /\ disk'[m][n] = disk[m][n]
    BY <1>8, <1>14
  <2> QED BY <1>3, <1>4, <1>5, <1>8, <1>14, <2>1, PairStays
<1>15. ASSUME NEW q \in Rank, q # r PROVE Pair(r, q)'
  <2>1. Pair(r, q)
    BY <1>5
  <2>2. CASE Held(q) = h /\ Last(q) = Last(r)
    <3>1. Held(r)' # Held(q)' /\ Last(r)' = Last(q)' + Interval /\ Last(r)' > Last(q)'
      BY <1>1, <1>4, <1>6, <1>7, <1>8, <1>15, <2>2
    <3>2. ~(Last(r)' < Last(q)') /\ Last(r)' # Last(q)'
      BY <1>1, <1>6, <1>7, <1>8, <1>15, <2>2
    <3> QED BY <3>1, <3>2 DEF Pair
  <2>3. CASE Held(q) = 1 - h /\ Last(q) = step[r]
    <3>1. Held(r)' = Held(q)' /\ Last(r)' = Last(q)' /\ ~(Last(r)' < Last(q)')
      BY <1>1, <1>6, <1>7, <1>8, <1>15, <2>3
    <3>2. Own(q)
      BY <1>1, <1>6, <2>1, <2>3 DEF Pair
    <3>3. disk'[Held(r)'][r].life = lives /\ disk'[Held(q)'][q].life = lives
      BY <1>2, <1>4, <1>7, <1>8, <1>15, <3>2 DEF Own
    <3> QED BY <1>7, <1>8, <1>15, <3>1, <3>2, <3>3 DEF Pair
  <2> QED BY <1>1, <2>2, <2>3 DEF h
<1>16. ASSUME NEW q \in Rank, q # r PROVE Pair(q, r)'
  <2>1. Pair(q, r) /\ Pair(r, q)
    BY <1>5
  <2>2. CASE Held(q) = h /\ Last(q) = Last(r)
    <3>1. Held(q)' # Held(r)' /\ Last(r)' = Last(q)' + Interval /\ Last(q)' < Last(r)' /\ Last(q)' # Last(r)'
      BY <1>1, <1>4, <1>6, <1>7, <1>8, <1>16, <2>2
    <3>2. ASSUME Filed(q)' PROVE /\ disk'[Held(q)'][r].complete /\ disk'[Held(q)'][r].step = Last(q)'
                                 /\ disk'[Held(q)'][r].life = disk'[Held(q)'][q].life
      <4>1. Filed(r)
        BY <1>3, <1>8, <1>16, <2>1, <2>2, <3>2 DEF Filed, Pair
      <4>2. disk'[h][r] = disk[h][r] /\ disk'[h][q] = disk[h][q]
        BY <1>2, <1>4, <1>16
      <4>3. /\ disk[h][q].life = disk[h][r].life /\ disk[h][r].complete /\ disk[h][r].step = Last(r)
        BY <4>1, LastIsGood DEF h
      <4> QED BY <1>8, <1>16, <2>2, <4>2, <4>3
    <3> QED BY <1>7, <3>1, <3>2 DEF Pair
  <2>3. CASE Held(q) = 1 - h /\ Last(q) = step[r]
    <3>1. Held(r)' = Held(q)' /\ Last(r)' = Last(q)' /\ ~(Last(q)' < Last(r)')
      BY <1>1, <1>6, <1>7, <1>8, <1>16, <2>3
    <3>2. Own(q)
      BY <1>1, <1>6, <2>1, <2>3 DEF Pair
    <3>3. disk'[Held(r)'][r].life = lives /\ disk'[Held(q)'][q].life = lives
      BY <1>2, <1>4, <1>7, <1>8, <1>16, <3>2 DEF Own
    <3> QED BY <1>7, <1>8, <1>16, <3>1, <3>2, <3>3 DEF Pair
  <2> QED BY <1>1, <2>2, <2>3 DEF h
<1>17. Pair(r, r)'
  <2>1. ~(Last(r)' < Last(r)')
    BY <1>6, <1>7
  <2> QED BY <2>1 DEF Pair
<1>18. Saved'
  <2>1. Saved
    BY DEF Dumps
  <2>2. ASSUME NEW n \in Name, NEW q \in Rank
        PROVE  /\ disk'[n][q].life <= lives
               /\ disk'[n][q].complete => /\ disk'[n][q].life >= 1 /\ Multiple(disk'[n][q].step)
                                          /\ policy = "toggle" => disk'[n][q].rtoggle = n
    <3>1. CASE n = 1 - h /\ q = r
      BY <1>2, <1>6, <3>1
    <3>2. CASE ~(n = 1 - h /\ q = r)
      <4>1. disk'[n][q] = disk[n][q]
        BY <1>2, <3>2
      <4> QED BY <2>1, <4>1 DEF Saved
    <3> QED BY <3>1, <3>2
  <2> QED BY <1>3, <2>2 DEF Saved, Multiple
<1>19. Fresh'
  <2>1. SUFFICES ASSUME from = None, NEW q \in Rank, ~Own(q)', NEW n \in Name, Good(n)' PROVE FALSE
    BY <1>3 DEF Fresh
  <2>2. q # r /\ ~Own(q) /\ pc[q] # "off"
    BY <1>1, <1>7, <1>8, <2>1
  <2>3. ~Good(n)
    BY <2>1, <2>2 DEF Dumps, Fresh
  <2>4. disk'[n][r].complete
    BY <2>1 DEF Good, Whole
  <2>5. \A m \in Rank : disk'[n][m] = disk[n][m]
    BY <1>2, <2>4
  <2> QED BY <2>1, <2>3, <2>5 DEF Good, Whole, Agree
<1>20. policy' = "late" => from' = None
  BY <1>3 DEF Dumps
<1> QED BY <1>10, <1>11, <1>12, <1>13, <1>14, <1>15, <1>16, <1>17, <1>18, <1>19, <1>20 DEF Dumps

(* A rank that closes its checkpoint completes a file of this job, and     *)
(* flips its toggle if it does so late.                                    *)
LEMMA CloseDumps ==
  ASSUME Types, Dumps, Careful, NEW r \in Rank, CloseCheckpt(r)
  PROVE  Dumps'
<1> DEFINE h == Held(r)
<1>1. /\ pc[r] = "checkpt" /\ pc' = [pc EXCEPT ![r] = After(r)] /\ After(r) \in {"advance", "initialized"}
      /\ rtoggle' = IF policy = "late" THEN [rtoggle EXCEPT ![r] = Flipped(@)] ELSE rtoggle
      /\ policy' = policy /\ lives' = lives /\ from' = from /\ step' = step
      /\ \A n \in Name, q \in Rank :
           disk'[n][q] = IF n = TagOf(step[r], rtoggle[r]) /\ q = r
                         THEN [disk[n][q] EXCEPT !.complete = TRUE] ELSE disk[n][q]
  BY CloseIs DEF After, job
<1>2. \A q \in Rank : pc[q] # "off" => Clock(q) /\ Mine(q) /\ \A n \in Rank : pc[n] # "off" => Pair(q, n)
  BY DEF Dumps
<1>3. /\ pc \in [Rank -> Place] /\ rtoggle \in [Rank -> Int] /\ disk \in [Name -> [Rank -> File]]
      /\ step[r] \in Nat /\ lives \in Nat /\ Interval \in Nat \ {0}
  BY SimulationAssumption DEF Types
<1>4. h = rtoggle[r] /\ TagOf(step[r], rtoggle[r]) = h
  BY <1>1 DEF Held, TagOf, Careful
<1>5. Clock(r) /\ Mine(r) /\ Own(r) /\ step[r] = Last(r)
  BY <1>1, <1>2 DEF Clock
<1>6. h \in {0, 1} /\ h \in Name
  BY <1>5, NamesAre DEF Mine
<1>7. \A q \in Rank : Held(q)' = Held(q)
  <2>1. Held(r)' = Held(r)
    BY <1>1, <1>3, <1>4 DEF Held, Flipped
  <2>2. \A q \in Rank : q # r => Held(q)' = Held(q)
    BY <1>1, <1>3 DEF Held
  <2> QED BY <2>1, <2>2
<1>8. disk[h][r].life = lives /\ Own(r) /\ disk[h][r].step = step[r]
  BY <1>5 DEF Own, Last
<1>9. policy = "toggle" => disk[h][r].rtoggle = h
  BY <1>1, <1>5 DEF Mine
<1> HIDE DEF h
<1>10. \A n \in Name, q \in Rank :
         /\ disk[n][q] \in File
         /\ ~(n = h /\ q = r) => disk'[n][q] = disk[n][q]
         /\ disk'[n][q].life = disk[n][q].life /\ disk'[n][q].step = disk[n][q].step
         /\ disk'[n][q].rtoggle = disk[n][q].rtoggle
         /\ disk[n][q].complete => disk'[n][q].complete
  <2>1. \A g \in File : LET e == [g EXCEPT !.complete = TRUE]
                        IN e.complete /\ e.life = g.life /\ e.step = g.step /\ e.rtoggle = g.rtoggle
    BY DEF File
  <2>2. ASSUME NEW n \in Name, NEW q \in Rank
        PROVE  /\ disk[n][q] \in File
               /\ ~(n = h /\ q = r) => disk'[n][q] = disk[n][q]
               /\ disk'[n][q].life = disk[n][q].life /\ disk'[n][q].step = disk[n][q].step
               /\ disk'[n][q].rtoggle = disk[n][q].rtoggle
               /\ disk[n][q].complete => disk'[n][q].complete
    <3>1. disk[n][q] \in File
      BY <1>3
    <3>2. CASE n = h /\ q = r
      <4>1. disk'[n][q] = [disk[n][q] EXCEPT !.complete = TRUE]
        BY <1>1, <1>4, <3>2
      <4> QED BY <2>1, <3>1, <3>2, <4>1
    <3>3. CASE ~(n = h /\ q = r)
      <4>1. disk'[n][q] = disk[n][q]
        BY <1>1, <1>4, <3>3
      <4> QED BY <3>1, <3>3, <4>1
    <3> QED BY <3>2, <3>3
  <2> QED BY <2>2
<1>11. disk'[h][r].complete
  <2>1. disk[h][r] \in File
    BY <1>6, <1>10
  <2> QED BY <1>1, <1>4, <1>6, <2>1 DEF File
<1>12. \A q \in Rank : pc[q] # "off" => Held(q) \in Name
  BY <1>2, NamesAre DEF Mine
<1>13. \A q \in Rank : pc[q] # "off" => (Own(q)' <=> Own(q)) /\ Last(q)' = Last(q)
  <2>1. \A q \in Rank : pc[q] # "off" => (Own(q)' <=> Own(q))
    BY <1>1, <1>7, <1>10, <1>12 DEF Own
  <2> QED BY <1>1, <1>7, <1>10, <1>12, <2>1 DEF Last
<1>14. \A q \in Rank : q # r => pc'[q] = pc[q]
  BY <1>1, <1>3
<1>15. pc'[r] = After(r) /\ pc[r] # "off"
  BY <1>1, <1>3
<1>16. Clock(r)'
  BY <1>1, <1>3, <1>5, <1>13, <1>15 DEF Clock
<1>17. ASSUME NEW q \in Rank, q # r, pc[q] # "off" PROVE Clock(q)'
  BY <1>1, <1>2, <1>13, <1>14, <1>17 DEF Clock
<1>18. Mine(r)'
  <2>1. disk'[Held(r)'][r].complete
    BY <1>7, <1>11 DEF h
  <2>2. Multiple(Last(r)') /\ Held(r)' \in {0, 1} /\ lives' >= 1
    BY <1>1, <1>5, <1>7, <1>13, <1>15 DEF Mine
  <2>3. Own(r)' /\ pc'[r] # "checkpt"
    BY <1>1, <1>5, <1>13, <1>15
  <2> QED BY <2>1, <2>2, <2>3 DEF Mine, Multiple
<1>19. ASSUME NEW q \in Rank, q # r, pc[q] # "off" PROVE Mine(q)'
  <2>1. Mine(q)
    BY <1>2, <1>19
  <2>2. \A n \in Name : disk'[n][q] = disk[n][q]
    BY <1>10, <1>19
  <2>3. disk'[Held(q)][q] = disk[Held(q)][q]
    BY <1>12, <1>19, <2>2
  <2> QED BY <1>1, <1>7, <1>13, <1>14, <1>19, <2>1, <2>2, <2>3 DEF Mine, Filed, Multiple
<1>20. ASSUME NEW q \in Rank, NEW n \in Rank, pc[q] # "off", pc[n] # "off" PROVE Pair(q, n)'
  <2>1. Pair(q, n)
    BY <1>2, <1>20
  <2>2. Held(q) \in Name /\ Held(n) \in Name
    BY <1>12, <1>20
  <2> QED BY <1>1, <1>7, <1>10, <1>13, <1>20, <2>1, <2>2, PairStays
<1>21. Saved'
  <2>1. Saved
    BY DEF Dumps
  <2>2. lives >= 1 /\ Multiple(step[r])
    BY <1>5 DEF Mine
  <2>3. ASSUME NEW n \in Name, NEW q \in Rank
        PROVE  /\ disk'[n][q].life <= lives
               /\ disk'[n][q].complete => /\ disk'[n][q].life >= 1 /\ Multiple(disk'[n][q].step)
                                          /\ policy = "toggle" => disk'[n][q].rtoggle = n
    <3>1. CASE n = h /\ q = r
      BY <1>3, <1>8, <1>9, <1>10, <2>2, <3>1
    <3>2. CASE ~(n = h /\ q = r)
      <4>1. disk'[n][q] = disk[n][q]
        BY <1>10, <3>2
      <4> QED BY <2>1, <4>1 DEF Saved
    <3> QED BY <3>1, <3>2
  <2> QED BY <1>1, <2>3 DEF Saved, Multiple
<1>22. Fresh'
  <2>1. SUFFICES ASSUME from = None, NEW q \in Rank, pc'[q] # "off", ~Own(q)', NEW n \in Name, Good(n)'
                 PROVE  FALSE
    BY <1>1 DEF Fresh
  <2>2. pc[q] # "off" /\ ~Own(q)
    BY <1>13, <1>14, <1>15, <2>1
  <2>3. q # r
    BY <1>8, <2>2
  <2>4. ~Good(n)
    BY <2>1, <2>2 DEF Dumps, Fresh
  <2>5. n = h
    <3>1. ASSUME n # h PROVE FALSE
      <4>1. \A m \in Rank : disk'[n][m] = disk[n][m]
        BY <1>10, <3>1
      <4> QED BY <2>1, <2>4, <4>1 DEF Good, Whole, Agree
    <3> QED BY <3>1
  <2>6. disk[n][q].life < lives /\ disk[n][q].life \in Nat
    BY <1>2, <1>10, <2>2 DEF Mine, File
  <2>7. disk'[n][q].life = disk'[n][r].life
    BY <2>1 DEF Good, Agree
  <2> QED BY <1>3, <1>8, <1>10, <2>5, <2>6, <2>7
<1>23. policy' = "late" => from' = None
  BY <1>1 DEF Dumps
<1> QED BY <1>14, <1>15, <1>16, <1>17, <1>18, <1>19, <1>20, <1>21, <1>22, <1>23 DEF Dumps

(* A job is started from a good checkpoint, or from none when there is none.*)
LEMMA LaunchDumps ==
  ASSUME Types, Bounds, Dumps, Start
  PROVE  Dumps'
<1>1. PICK n \in Name \cup {None}, m \in ModSteps \cup {None} :
        Launch(n, m) /\ ((n = None /\ \A k \in Name : ~Usable(k)) \/ (n \in Name /\ Usable(n)))
  BY DEF Start
<1>2. /\ from' = n /\ lives' = lives + 1 /\ policy' = policy /\ disk' = disk /\ lives \in Nat
      /\ \A q \in Rank : pc'[q] = "boot" /\ step'[q] = 0 /\ rtoggle'[q] = 0
      /\ disk \in [Name -> [Rank -> File]] /\ Interval \in Nat \ {0}
  BY <1>1, SimulationAssumption DEF Launch, Types
<1> SUFFICES ASSUME Careful' PROVE Dumps'
  BY DEF Dumps
<1>3. Careful /\ (policy = "late" => lives = 0)
  BY <1>2 DEF Careful
<1>4. Saved
  BY <1>3 DEF Dumps
<1>5. policy = "late" => n = None
  <2>1. SUFFICES ASSUME policy = "late", n \in Name, Usable(n) PROVE FALSE
    BY <1>1
  <2>2. 0 \in Rank
    BY SimulationAssumption DEF Rank
  <2>3. disk[n][0].complete /\ disk[n][0] \in File
    BY <1>2, <2>1, <2>2 DEF Usable, Whole
  <2> QED BY <1>3, <1>4, <2>1, <2>2, <2>3 DEF Saved, File
<1>6. n \in Name => /\ n \in {0, 1} /\ n # None
                    /\ \A q \in Rank : /\ disk[n][q].complete /\ disk[n][q] \in File
                                       /\ Multiple(disk[n][q].step)
                    /\ \A q, k \in Rank : /\ disk[n][q].step = disk[n][k].step
                                          /\ disk[n][q].life = disk[n][k].life
  <2>1. SUFFICES ASSUME n \in Name, Usable(n) PROVE
                    /\ n \in {0, 1} /\ n # None
                    /\ \A q \in Rank : /\ disk[n][q].complete /\ disk[n][q] \in File
                                       /\ Multiple(disk[n][q].step)
                    /\ \A q, k \in Rank : /\ disk[n][q].step = disk[n][k].step
                                          /\ disk[n][q].life = disk[n][k].life
    BY <1>1, NamesAre DEF None
  <2>2. policy = "toggle"
    BY <1>3, <1>5, <2>1, NamesAre DEF Careful, None
  <2>3. \A q \in Rank : disk[n][q].complete /\ disk[n][q] \in File /\ disk[n][q].rtoggle = n
                        /\ Multiple(disk[n][q].step)
    BY <1>2, <1>4, <2>1, <2>2 DEF Usable, Whole, Saved
  <2>4. 0 \in Rank
    BY SimulationAssumption DEF Rank
  <2>5. n \in {0, 1}
    BY <2>1, <2>3, <2>4 DEF Bounds, FileBounds
  <2> QED BY <2>1, <2>2, <2>3, <2>5 DEF Usable, Agree, None
<1>7. \A q \in Rank : Held(q)' \in {0, 1} /\ (n = None => Held(q)' = IF policy = "late" THEN 1 ELSE 0)
                      /\ (n # None => Held(q)' = n)
  BY <1>1, <1>2, <1>6 DEF Held
<1>8. \A q \in Rank : ~Own(q)' /\ \A k \in Name : disk'[k][q].life < lives'
  <2>1. \A q \in Rank, k \in Name : disk[k][q].life <= lives /\ disk[k][q] \in File
    BY <1>2, <1>4 DEF Saved
  <2>2. \A q \in Rank, k \in Name : disk[k][q].life < lives + 1
    BY <1>2, <2>1 DEF File
  <2>3. \A q \in Rank : Held(q)' \in Name
    BY <1>7, NamesAre
  <2>4. \A q \in Rank : disk'[Held(q)'][q].life < lives'
    BY <1>2, <2>2, <2>3
  <2>5. \A q \in Rank : disk'[Held(q)'][q].life \in Nat
    BY <1>2, <2>1, <2>3 DEF File
  <2> QED BY <1>2, <2>2, <2>4, <2>5 DEF Own
<1>9. \A q \in Rank : /\ n = None => Last(q)' = IF AtZero THEN -Interval ELSE 0
                      /\ n # None => Last(q)' = disk[n][q].step
  BY <1>2, <1>7, <1>8 DEF Last
<1>10. \A q \in Rank : Multiple(Last(q)')
  BY <1>1, <1>6, <1>9, Multiples
<1>11. ASSUME NEW q \in Rank PROVE Clock(q)'
  <2>1. CASE n = None
    <3>1. Last(q)' = IF AtZero THEN -Interval ELSE 0
      BY <1>9, <2>1
    <3> QED BY <1>2, <3>1 DEF Clock
  <2>2. CASE n # None
    BY <1>2, <2>2 DEF Clock
  <2> QED BY <2>1, <2>2
<1>12. ASSUME NEW q \in Rank PROVE Mine(q)'
  <2>1. Filed(q)' => disk'[Held(q)'][q].complete
    BY <1>1, <1>2, <1>6, <1>7, <1>8 DEF Filed
  <2>2. pc'[q] # "checkpt" /\ lives' >= 1
    BY <1>2
  <2> QED BY <1>7, <1>8, <1>10, <2>1, <2>2 DEF Mine, Multiple
<1>13. ASSUME NEW q \in Rank, NEW k \in Rank PROVE Pair(q, k)'
  <2>1. Held(q)' = Held(k)' /\ Last(q)' = Last(k)' /\ ~Own(q)' /\ ~Own(k)'
    BY <1>1, <1>6, <1>7, <1>8, <1>9
  <2>2. Last(q)' \in Int
    <3>1. n \in Name => disk[n][q].step \in Nat
      BY <1>6 DEF File
    <3> QED BY <1>1, <1>2, <1>9, <3>1
  <2>3. ~(Last(q)' < Last(k)')
    BY <2>1, <2>2
  <2>4. Filed(q)' => disk'[Held(q)'][q].life = disk'[Held(k)'][k].life
    <3>1. Filed(q)' => n \in Name
      BY <1>1, <1>2, <2>1 DEF Filed
    <3> QED BY <1>2, <1>6, <1>7, <3>1
  <2> QED BY <2>1, <2>3, <2>4 DEF Pair
<1>14. Saved'
  <2>1. \A k \in Name, q \in Rank : disk[k][q] \in File
    BY <1>2
  <2>2. \A k \in Name, q \in Rank : disk[k][q].life <= lives + 1
    BY <1>2, <1>4, <2>1 DEF Saved, File
  <2> QED BY <1>2, <1>4, <2>2 DEF Saved, Multiple
<1>15. Fresh'
  <2>1. n = None => \A k \in Name : ~Good(k)
    <3>1. ASSUME n = None, NEW k \in Name PROVE ~Good(k)
      <4>1. ~Usable(k)
        BY <1>1, <3>1, NamesAre DEF None
      <4> QED BY <4>1 DEF Usable, Good
    <3> QED BY <3>1
  <2>2. \A k \in Name : Good(k)' <=> Good(k)
    BY <1>2 DEF Good, Whole, Agree
  <2> QED BY <1>2, <2>1, <2>2 DEF Fresh
<1>16. policy' = "late" => from' = None
  BY <1>2, <1>5
<1> QED BY <1>11, <1>12, <1>13, <1>14, <1>15, <1>16 DEF Dumps

(* A crash leaves the files as they are.                                   *)
LEMMA CrashDumps ==
  ASSUME Dumps, Crash
  PROVE  Dumps'
<1>1. /\ policy' = policy /\ lives' = lives /\ from' = from /\ disk' = disk
      /\ \A q \in Rank : pc'[q] = "off"
  BY DEF Crash, job
<1>2. Careful' => Careful
  BY <1>1 DEF Careful
<1>3. Careful => Saved'
  BY <1>1 DEF Dumps, Saved, Multiple
<1>4. Fresh'
  BY <1>1 DEF Fresh
<1>5. Careful => (policy' = "late" => from' = None)
  BY <1>1 DEF Dumps
<1> QED BY <1>1, <1>2, <1>3, <1>4, <1>5 DEF Dumps

(* A deck that is careful after a step of a rank was so before.            *)
LEMMA CarefulStays ==
  ASSUME policy' = policy, lives' = lives
  PROVE  Careful' <=> Careful
BY DEF Careful

(* Every step keeps what is said of the checkpoints.                       *)
LEMMA DumpsKept ==
  ASSUME IInv, Bounds, Alive, Dumps, NRank <= Interval + 1, [Next]_vars
  PROVE  Dumps'
<1>1. CASE Start
  BY <1>1, LaunchDumps DEF IInv
<1>2. CASE Crash
  BY <1>2, CrashDumps
<1>3. ASSUME NEW r \in Rank, Main(r) PROVE Dumps'
  <2>1. /\ pc \in [Rank -> Place] /\ step \in [Rank -> Nat] /\ rtoggle \in [Rank -> Int]
        /\ step[r] \in Nat /\ Interval \in Nat \ {0}
    BY SimulationAssumption DEF IInv, Types
  <2>2. Mine(r) => Last(r) \in Int /\ (~AtZero => Last(r) >= 0)
    BY LastIs, NamesAre DEF Mine, IInv
  <2> USE DEF Goto, Enter, job, state
  <2>3. CASE Restore(r)
    <3>1. /\ UNCHANGED <<job, disk>> /\ pc[r] = "boot" /\ pc'[r] = "restored" /\ from # None
          /\ rtoggle'[r] = disk[from][r].rtoggle /\ step'[r] = disk[from][r].step
          /\ \A q \in Rank : q # r => pc'[q] = pc[q] /\ step'[q] = step[q] /\ rtoggle'[q] = rtoggle[q]
      BY <2>1, <2>3 DEF Restore
    <3>2. ASSUME Careful, Clock(r), Mine(r)
          PROVE  /\ Held(r)' = Held(r)
                 /\ Own(r)' = Own(r) /\ Last(r)' = Last(r) => Clock(r)'
      <4>1. policy = "toggle" /\ from \in Name
        BY <3>1, <3>2 DEF Careful, Dumps, IInv, Types
      <4>2. Held(r) = from /\ Filed(r)
        BY <3>1 DEF Held, Filed
      <4>3. disk[from][r].complete
        BY <3>1, <3>2, <4>2 DEF Mine
      <4>4. disk[from][r].rtoggle = from
        BY <3>2, <4>1, <4>3 DEF Dumps, Saved
      <4>5. Held(r)' = from
        BY <3>1, <4>1, <4>4 DEF Held
      <4>6. Last(r) = step'[r]
        BY <3>1, <4>2 DEF Last
      <4>7. Last(r) \in Int /\ Last(r) < Last(r) + Interval
        BY <2>1, <2>2, <3>2
      <4> QED BY <3>1, <4>2, <4>5, <4>6, <4>7 DEF Clock
    <3> QED BY <3>1, <3>2, QuietDumps
  <2>4. CASE Reanimate(r)
    <3>1. /\ UNCHANGED <<job, disk>> /\ pc[r] # "off" /\ pc[r] # "checkpt" /\ pc'[r] # "checkpt"
          /\ rtoggle' = rtoggle
          /\ \A q \in Rank : q # r => pc'[q] = pc[q] /\ step'[q] = step[q]
      BY <2>1, <2>4 DEF Reanimate
    <3>2. Held(r)' = Held(r)
      BY <2>1, <2>4, <3>1 DEF Reanimate, Held
    <3>3. ASSUME Clock(r), Mine(r), Own(r)' = Own(r), Last(r)' = Last(r) PROVE Clock(r)'
      BY <2>1, <2>2, <2>4, <3>1, <3>3 DEF Reanimate, Clock
    <3> QED BY <3>1, <3>2, <3>3, QuietDumps
  <2>5. CASE Modify(r)
    <3>1. /\ UNCHANGED <<job, disk>> /\ pc[r] # "off" /\ pc[r] # "checkpt" /\ pc'[r] # "checkpt"
          /\ rtoggle' = rtoggle
          /\ \A q \in Rank : q # r => pc'[q] = pc[q] /\ step'[q] = step[q]
      BY <2>1, <2>5 DEF Modify
    <3>2. Held(r)' = Held(r)
      BY <2>1, <2>5, <3>1 DEF Modify, Held
    <3>3. ASSUME Clock(r), Mine(r), Own(r)' = Own(r), Last(r)' = Last(r) PROVE Clock(r)'
      BY <2>1, <2>2, <2>5, <3>1, <3>3 DEF Modify, Clock
    <3> QED BY <3>1, <3>2, <3>3, QuietDumps
  <2>6. CASE Initialize(r)
    <3>1. /\ UNCHANGED <<job, disk>> /\ pc[r] # "off" /\ pc[r] # "checkpt" /\ pc'[r] # "checkpt"
          /\ rtoggle' = rtoggle
          /\ \A q \in Rank : q # r => pc'[q] = pc[q] /\ step'[q] = step[q]
      BY <2>1, <2>6 DEF Initialize
    <3>2. Held(r)' = Held(r)
      BY <2>1, <2>6, <3>1 DEF Initialize, Held
    <3>3. ASSUME Clock(r), Mine(r), Own(r)' = Own(r), Last(r)' = Last(r) PROVE Clock(r)'
      BY <2>1, <2>2, <2>6, <3>1, <3>3 DEF Initialize, Clock
    <3> QED BY <3>1, <3>2, <3>3, QuietDumps
  <2>7. CASE InitialDiagnostics(r)
    <3>1. /\ UNCHANGED <<job, disk>> /\ pc[r] # "off" /\ pc[r] # "checkpt" /\ pc'[r] # "checkpt"
          /\ rtoggle' = rtoggle
          /\ \A q \in Rank : q # r => pc'[q] = pc[q] /\ step'[q] = step[q]
      BY <2>1, <2>7 DEF InitialDiagnostics
    <3>2. Held(r)' = Held(r)
      BY <2>1, <2>7, <3>1 DEF InitialDiagnostics, Held
    <3>3. ASSUME Clock(r), Mine(r), Own(r)' = Own(r), Last(r)' = Last(r) PROVE Clock(r)'
      BY <2>1, <2>2, <2>7, <3>1, <3>3 DEF InitialDiagnostics, Clock
    <3> QED BY <3>1, <3>2, <3>3, QuietDumps
  <2>8. CASE EndInitialize(r)
    <3>1. /\ UNCHANGED <<job, disk>> /\ pc[r] # "off" /\ pc[r] # "checkpt" /\ pc'[r] # "checkpt"
          /\ rtoggle' = rtoggle
          /\ \A q \in Rank : q # r => pc'[q] = pc[q] /\ step'[q] = step[q]
      BY <2>1, <2>8 DEF EndInitialize
    <3>2. Held(r)' = Held(r)
      BY <2>1, <2>8, <3>1 DEF EndInitialize, Held
    <3>3. ASSUME Clock(r), Mine(r), Own(r)' = Own(r), Last(r)' = Last(r) PROVE Clock(r)'
      BY <2>1, <2>2, <2>8, <3>1, <3>3 DEF EndInitialize, Clock
    <3> QED BY <3>1, <3>2, <3>3, QuietDumps
  <2>9. CASE BeginStep(r)
    <3>1. /\ UNCHANGED <<job, disk>> /\ pc[r] # "off" /\ pc[r] # "checkpt" /\ pc'[r] # "checkpt"
          /\ rtoggle' = rtoggle
          /\ \A q \in Rank : q # r => pc'[q] = pc[q] /\ step'[q] = step[q]
      BY <2>1, <2>9 DEF BeginStep
    <3>2. Held(r)' = Held(r)
      BY <2>1, <2>9, <3>1 DEF BeginStep, Held
    <3>3. ASSUME Clock(r), Mine(r), Own(r)' = Own(r), Last(r)' = Last(r) PROVE Clock(r)'
      BY <2>1, <2>2, <2>9, <3>1, <3>3 DEF BeginStep, Clock
    <3> QED BY <3>1, <3>2, <3>3, QuietDumps
  <2>10. CASE EndStep(r)
    <3>1. /\ UNCHANGED <<job, disk>> /\ pc[r] # "off" /\ pc[r] # "checkpt" /\ pc'[r] # "checkpt"
          /\ rtoggle' = rtoggle
          /\ \A q \in Rank : q # r => pc'[q] = pc[q] /\ step'[q] = step[q]
      BY <2>1, <2>10 DEF EndStep
    <3>2. Held(r)' = Held(r)
      BY <2>1, <2>10, <3>1 DEF EndStep, Held
    <3>3. ASSUME Clock(r), Mine(r), Own(r)' = Own(r), Last(r)' = Last(r) PROVE Clock(r)'
      BY <2>1, <2>2, <2>10, <3>1, <3>3 DEF EndStep, Clock
    <3> QED BY <3>1, <3>2, <3>3, QuietDumps
  <2>11. CASE NoCheckpt(r)
    <3>1. /\ UNCHANGED <<job, disk>> /\ pc[r] # "off" /\ pc[r] # "checkpt" /\ pc'[r] # "checkpt"
          /\ rtoggle' = rtoggle
          /\ \A q \in Rank : q # r => pc'[q] = pc[q] /\ step'[q] = step[q]
      BY <2>1, <2>11 DEF NoCheckpt, After
    <3>2. Held(r)' = Held(r)
      BY <2>1, <2>11, <3>1 DEF NoCheckpt, After, Held
    <3>3. ASSUME Clock(r), Mine(r), Own(r)' = Own(r), Last(r)' = Last(r) PROVE Clock(r)'
      <4>1. Last(r) \in Int /\ (~AtZero => Last(r) >= 0) /\ Multiple(Last(r))
        BY <2>2, <3>3 DEF Mine
      <4>2. step[r] # Last(r) + Interval
        <5>1. SUFFICES ASSUME step[r] = Last(r) + Interval PROVE FALSE
          OBVIOUS
        <5>2. Multiple(step[r])
          BY <4>1, <5>1, Multiples
        <5>3. step[r] % Interval = 0
          BY <2>1, <5>2, MultipleIsDue
        <5>4. step[r] = 0 => AtZero
          BY <2>1, <4>1, <5>1
        <5> QED BY <2>11, <5>3, <5>4 DEF NoCheckpt, ShouldDump
      <4> QED BY <2>1, <2>11, <3>1, <3>3, <4>1, <4>2 DEF NoCheckpt, After, Clock
    <3> QED BY <3>1, <3>2, <3>3, QuietDumps
  <2>12. CASE DumpStart(r)
    <3>1. /\ UNCHANGED <<job, disk>> /\ pc[r] # "off" /\ pc[r] # "checkpt" /\ pc'[r] # "checkpt"
          /\ rtoggle' = rtoggle
          /\ \A q \in Rank : q # r => pc'[q] = pc[q] /\ step'[q] = step[q]
      BY <2>1, <2>12 DEF DumpStart
    <3>2. Held(r)' = Held(r)
      BY <2>1, <2>12, <3>1 DEF DumpStart, Held
    <3>3. ASSUME Clock(r), Mine(r), Own(r)' = Own(r), Last(r)' = Last(r) PROVE Clock(r)'
      BY <2>1, <2>2, <2>12, <3>1, <3>3 DEF DumpStart, Clock
    <3> QED BY <3>1, <3>2, <3>3, QuietDumps
  <2>13. CASE OpenCheckpt(r)
    BY <2>13, OpenDumps, CarefulStays DEF Dumps, OpenCheckpt
  <2>14. CASE CloseCheckpt(r)
    BY <2>14, CloseDumps, CarefulStays DEF Dumps, CloseCheckpt, IInv
  <2>15. CASE CleanUp(r)
    <3>1. /\ UNCHANGED <<job, disk>> /\ pc[r] # "off" /\ pc[r] # "checkpt" /\ pc'[r] # "checkpt"
          /\ rtoggle' = rtoggle
          /\ \A q \in Rank : q # r => pc'[q] = pc[q] /\ step'[q] = step[q]
      BY <2>1, <2>15 DEF CleanUp
    <3>2. Held(r)' = Held(r)
      BY <2>1, <2>15, <3>1 DEF CleanUp, Held
    <3>3. ASSUME Clock(r), Mine(r), Own(r)' = Own(r), Last(r)' = Last(r) PROVE Clock(r)'
      BY <2>1, <2>2, <2>15, <3>1, <3>3 DEF CleanUp, Clock
    <3> QED BY <3>1, <3>2, <3>3, QuietDumps
  <2>16. CASE Halt(r)
    <3>1. /\ UNCHANGED <<job, disk>> /\ pc[r] # "off" /\ pc[r] # "checkpt" /\ pc'[r] # "checkpt"
          /\ rtoggle' = rtoggle
          /\ \A q \in Rank : q # r => pc'[q] = pc[q] /\ step'[q] = step[q]
      BY <2>1, <2>16 DEF Halt
    <3>2. Held(r)' = Held(r)
      BY <2>1, <2>16, <3>1 DEF Halt, Held
    <3>3. ASSUME Clock(r), Mine(r), Own(r)' = Own(r), Last(r)' = Last(r) PROVE Clock(r)'
      BY <2>1, <2>2, <2>16, <3>1, <3>3 DEF Halt, Clock
    <3> QED BY <3>1, <3>2, <3>3, QuietDumps
  <2> QED BY <1>3, <2>3, <2>4, <2>5, <2>6, <2>7, <2>8, <2>9,
             <2>10, <2>11, <2>12, <2>13, <2>14, <2>15, <2>16 DEF Main
<1>4. CASE UNCHANGED vars
  <2>1. /\ policy' = policy /\ lives' = lives /\ from' = from
        /\ UNCHANGED <<pc, step, rtoggle, disk>>
    BY <1>4 DEF vars, job, state
  <2>2. \A q \in Rank : Held(q)' = Held(q)
    BY <2>1 DEF Held
  <2>3. \A q \in Rank : (Own(q)' <=> Own(q))
    BY <2>1, <2>2 DEF Own
  <2>4. \A q \in Rank : Last(q)' = Last(q)
    BY <2>1, <2>2, <2>3 DEF Last
  <2>5. \A q \in Rank : (Clock(q)' <=> Clock(q)) /\ (Mine(q)' <=> Mine(q))
    BY <2>1, <2>2, <2>3, <2>4 DEF Clock, Mine, Filed, Multiple
  <2>6. \A q, n \in Rank : Pair(q, n) => Pair(q, n)'
    BY <2>1, <2>2, <2>3, <2>4, PairStays
  <2>7. (Saved => Saved') /\ (Careful' => Careful)
    BY <2>1 DEF Saved, Multiple, Careful
  <2>8. Fresh => Fresh'
    BY <2>1, <2>3 DEF Fresh, Good, Whole, Agree
  <2> QED BY <2>1, <2>5, <2>6, <2>7, <2>8 DEF Dumps
<1> QED BY <1>1, <1>2, <1>3, <1>4 DEF Next

(* The ranks of a job are alive together.                                  *)
LEMMA AlwaysAlive == Spec => []Alive
<1>1. Init => Alive
  BY DEF Init, Alive
<1>2. IInv /\ Alive /\ [Next]_vars => Alive'
  <2> SUFFICES ASSUME IInv, Alive, [Next]_vars PROVE Alive'
    OBVIOUS
  <2>1. CASE Start
    BY <2>1 DEF Start, Launch, Alive
  <2>2. CASE Crash
    BY <2>2 DEF Crash, Alive
  <2>3. ASSUME NEW r \in Rank, Main(r) PROVE Alive'
    <3>1. pc[r] # "off" /\ \E label \in Place \ {"off"} : pc' = [pc EXCEPT ![r] = label]
      BY <2>3 DEF Main, Restore, Reanimate, Modify, Initialize, InitialDiagnostics, EndInitialize,
                  BeginStep, EndStep, NoCheckpt, DumpStart, OpenCheckpt, AtCheckpt, CloseCheckpt,
                  CleanUp, Halt, After, Goto, Place
    <3>2. pc \in [Rank -> Place]
      BY DEF IInv, Types
    <3> QED BY <3>1, <3>2 DEF Alive
  <2>4. CASE UNCHANGED vars
    BY <2>4 DEF vars, Alive
  <2> QED BY <2>1, <2>2, <2>3, <2>4 DEF Next
<1> QED BY <1>1, <1>2, StepsCounted, PTL DEF Spec

(* Once there is a checkpoint to restart from there is always one, for any *)
(* number of steps and of jobs that crash and are started again, if there  *)
(* are as many steps between checkpoints as faces between any two ranks: a *)
(* rank far behind the one that opens its next checkpoint would still have *)
(* the last one to write (and TLC finds the only good one overwritten).    *)
THEOREM AlwaysRecoverable ==
  ASSUME NRank <= Interval + 1
  PROVE  Spec => RecoverableByToggle
<1>1. Init => Dumps
  BY SimulationAssumption DEF Init, Dumps, Saved, Fresh, Lost
<1>2. IInv /\ Bounds /\ Alive /\ Dumps /\ [Next]_vars => Dumps'
  BY DumpsKept
<1>3. IInv /\ Alive /\ Dumps /\ [Next]_vars
        => [policy = "toggle" \/ (policy = "late" /\ lives = 1) => RecoverableKept]_vars
  <2> SUFFICES ASSUME IInv, Alive, Dumps, [Next]_vars,
                      policy = "toggle" \/ (policy = "late" /\ lives = 1), vars' # vars
               PROVE  RecoverableKept
    OBVIOUS
  <2>1. Careful
    BY DEF Careful
  <2>2. CASE disk' = disk
    BY <2>2 DEF RecoverableKept, Recoverable, Whole, Agree
  <2>3. CASE \E r \in Rank : OpenCheckpt(r)
    BY <2>1, <2>3, OpenRecovers
  <2>4. CASE \E r \in Rank : CloseCheckpt(r)
    <3>1. PICK r \in Rank : CloseCheckpt(r)
      BY <2>4
    <3>2. \A n \in Name, q \in Rank : disk[n][q] \in File
      BY DEF IInv, Types
    <3>3. ASSUME NEW n \in Name, NEW q \in Rank
          PROVE  /\ disk'[n][q].life = disk[n][q].life /\ disk'[n][q].step = disk[n][q].step
                 /\ disk[n][q].complete => disk'[n][q].complete
      <4>1. disk'[n][q] = [disk[n][q] EXCEPT !.complete = TRUE] \/ disk'[n][q] = disk[n][q]
        BY <3>1, CloseIs DEF IInv
      <4>2. disk[n][q] \in File
        BY <3>2
      <4> QED BY <4>1, <4>2 DEF File
    <3>4. \A n \in Name : Whole(n) /\ Agree(n) => Whole(n)' /\ Agree(n)'
      BY <3>3 DEF Whole, Agree
    <3> QED BY <3>4 DEF RecoverableKept, Recoverable
  <2>5. disk' = disk \/ (\E r \in Rank : OpenCheckpt(r)) \/ (\E r \in Rank : CloseCheckpt(r))
    BY DEF Next, vars, Start, Launch, Crash, Main, Restore, Reanimate, Modify, Initialize,
           InitialDiagnostics, EndInitialize, BeginStep, EndStep, NoCheckpt, DumpStart, CleanUp, Halt
  <2> QED BY <2>2, <2>3, <2>4, <2>5
<1> QED BY <1>1, <1>2, <1>3, StepsCounted, AlwaysBounded, AlwaysAlive, PTL
    DEF Spec, RecoverableByToggle

=============================================================================
