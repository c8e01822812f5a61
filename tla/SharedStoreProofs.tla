------------------------- MODULE SharedStoreProofs -------------------------
(***************************************************************************)
(* Proofs about SharedStore: as long as processes run one after the other, *)
(* registry.json is never torn and holds what the process has in memory    *)
(* unless its last save failed, ready applications have their packages and *)
(* only unreferenced packages are deleted; and however they overlap, half  *)
(* a package is being deleted, or a deletion of it broke off.              *)
(***************************************************************************)
EXTENDS SharedStore, TLAPS

(* Whoever is somewhere runs; a save returns to the middle of an operation *)
(* or ends one; a package is being deleted only while one is.              *)
PcInv ==
  \A x \in Processes :
    /\ x \notin alive => pc[x] = "idle"
    /\ after[x] \in {"idle", "begin", "confirm", "installPython", "install",
                       "touch", "delete"}
    /\ pc[x] \notin SaveStates => after[x] = "idle"
    /\ pc[x] # "deleting" => busy[x] = {}

InstallStates == {"confirm", "installPython", "install"}

(* A history without overlap has one process at a time. *)
AloneInv == ~overlapped => \A x, y \in alive : x = y

(* A process alone finds in the temporary file what it put there, and in   *)
(* registry.json, outside of its saves, what it has in memory, unless the  *)
(* last of them failed. It comes to the fallback by a failure.             *)
SaveInv ==
  ~overlapped =>
    \A x \in alive :
      /\ pc[x] = "writeTmp" => tmpFile = Torn
      /\ pc[x] \in {"rename", "removeFile", "renameAgain"} => tmpFile = Whole(mem[x])
      /\ pc[x] \in {"removeFile", "renameAgain"} => faults > 0
      /\ pc[x] \notin SaveStates => x \in unsaved \/ file = Whole(mem[x])

(* Kept, or deleted by a process whose change did not reach the file. *)
Held(p) == p \in misled \/ Kept(p)

(* What a process alone knows of the pool: the packages of the records it  *)
(* holds for ready; those of the application it installs, but for its list *)
(* of work; that no record needs what it is about to delete; and that it   *)
(* is noted if the file may still say otherwise.                           *)
KnowledgeInv ==
  ~overlapped =>
    \A x \in alive :
      /\ \A a \in Apps : mem[x][a] = "ready" => \A p \in Deps[a] : Held(p)
      /\ pc[x] \in InstallStates \/ after[x] \in InstallStates =>
           \A p \in Deps[target[x]] : p \in todo[x] \/ Held(p)
      /\ pc[x] \in {"delete", "deleting"} \/ after[x] = "delete" =>
           \A p \in todo[x] \cup busy[x] : Unreferenced(p, mem[x], {})
      /\ x \in unsaved => busy[x] \subseteq misled

IInv ==
  /\ TypeOK
  /\ PcInv
  /\ AloneInv
  /\ SaveInv
  /\ FileSound
  /\ PartialIsAttended
  /\ KnowledgeInv
  /\ ReadyHasPackagesAlone

-----------------------------------------------------------------------------
(* A step of one process; StartFails changes nothing.                      *)

SaveFails(x) == OpenTmpFails(x) \/ WriteTmpFails(x) \/ RenameAgainFails(x)

StepOf(x) ==
  \/ StartProcess(x)
  \/ EndProcess(x)
  \/ Crash(x)
  \/ Save(x)
  \/ Touch(x)
  \/ Serve(x)
  \/ Manage(x)

(* Other processes do not move. *)
LEMMA StepFrame ==
  ASSUME TypeOK, NEW x \in Processes, StepOf(x)
  PROVE  /\ overlapped' = overlapped \/ (StartProcess(x) /\ overlapped' = TRUE)
         /\ alive' \ {x} = alive \ {x}
         /\ \A y \in Processes \ {x} :
              /\ mem'[y] = mem[y] /\ pc'[y] = pc[y] /\ after'[y] = after[y]
              /\ todo'[y] = todo[y] /\ busy'[y] = busy[y] /\ target'[y] = target[y]
<1>1. CASE StartProcess(x) \/ EndProcess(x) \/ Crash(x)
  BY <1>1 DEF StartProcess, EndProcess, Crash, Forget, SaveThen, Goto, TypeOK, disk
<1>2. CASE Save(x) \/ Touch(x)
  BY <1>2 DEF Save, OpenTmp, WriteTmp, Rename, Committed, RemoveFile, RenameAgain,
     OpenTmpFails, WriteTmpFails, RenameAgainFails, SaveError, Forget, Touch, SaveThen,
     Goto, TypeOK, disk, lives, past
<1>3. CASE Serve(x)
  BY <1>3 DEF Serve, Launch, Decline, Accept, InstallPython, InstallNext, InstallFails,
     MarkReady, SaveThen, Goto, TypeOK, disk, lives, past
<1>4. CASE Manage(x)
  BY <1>4 DEF Manage, LaunchApp, RemoveApp, InstallLoose, CleanUnused, DeleteBegin,
     DeleteEnd, DeleteBlocked, DeleteStops, DeleteDone, SaveThen, Goto, TypeOK, disk,
     lives, past
<1>5. QED
  BY <1>1, <1>2, <1>3, <1>4 DEF StepOf

(* Faults are counted. *)
LEMMA StepFaults ==
  ASSUME TypeOK, NEW x \in Processes, StepOf(x)
  PROVE  /\ faults \in Nat /\ faults' \in Nat
         /\ faults' = faults \/ Fault
<1>1. faults \in Nat
  BY StoreAssumption DEF TypeOK
<1>2. faults' = faults \/ Fault
  BY DEF StepOf, StartProcess, EndProcess, Crash, Save, OpenTmp, WriteTmp, Rename,
     RenameFails, RemoveFile, RenameAgain, OpenTmpFails, WriteTmpFails, RenameAgainFails,
     Touch, Serve, Launch, Decline, Accept, InstallPython, InstallNext, InstallFails,
     MarkReady, Manage, LaunchApp, RemoveApp, InstallLoose, CleanUnused, DeleteBegin,
     DeleteEnd, DeleteBlocked, DeleteStops, DeleteDone, lives
<1>3. QED
  BY <1>1, <1>2 DEF Fault

(* The helpers of the actions leave the variables in their types. *)
LEMMA HelperTypes ==
  ASSUME TypeOK, NEW x \in Processes
  PROVE  /\ \A r \in Registries, s \in PcStates \cup {"begin"} : SaveThen(x, r, s) =>
              /\ mem' \in [Processes -> Registries]
              /\ pc' \in [Processes -> PcStates]
              /\ after' \in [Processes -> PcStates \cup {"begin"}]
         /\ Forget(x) =>
              /\ alive' \subseteq Processes
              /\ mem' \in [Processes -> Registries]
              /\ pc' \in [Processes -> PcStates]
              /\ after' \in [Processes -> PcStates \cup {"begin"}]
              /\ todo' \in [Processes -> SUBSET Packages]
              /\ busy' \in [Processes -> SUBSET Packages]
              /\ unsaved' \subseteq Processes
         /\ Committed(x) =>
              /\ file' \in FileStates /\ tmpFile' \in FileStates
              /\ pc' \in [Processes -> PcStates]
              /\ after' \in [Processes -> PcStates \cup {"begin"}]
              /\ unsaved' \subseteq Processes
         /\ SaveError(x) =>
              /\ alive' \subseteq Processes
              /\ mem' \in [Processes -> Registries]
              /\ pc' \in [Processes -> PcStates]
              /\ after' \in [Processes -> PcStates \cup {"begin"}]
              /\ todo' \in [Processes -> SUBSET Packages]
              /\ busy' \in [Processes -> SUBSET Packages]
              /\ unsaved' \subseteq Processes
<1>1. /\ "openTmp" \in PcStates /\ "idle" \in PcStates
      /\ Empty \in Registries /\ Missing \in FileStates
  BY DEF PcStates, SaveStates, Empty, Registries, AppStates, Missing, FileStates
<1> USE <1>1 DEF TypeOK
<1>2. ASSUME NEW r \in Registries, NEW s \in PcStates \cup {"begin"}, SaveThen(x, r, s)
      PROVE  /\ mem' \in [Processes -> Registries]
             /\ pc' \in [Processes -> PcStates]
             /\ after' \in [Processes -> PcStates \cup {"begin"}]
  BY <1>2 DEF SaveThen, Goto
<1>3. ASSUME Forget(x)
      PROVE  /\ alive' \subseteq Processes
             /\ mem' \in [Processes -> Registries]
             /\ pc' \in [Processes -> PcStates]
             /\ after' \in [Processes -> PcStates \cup {"begin"}]
             /\ todo' \in [Processes -> SUBSET Packages]
             /\ busy' \in [Processes -> SUBSET Packages]
             /\ unsaved' \subseteq Processes
  BY <1>3 DEF Forget
<1>4. ASSUME Committed(x)
      PROVE  /\ file' \in FileStates /\ tmpFile' \in FileStates
             /\ pc' \in [Processes -> PcStates]
             /\ after' \in [Processes -> PcStates \cup {"begin"}]
             /\ unsaved' \subseteq Processes
  BY <1>4 DEF Committed, Goto
<1>5. ASSUME SaveError(x)
      PROVE  /\ alive' \subseteq Processes
             /\ mem' \in [Processes -> Registries]
             /\ pc' \in [Processes -> PcStates]
             /\ after' \in [Processes -> PcStates \cup {"begin"}]
             /\ todo' \in [Processes -> SUBSET Packages]
             /\ busy' \in [Processes -> SUBSET Packages]
             /\ unsaved' \subseteq Processes
  <2>1. CASE after[x] = "begin"
    BY <1>3, <1>5, <2>1 DEF SaveError
  <2>2. CASE after[x] # "begin"
    <3>1. after[x] \in PcStates
      BY <2>2
    <3>2. QED
      BY <1>5, <2>2, <3>1 DEF SaveError, Goto
  <2>3. QED
    BY <2>1, <2>2
<1>6. QED
  BY <1>2, <1>3, <1>4, <1>5

(* What a process writes to memory, to the disk or into its list of work   *)
(* is a registry, a file and a set of packages.                            *)
LEMMA StepTypeOK ==
  ASSUME TypeOK, NEW x \in Processes, StepOf(x)
  PROVE  TypeOK'
<1>1. /\ {"idle", "confirm", "installPython", "install", "touch", "delete", "deleting",
          "openTmp", "writeTmp", "rename", "removeFile", "renameAgain"} \subseteq PcStates
      /\ {"absent", "registered", "ready"} = AppStates
      /\ Empty \in Registries
  BY DEF PcStates, SaveStates, Empty, Registries, AppStates
<1>2. /\ Missing \in FileStates /\ Torn \in FileStates
      /\ \A r \in Registries : Whole(r) \in FileStates
      /\ \A f \in FileStates : f.regs \in Registries
      /\ \A r \in Registries, a \in Apps, s \in AppStates :
           [r EXCEPT ![a] = s] \in Registries
  BY DEF Whole, Missing, Torn, FileStates, Empty, Registries, AppStates
<1>a. faults' \in 0..MaxFaults
  BY StepFaults, StoreAssumption DEF Fault, TypeOK
<1>3. CASE StartProcess(x) \/ EndProcess(x) \/ Crash(x)
  <2>1. CASE StartProcess(x)
    <3>1. /\ mem' \in [Processes -> Registries]
          /\ pc' \in [Processes -> PcStates]
          /\ after' \in [Processes -> PcStates \cup {"begin"}]
      BY <1>1, <1>2, <2>1, HelperTypes DEF StartProcess, TypeOK
    <3>2. QED
      BY <2>1, <3>1 DEF StartProcess, TypeOK, disk, past
  <2>2. CASE EndProcess(x)
    BY <2>2, HelperTypes DEF EndProcess, TypeOK, disk
  <2>3. CASE Crash(x)
    BY <1>a, <2>3, HelperTypes DEF Crash, TypeOK, disk
  <2>4. QED
    BY <1>3, <2>1, <2>2, <2>3
<1>4. CASE Save(x)
  <2>1. CASE OpenTmp(x) \/ WriteTmp(x) \/ RemoveFile(x)
    BY <1>1, <1>2, <1>a, <2>1 DEF OpenTmp, WriteTmp, RemoveFile, Goto, TypeOK, disk,
       lives, past
  <2>2. CASE Rename(x) \/ RenameAgain(x)
    BY <1>1, <1>2, <1>a, <2>2, HelperTypes DEF Rename, RenameAgain, Goto, TypeOK, disk,
       lives, past
  <2>3. CASE SaveFails(x)
    BY <1>2, <1>a, <2>3, HelperTypes DEF SaveFails, OpenTmpFails, WriteTmpFails,
       RenameAgainFails, TypeOK, disk
  <2>4. QED
    BY <1>4, <2>1, <2>2, <2>3 DEF Save, SaveFails
<1>5. CASE Serve(x) \/ Touch(x)
  <2>1. CASE \E a \in Apps : Launch(x, a)
    <3>1. PICK a \in Apps : Launch(x, a)
      BY <2>1
    <3>2. [mem[x] EXCEPT ![a] = "registered"] \in Registries
      BY <1>1, <1>2 DEF TypeOK
    <3>3. /\ mem' \in [Processes -> Registries]
          /\ pc' \in [Processes -> PcStates]
          /\ after' \in [Processes -> PcStates \cup {"begin"}]
      <4>1. PICK s \in {"confirm", "touch"} :
              SaveThen(x, [mem[x] EXCEPT ![a] = "registered"], s)
        BY <3>1 DEF Launch
      <4>2. QED
        BY <1>1, <3>2, <4>1, HelperTypes
    <3>4. QED
      BY <3>1, <3>3, StoreAssumption DEF Launch, TypeOK, disk, lives, past
  <2>2. CASE Decline(x) \/ Accept(x) \/ InstallFails(x) \/ Touch(x)
    <3>1. mem[x] \in Registries
      BY DEF TypeOK
    <3>2. /\ mem' \in [Processes -> Registries]
          /\ pc' \in [Processes -> PcStates]
          /\ after' \in [Processes -> PcStates \cup {"begin"}]
      BY <1>1, <2>2, <3>1, HelperTypes DEF Decline, Accept, InstallPython, InstallFails,
         Touch
    <3>3. QED
      BY <2>2, <3>2 DEF Decline, Accept, InstallPython, InstallFails, Touch, TypeOK, disk,
         lives, past
  <2>3. CASE MarkReady(x)
    <3>1. [mem[x] EXCEPT ![target[x]] = "ready"] \in Registries
      BY <1>1, <1>2 DEF TypeOK
    <3>2. QED
      BY <1>1, <2>3, <3>1, HelperTypes DEF MarkReady, TypeOK, disk, lives, past
  <2>4. CASE InstallPython(x) \/ InstallNext(x)
    BY <1>1, <2>4 DEF InstallPython, InstallNext, Goto, TypeOK, disk, lives, past
  <2>5. QED
    BY <1>5, <2>1, <2>2, <2>3, <2>4 DEF Serve
<1>6. CASE Manage(x)
  <2>1. CASE \E a \in Apps : LaunchApp(x, a)
    BY <1>1, <1>2, <2>1 DEF LaunchApp, Goto, TypeOK, disk, lives, past
  <2>2. CASE \E a \in Apps, cleanUnused \in BOOLEAN : RemoveApp(x, a, cleanUnused)
    <3>1. PICK a \in Apps, cleanUnused \in BOOLEAN : RemoveApp(x, a, cleanUnused)
      BY <2>2
    <3>2. [mem[x] EXCEPT ![a] = "absent"] \in Registries
      BY <1>1, <1>2 DEF TypeOK
    <3>3. /\ mem' \in [Processes -> Registries]
          /\ pc' \in [Processes -> PcStates]
          /\ after' \in [Processes -> PcStates \cup {"begin"}]
      BY <1>1, <3>1, <3>2, HelperTypes DEF RemoveApp
    <3>4. QED
      BY <3>1, <3>3, StoreAssumption DEF RemoveApp, TypeOK, disk, lives, past
  <2>3. CASE \E p \in Packages : InstallLoose(x, p)
    BY <2>3 DEF InstallLoose, TypeOK, disk, lives, past
  <2>4. CASE CleanUnused(x)
    BY <1>1, <2>4 DEF CleanUnused, Goto, TypeOK, disk, lives, past
  <2>5. CASE \/ DeleteBegin(x) \/ DeleteEnd(x) \/ DeleteBlocked(x)
             \/ DeleteStops(x) \/ DeleteDone(x)
    BY <1>1, <1>a, <2>5 DEF DeleteBegin, DeleteEnd, DeleteBlocked, DeleteStops,
       DeleteDone, Goto, TypeOK, disk, lives, past
  <2>6. QED
    BY <1>6, <2>1, <2>2, <2>3, <2>4, <2>5 DEF Manage
<1>7. QED
  BY <1>3, <1>4, <1>5, <1>6 DEF StepOf

-----------------------------------------------------------------------------
(* The conjuncts that hold however processes overlap.                      *)

(* A save begins with its return address and forgets it at its end; only   *)
(* DeleteBegin takes a package to delete, and DeleteEnd lets it go.        *)
LEMMA StepPcInv ==
  ASSUME TypeOK, PcInv, NEW x \in Processes, StepOf(x)
  PROVE  PcInv'
<1> DEFINE Fine(y) ==
      /\ y \notin alive => pc[y] = "idle"
      /\ after[y] \in {"idle", "begin", "confirm", "installPython", "install",
                       "touch", "delete"}
      /\ pc[y] \notin SaveStates => after[y] = "idle"
      /\ pc[y] # "deleting" => busy[y] = {}
<1>1. \A y \in Processes \ {x} : Fine(y)'
  BY StepFrame DEF PcInv
<1>2. Fine(x)'
  <2>1. CASE StartProcess(x) \/ EndProcess(x) \/ Crash(x)
    BY <2>1 DEF PcInv, TypeOK, StartProcess, EndProcess, Crash, Forget, SaveThen, Goto,
       SaveStates, disk
  <2>2. CASE Save(x)
    <3>1. CASE OpenTmp(x) \/ WriteTmp(x) \/ RemoveFile(x)
      BY <3>1 DEF PcInv, TypeOK, OpenTmp, WriteTmp, RemoveFile, Goto, SaveStates, disk,
         lives, past
    <3>2. CASE Rename(x) \/ RenameAgain(x)
      BY <3>2 DEF PcInv, TypeOK, Rename, RenameAgain, Committed, Goto, SaveStates, disk,
         lives, past
    <3>3. CASE SaveFails(x)
      BY <3>3 DEF PcInv, TypeOK, SaveFails, OpenTmpFails, WriteTmpFails, RenameAgainFails,
         SaveError, Forget, Goto, SaveStates, disk, lives, past
    <3>4. QED
      BY <2>2, <3>1, <3>2, <3>3 DEF Save, SaveFails
  <2>3. CASE Serve(x) \/ Touch(x)
    BY <2>3 DEF PcInv, TypeOK, Serve, Launch, Decline, Accept, InstallPython, InstallNext,
       InstallFails, MarkReady, Touch, SaveThen, Goto, SaveStates, Idle, disk, lives, past
  <2>4. CASE Manage(x)
    BY <2>4 DEF PcInv, TypeOK, Manage, LaunchApp, RemoveApp, InstallLoose, CleanUnused,
       DeleteBegin, DeleteEnd, DeleteBlocked, DeleteStops, DeleteDone, SaveThen, Goto,
       SaveStates, Idle, disk, lives, past
  <2>5. QED
    BY <2>1, <2>2, <2>3, <2>4 DEF StepOf
<1>3. QED
  BY <1>1, <1>2 DEF PcInv

(* Whoever takes a step runs, unless it starts. *)
LEMMA StepIsAlive ==
  ASSUME TypeOK, PcInv, NEW x \in Processes, StepOf(x)
  PROVE  /\ StartProcess(x) \/ x \in alive
         /\ Save(x) \/ Touch(x) \/ Serve(x) \/ Manage(x) => x \in alive
BY DEF PcInv, SaveStates, StepOf, EndProcess, Crash, Save, OpenTmp, WriteTmp, Rename,
   RemoveFile, RenameAgain, OpenTmpFails, WriteTmpFails, RenameAgainFails, Touch, Serve,
   Launch, Decline, Accept, InstallPython, InstallNext, InstallFails, MarkReady, Manage,
   LaunchApp, RemoveApp, InstallLoose, CleanUnused, DeleteBegin, DeleteEnd, DeleteBlocked,
   DeleteStops, DeleteDone, Idle

(* While nothing overlaps, a step is taken by the one process there is.    *)
LEMMA StepAlone ==
  ASSUME TypeOK, PcInv, AloneInv, NEW x \in Processes, StepOf(x), ~overlapped'
  PROVE  /\ ~overlapped
         /\ alive \subseteq {x} /\ alive' \subseteq {x}
         /\ ~OthersWriting(x)
         /\ \A y \in Processes \ {x} : pc[y] = "idle" /\ busy[y] = {}
<1>1. ~overlapped /\ (StartProcess(x) => alive = {})
  BY StepFrame DEF StartProcess, TypeOK
<1>2. alive \subseteq {x} /\ alive' \subseteq {x}
  BY <1>1, StepIsAlive, StepFrame DEF AloneInv
<1>3. QED
  BY <1>1, <1>2 DEF PcInv, OthersWriting

(* The second process to start ends the history without overlap. *)
LEMMA StepAloneInv ==
  ASSUME TypeOK, PcInv, AloneInv, NEW x \in Processes, StepOf(x)
  PROVE  AloneInv'
BY StepAlone DEF AloneInv

(* A directory is half deleted by the process that deletes it: the others  *)
(* add whole packages or leave what is there alone. If the process stops   *)
(* or dies, that is noted.                                                 *)
LEMMA StepPartialIsAttended ==
  ASSUME TypeOK, PcInv, PartialIsAttended, NEW x \in Processes, StepOf(x)
  PROVE  PartialIsAttended'
<1>1. SUFFICES ASSUME NEW p \in Packages, pool'[p] = "partial", p \notin halved'
               PROVE  \E y \in alive' : p \in busy'[y]
  BY DEF PartialIsAttended
<1>2. CASE pool[p] # "partial"
  <2>1. ~DeleteEnd(x) /\ ~DeleteStops(x)
    BY <1>1, <1>2 DEF DeleteEnd, DeleteStops, Installed, TypeOK
  <2>2. DeleteBegin(x)
    BY <1>1, <1>2, <2>1 DEF TypeOK, StepOf, StartProcess, EndProcess, Crash, Save,
       OpenTmp, WriteTmp, Rename, RemoveFile, RenameAgain, OpenTmpFails, WriteTmpFails,
       RenameAgainFails, Touch, Serve, Launch, Decline, Accept, InstallPython,
       InstallNext, InstallFails, MarkReady, Manage, LaunchApp, RemoveApp, InstallLoose,
       CleanUnused, DeleteBlocked, DeleteDone, disk
  <2>3. x \in alive'
    BY <2>2 DEF DeleteBegin, PcInv, lives
  <2>4. p \in busy'[x]
    BY <1>1, <1>2, <2>2 DEF DeleteBegin, TypeOK
  <2>5. QED
    BY <2>3, <2>4
<1>3. CASE pool[p] = "partial"
  <2>1. p \notin halved
    <3>1. CASE DeleteEnd(x)
      BY <1>1, <3>1 DEF DeleteEnd
    <3>2. CASE ~DeleteEnd(x)
      <4>1. halved \subseteq halved'
        BY <3>2 DEF StepOf, StartProcess, EndProcess, Crash, Save, OpenTmp, WriteTmp,
           Rename, RemoveFile, RenameAgain, OpenTmpFails, WriteTmpFails, RenameAgainFails,
           Touch, Serve, Launch, Decline, Accept, InstallPython, InstallNext,
           InstallFails, MarkReady, Manage, LaunchApp, RemoveApp, InstallLoose,
           CleanUnused, DeleteBegin, DeleteBlocked, DeleteStops, DeleteDone, past
      <4>2. QED
        BY <1>1, <4>1
    <3>3. QED
      BY <3>1, <3>2
  <2>2. PICK y \in alive : p \in busy[y]
    BY <1>3, <2>1 DEF PartialIsAttended
  <2>3. CASE y # x
    BY <2>2, <2>3, StepFrame DEF TypeOK
  <2>4. CASE y = x
    <3>1. pc[x] = "deleting" /\ x \in alive
      BY <2>2, <2>4 DEF PcInv, TypeOK
    <3>2. DeleteEnd(x) \/ DeleteStops(x) \/ Crash(x)
      BY <3>1 DEF SaveStates, StepOf, StartProcess, EndProcess, Save, OpenTmp,
         WriteTmp, Rename, RemoveFile, RenameAgain, OpenTmpFails, WriteTmpFails,
         RenameAgainFails, Touch, Serve, Launch, Decline, Accept, InstallPython,
         InstallNext, InstallFails, MarkReady, Manage, LaunchApp, RemoveApp, InstallLoose,
         CleanUnused, DeleteBegin, DeleteBlocked, DeleteDone, Idle
    <3>3. CASE DeleteEnd(x)
      BY <1>1, <2>2, <2>4, <3>3 DEF DeleteEnd
    <3>4. CASE DeleteStops(x) \/ Crash(x)
      <4>1. p \in busy[x] /\ pool[p] = "partial" /\ Installed(p)
        BY <1>3, <2>2, <2>4 DEF Installed
      <4>2. p \in halved'
        BY <3>4, <4>1 DEF DeleteStops, Crash
      <4>3. QED
        BY <1>1, <4>2
    <3>5. QED
      BY <3>2, <3>3, <3>4
  <2>5. QED
    BY <2>3, <2>4
<1>4. QED
  BY <1>2, <1>3

-----------------------------------------------------------------------------
(* The conjuncts about histories without overlap.                          *)

(* A failing save takes the process that starts away; the others lose      *)
(* nothing of their memory and go on where a save that succeeds leaves     *)
(* them, but for a removal, which is over.                                 *)
LEMMA SaveFailsGoesOn ==
  ASSUME TypeOK, PcInv, NEW x \in Processes, SaveFails(x)
  PROVE  /\ x \in alive /\ busy[x] = {}
         /\ pool' = pool /\ halved' = halved /\ misled' = misled
         /\ file' = file /\ target' = target
         /\ x \in alive' =>
              /\ mem' = mem /\ busy' = busy /\ x \in unsaved'
              /\ after[x] # "begin" /\ after'[x] = "idle"
              /\ IF after[x] = "delete"
                 THEN pc'[x] = "idle"
                 ELSE pc'[x] = after[x] /\ todo'[x] = todo[x]
<1>1. /\ x \in alive /\ busy[x] = {}
      /\ pool' = pool /\ halved' = halved /\ misled' = misled
      /\ file' = file /\ target' = target
  BY DEF SaveFails, OpenTmpFails, WriteTmpFails, RenameAgainFails, PcInv, disk
<1>2. CASE after[x] = "begin"
  BY <1>1, <1>2 DEF SaveFails, OpenTmpFails, WriteTmpFails, RenameAgainFails, SaveError,
     Forget
<1>3. CASE after[x] # "begin"
  <2>1. after[x] \in PcStates
    BY <1>3 DEF PcInv, PcStates
  <2>2. QED
    BY <1>1, <1>3, <2>1 DEF SaveFails, OpenTmpFails, WriteTmpFails, RenameAgainFails,
       SaveError, Goto, TypeOK
<1>4. QED
  BY <1>1, <1>2, <1>3

(* The temporary file and registry.json follow the memory of the process.  *)
LEMMA StepSaveInv ==
  ASSUME TypeOK, PcInv, AloneInv, SaveInv, NEW x \in Processes, StepOf(x)
  PROVE  SaveInv'
<1>1. SUFFICES ASSUME ~overlapped', x \in alive'
               PROVE  /\ pc'[x] = "writeTmp" => tmpFile' = Torn
                      /\ pc'[x] \in {"rename", "removeFile", "renameAgain"} =>
                           tmpFile' = Whole(mem[x])'
                      /\ pc'[x] \in {"removeFile", "renameAgain"} => faults' > 0
                      /\ pc'[x] \notin SaveStates =>
                           x \in unsaved' \/ file' = Whole(mem[x])'
  BY StepAlone DEF SaveInv
<1> USE DEF TypeOK, Goto, Whole
<1>2. CASE StartProcess(x)
  <2>1. file \in FileStates
    OBVIOUS
  <2>2. CASE file.kind = "whole"
    BY <1>2, <2>1, <2>2 DEF StartProcess, FileStates, PcInv, disk, SaveStates
  <2>3. CASE file.kind # "whole"
    BY <1>2, <2>3 DEF StartProcess, SaveThen, SaveStates
  <2>4. QED
    BY <2>2, <2>3
<1>3. CASE EndProcess(x) \/ Crash(x)
  BY <1>1, <1>3 DEF EndProcess, Crash, Forget
<1>4. CASE Save(x)
  <2>1. x \in alive /\ ~overlapped /\ ~OthersWriting(x)
    BY <1>1, <1>4, StepAlone, StepIsAlive
  <2>2. CASE OpenTmp(x)
    BY <2>2 DEF OpenTmp, SaveStates, lives, past
  <2>3. CASE WriteTmp(x)
    BY <2>1, <2>3 DEF WriteTmp, SaveInv, Torn, SaveStates, lives, past
  <2>4. CASE Rename(x)
    <3>1. tmpFile = Whole(mem[x]) /\ RenamePossible(x)
      BY <2>1, <2>4 DEF Rename, SaveInv, RenamePossible
    <3>2. CASE Committed(x)
      BY <2>4, <3>1, <3>2 DEF Rename, Committed, PcInv, SaveStates
    <3>3. CASE Fault /\ Goto(x, "removeFile") /\ UNCHANGED <<file, tmpFile>>
      BY <2>4, <3>1, <3>3, StepFaults DEF Rename, Fault, SaveStates
    <3>4. QED
      BY <2>4, <3>1, <3>2, <3>3 DEF Rename, RenameFails
  <2>5. CASE RemoveFile(x)
    BY <2>1, <2>5, StepFaults DEF RemoveFile, Fault, SaveInv, SaveStates
  <2>6. CASE RenameAgain(x)
    BY <2>1, <2>6 DEF RenameAgain, Committed, SaveInv, PcInv, SaveStates, lives
  <2>7. CASE SaveFails(x)
    BY <1>1, <2>7, SaveFailsGoesOn DEF PcInv, SaveStates
  <2>8. QED
    BY <1>4, <2>2, <2>3, <2>4, <2>5, <2>6, <2>7 DEF Save, SaveFails
<1>5. CASE Serve(x) \/ Touch(x)
  <2>1. x \in alive /\ ~overlapped
    BY <1>1, <1>5, StepAlone, StepIsAlive
  <2>2. QED
    BY <1>5, <2>1 DEF SaveInv, Serve, Launch, Decline, Accept, InstallPython, InstallNext,
       InstallFails, MarkReady, Touch, SaveThen, SaveStates, Idle, disk, lives, past
<1>6. CASE Manage(x)
  <2>1. x \in alive /\ ~overlapped
    BY <1>1, <1>6, StepAlone, StepIsAlive
  <2>2. QED
    BY <1>6, <2>1 DEF SaveInv, Manage, LaunchApp, RemoveApp, InstallLoose, CleanUnused,
       DeleteBegin, DeleteEnd, DeleteBlocked, DeleteStops, DeleteDone, SaveThen,
       SaveStates, Idle, disk, lives, past
<1>7. QED
  BY <1>2, <1>3, <1>4, <1>5, <1>6 DEF StepOf

(* registry.json is replaced by a temporary file that is whole; it is      *)
(* removed after a failure, and a process that is done with a save has put *)
(* it back, or the save failed.                                            *)
LEMMA StepFileSound ==
  ASSUME TypeOK, PcInv, AloneInv, SaveInv, FileSound, NEW x \in Processes, StepOf(x)
  PROVE  FileSound'
<1>1. SUFFICES ASSUME ~overlapped'
               PROVE  /\ file'.kind # "torn"
                      /\ file'.kind = "missing" =>
                           /\ faults' > 0
                           /\ \A y \in alive' : y \in unsaved' \/ pc'[y] \in SaveStates
  BY DEF FileSound
<1>2. /\ ~overlapped /\ SaveInv'
      /\ faults \in Nat /\ (faults' = faults \/ faults' = faults + 1)
  BY <1>1, StepAlone, StepSaveInv, StepFaults DEF Fault
<1>3. file'.kind = "missing" => \A y \in alive' : y \in unsaved' \/ pc'[y] \in SaveStates
  BY <1>1, <1>2 DEF SaveInv, Whole
<1>4. CASE Rename(x) \/ RenameAgain(x)
  <2>1. x \in alive
    BY <1>4 DEF Rename, RenameAgain, PcInv
  <2>2. file' = file \/ file' = Whole(mem[x])
    BY <1>2, <1>4, <2>1 DEF SaveInv, Rename, RenameAgain, Committed
  <2>3. QED
    BY <1>2, <1>3, <2>2 DEF FileSound, Whole
<1>5. CASE RemoveFile(x)
  <2>1. faults > 0 /\ (file' = file \/ file' = Missing)
    BY <1>2, <1>5 DEF SaveInv, PcInv, RemoveFile
  <2>2. QED
    BY <1>2, <1>3, <2>1 DEF FileSound, Missing
<1>6. CASE ~Rename(x) /\ ~RenameAgain(x) /\ ~RemoveFile(x)
  <2>1. file' = file
    BY <1>6 DEF StepOf, StartProcess, EndProcess, Crash, Save, OpenTmp, WriteTmp,
       OpenTmpFails, WriteTmpFails, RenameAgainFails, Touch, Serve, Launch, Decline,
       Accept, InstallPython, InstallNext, InstallFails, MarkReady, Manage, LaunchApp,
       RemoveApp, InstallLoose, CleanUnused, DeleteBegin, DeleteEnd, DeleteBlocked,
       DeleteStops, DeleteDone, disk
  <2>2. QED
    BY <1>2, <1>3, <2>1 DEF FileSound
<1>7. QED
  BY <1>4, <1>5, <1>6

(* A package stays in the pool but for the one that is deleted, and that   *)
(* is noted if the deleting process may know too little.                   *)
LEMMA StepHeld ==
  ASSUME TypeOK, NEW x \in Processes, StepOf(x), NEW p \in Packages, Held(p)
  PROVE  \/ Held(p)'
         \/ DeleteBegin(x) /\ p \in todo[x] /\ x \notin unsaved
         \/ DeleteEnd(x) /\ p \in busy[x] /\ p \notin misled
<1>1. CASE DeleteBegin(x)
  BY <1>1 DEF DeleteBegin, Held, Kept, Installed, TypeOK
<1>2. CASE DeleteEnd(x)
  BY <1>2 DEF DeleteEnd, Held, Kept, Installed, TypeOK
<1>3. CASE DeleteStops(x)
  BY <1>3 DEF DeleteStops, Held, Kept, Installed, TypeOK
<1>4. CASE InstallNext(x) \/ (\E q \in Packages : InstallLoose(x, q))
  BY <1>4 DEF InstallNext, InstallLoose, Held, Kept, Installed, TypeOK
<1>5. CASE pool' = pool /\ misled' = misled /\ halved \subseteq halved'
  BY <1>5 DEF Held, Kept, Installed
<1>6. QED
  BY <1>1, <1>2, <1>3, <1>4, <1>5 DEF StepOf, StartProcess, EndProcess, Crash, Save,
     OpenTmp, WriteTmp, Rename, RemoveFile, RenameAgain, OpenTmpFails, WriteTmpFails,
     RenameAgainFails, Touch, Serve, Launch, Decline, Accept, InstallPython, InstallFails,
     MarkReady, Manage, LaunchApp, RemoveApp, CleanUnused, DeleteBlocked, DeleteDone,
     disk, past

(* A process alone that is not deleting sees no half package but those     *)
(* whose deletion broke off.                                               *)
LEMMA InstalledIsHeld ==
  ASSUME TypeOK, PcInv, AloneInv, PartialIsAttended, NEW x \in Processes, StepOf(x),
         ~overlapped', pc[x] # "deleting", NEW p \in Packages, Installed(p)
  PROVE  Held(p)
<1>1. busy[x] = {} /\ alive \subseteq {x}
  BY StepAlone DEF PcInv
<1>2. pool[p] \in {"whole", "partial"}
  BY DEF TypeOK, Installed
<1>3. QED
  BY <1>1, <1>2 DEF PartialIsAttended, Held, Kept

(* What is about to be deleted no record in memory needs, so that ready    *)
(* applications keep their packages; and MarkReady writes "ready" when the *)
(* list of work is empty.                                                  *)
LEMMA StepReadyInMemory ==
  ASSUME IInv, NEW x \in Processes, StepOf(x), ~overlapped', x \in alive',
         NEW a \in Apps, mem'[x][a] = "ready", NEW p \in Deps[a]
  PROVE  Held(p)'
<1>1. p \in Packages /\ mem \in [Processes -> Registries] /\ TypeOK
  BY StoreAssumption DEF IInv, TypeOK
<1>2. ~overlapped
  BY StepAlone DEF IInv
<1>3. CASE StartProcess(x)
  <2>1. file.kind = "whole" /\ file.regs[a] = "ready"
    BY <1>1, <1>3 DEF StartProcess, SaveThen, Empty, TypeOK
  <2>2. Held(p)
    BY <1>2, <2>1 DEF IInv, ReadyHasPackagesAlone, Held, Kept
  <2>3. QED
    BY <1>1, <1>3, <2>2 DEF StartProcess, Held, Kept, Installed, disk, past
<1>4. CASE ~StartProcess(x) /\ mem[x][a] = "ready"
  <2>1. x \in alive
    BY <1>4, StepIsAlive DEF IInv
  <2>2. Held(p)
    BY <1>2, <1>4, <2>1 DEF IInv, KnowledgeInv
  <2>3. pc[x] \in {"delete", "deleting"} => p \notin todo[x] \cup busy[x]
    BY <1>2, <1>4, <2>1 DEF IInv, KnowledgeInv, Unreferenced
  <2>4. QED
    BY <1>1, <2>2, <2>3, StepHeld DEF DeleteBegin, DeleteEnd
<1>5. CASE ~StartProcess(x) /\ mem[x][a] # "ready"
  <2> USE <1>1 DEF TypeOK, Registries, SaveThen
  <2>1. MarkReady(x) /\ a = target[x]
    <3>1. ~EndProcess(x) /\ ~Crash(x) /\ mem' # mem
      BY <1>5 DEF EndProcess, Crash, Forget
    <3>2. ~Save(x)
      BY <1>5, <3>1 DEF Save, OpenTmp, WriteTmp, Rename, RemoveFile, RenameAgain,
         OpenTmpFails, WriteTmpFails, RenameAgainFails, SaveError, Forget, Empty
    <3>3. ~Manage(x) /\ ~Touch(x)
      <4>1. ~Touch(x)
        BY <1>5 DEF Touch
      <4>2. \A b \in Apps, cleanUnused \in BOOLEAN : ~RemoveApp(x, b, cleanUnused)
        BY <1>5 DEF RemoveApp
      <4>3. QED
        BY <3>1, <4>1, <4>2 DEF Manage, LaunchApp, InstallLoose, CleanUnused, DeleteBegin,
           DeleteEnd, DeleteBlocked, DeleteStops, DeleteDone, disk
    <3>4. Serve(x) => MarkReady(x)
      BY <1>5, <3>1 DEF Serve, Launch, Decline, Accept, InstallPython, InstallNext,
         InstallFails
    <3>5. MarkReady(x) => a = target[x]
      BY <1>5 DEF MarkReady
    <3>6. QED
      BY <1>5, <3>1, <3>2, <3>3, <3>4, <3>5 DEF StepOf
  <2>2. Held(p)
    BY <1>2, <2>1 DEF IInv, PcInv, KnowledgeInv, InstallStates, MarkReady
  <2>3. QED
    BY <1>1, <2>1, <2>2 DEF MarkReady, Held, Kept, Installed, disk, lives, past
<1>6. QED
  BY <1>3, <1>4, <1>5

(* What an installation still has to do is on its list; the rest it found  *)
(* in the pool, or put there.                                              *)
LEMMA StepInstallation ==
  ASSUME IInv, NEW x \in Processes, StepOf(x), ~overlapped', x \in alive',
         pc'[x] \in InstallStates \/ after'[x] \in InstallStates,
         NEW p \in Deps[target'[x]]
  PROVE  p \in todo'[x] \/ Held(p)'
<1> USE DEF TypeOK, SaveThen, Goto
<1>1. TypeOK /\ PcInv /\ AloneInv /\ PartialIsAttended /\ SaveInv /\ ~overlapped
  BY StepAlone DEF IInv
<1>2. p \in Packages
  <2>1. target'[x] \in Apps
    BY <1>1, StepTypeOK
  <2>2. QED
    BY <2>1, StoreAssumption
<1>3. Held(p) /\ pc[x] \notin {"delete", "deleting"} => Held(p)'
  BY <1>1, <1>2, StepHeld DEF DeleteBegin, DeleteEnd
<1>4. CASE \E a \in Apps : Launch(x, a)
  <2>1. PICK a \in Apps : Launch(x, a)
    BY <1>4
  <2>2. target'[x] = a /\ (~Installed(p) => p \in todo'[x]) /\ pc[x] = "idle"
    BY <1>1, <2>1 DEF Launch, Idle
  <2>3. QED
    BY <1>1, <1>2, <1>3, <2>2, InstalledIsHeld
<1>5. CASE ~(\E a \in Apps : Launch(x, a))
  <2>1. /\ target'[x] = target[x] /\ x \in alive
        /\ pc[x] \in InstallStates \/ after[x] \in InstallStates
    <3>1. ~StartProcess(x) /\ ~EndProcess(x) /\ ~Crash(x) /\ x \in alive
      BY <1>1, StepIsAlive DEF PcInv, StartProcess, EndProcess, Crash, Forget, SaveStates,
         InstallStates
    <3>2. ~Manage(x) /\ ~Touch(x)
      <4>1. \A a \in Apps, cleanUnused \in BOOLEAN : ~RemoveApp(x, a, cleanUnused)
        BY <1>1 DEF RemoveApp, InstallStates
      <4>2. QED
        BY <1>1, <4>1 DEF PcInv, Manage, LaunchApp, InstallLoose, CleanUnused,
           DeleteBegin, DeleteEnd, DeleteBlocked, DeleteStops, DeleteDone, Touch, Idle,
           SaveStates, InstallStates
    <3>3. CASE Save(x) /\ ~SaveFails(x)
      BY <1>1, <3>1, <3>3 DEF Save, SaveFails, OpenTmp, WriteTmp, Rename, RemoveFile,
         RenameAgain, Committed, InstallStates, lives
    <3>4. CASE SaveFails(x)
      BY <1>1, <3>4, SaveFailsGoesOn DEF InstallStates
    <3>5. CASE Serve(x)
      BY <1>1, <1>5, <3>1, <3>5 DEF Serve, Decline, Accept, InstallPython, InstallNext,
         InstallFails, MarkReady, InstallStates, lives
    <3>6. QED
      BY <3>1, <3>2, <3>3, <3>4, <3>5 DEF StepOf
  <2>2. p \in todo[x] \/ Held(p)
    BY <1>1, <2>1 DEF IInv, KnowledgeInv
  <2>3. pc[x] \notin {"delete", "deleting"}
    BY <1>1, <2>1 DEF PcInv, SaveStates, InstallStates
  <2>4. CASE Held(p)
    BY <1>3, <2>3, <2>4
  <2>5. CASE p \in todo[x] /\ ~Held(p)
    <3>1. CASE InstallNext(x)
      <4>1. ~Installed(p)
        BY <1>1, <1>2, <2>3, <2>5, InstalledIsHeld
      <4>2. QED
        BY <1>1, <1>2, <2>5, <3>1, <4>1 DEF InstallNext, Held, Kept, Installed
    <3>2. CASE SaveFails(x)
      BY <1>1, <2>5, <3>2, SaveFailsGoesOn DEF InstallStates
    <3>3. CASE ~InstallNext(x) /\ ~SaveFails(x)
      BY <1>1, <1>5, <2>1, <2>5, <3>3 DEF PcInv, SaveStates, InstallStates, StepOf,
         SaveFails, StartProcess, EndProcess, Crash, Forget, Save, OpenTmp, WriteTmp,
         Rename, RemoveFile, RenameAgain, Touch, Serve, Decline, Accept, InstallPython,
         InstallFails, MarkReady, Manage, LaunchApp, RemoveApp, InstallLoose, CleanUnused,
         DeleteBegin, DeleteEnd, DeleteBlocked, DeleteStops, DeleteDone, Idle
    <3>4. QED
      BY <3>1, <3>2, <3>3
  <2>6. QED
    BY <2>2, <2>4, <2>5
<1>6. QED
  BY <1>4, <1>5

(* The packages to delete are counted in the registry the process has in   *)
(* memory, the removed application left out, and it keeps that registry    *)
(* until they are deleted.                                                 *)
LEMMA StepDeletion ==
  ASSUME IInv, NEW x \in Processes, StepOf(x), ~overlapped', x \in alive',
         pc'[x] \in {"delete", "deleting"} \/ after'[x] = "delete",
         NEW p \in todo'[x] \cup busy'[x]
  PROVE  Unreferenced(p, mem'[x], {})
<1> USE DEF TypeOK, SaveThen, Goto
<1>1. TypeOK /\ PcInv /\ AloneInv /\ SaveInv /\ ~overlapped
  BY StepAlone DEF IInv
<1>2. ~StartProcess(x) /\ ~EndProcess(x) /\ ~Crash(x) /\ x \in alive
  BY <1>1, StepIsAlive DEF PcInv, StartProcess, EndProcess, Crash, Forget, SaveStates
<1>3. CASE \E a \in Apps, cleanUnused \in BOOLEAN : RemoveApp(x, a, cleanUnused)
  <2>1. PICK a \in Apps, cleanUnused \in BOOLEAN : RemoveApp(x, a, cleanUnused)
    BY <1>3
  <2>2. busy'[x] = {}
    BY <1>1, <2>1 DEF RemoveApp, PcInv, Idle
  <2>3. Installed(p) /\ Unreferenced(p, mem[x], {a})
    BY <1>1, <2>1, <2>2 DEF RemoveApp
  <2>4. mem'[x] = [mem[x] EXCEPT ![a] = "absent"]
    BY <1>1, <2>1 DEF RemoveApp
  <2>5. QED
    BY <1>1, <2>3, <2>4 DEF Unreferenced, Registries
<1>4. CASE CleanUnused(x)
  BY <1>1, <1>2, <1>4 DEF CleanUnused, PcInv, Idle
<1>5. CASE ~(\E a \in Apps, cleanUnused \in BOOLEAN : RemoveApp(x, a, cleanUnused))
           /\ ~CleanUnused(x)
  <2>1. /\ mem'[x] = mem[x] /\ p \in todo[x] \cup busy[x]
        /\ pc[x] \in {"delete", "deleting"} \/ after[x] = "delete"
    <3>1. CASE Save(x)
      <4>1. ~SaveFails(x)
        BY <1>1, SaveFailsGoesOn DEF PcInv
      <4>2. QED
        BY <1>1, <1>2, <3>1, <4>1 DEF PcInv, Save, SaveFails, OpenTmp, WriteTmp, Rename,
           RemoveFile, RenameAgain, Committed, lives
    <3>2. ~Serve(x) /\ ~Touch(x)
      BY <1>1, <1>2 DEF PcInv, SaveStates, Serve, Launch, Decline, Accept, InstallPython,
         InstallNext, InstallFails, MarkReady, Touch, Idle
    <3>3. CASE Manage(x)
      BY <1>1, <1>2, <1>5, <3>3 DEF PcInv, SaveStates, Manage, LaunchApp, InstallLoose,
         DeleteBegin, DeleteEnd, DeleteBlocked, DeleteStops, DeleteDone, Idle
    <3>4. QED
      BY <1>2, <3>1, <3>2, <3>3 DEF StepOf
  <2>2. QED
    BY <1>1, <1>2, <2>1 DEF IInv, KnowledgeInv
<1>6. QED
  BY <1>3, <1>4, <1>5

(* A process whose last save failed notes what it begins to delete.        *)
LEMMA StepMisled ==
  ASSUME IInv, NEW x \in Processes, StepOf(x), ~overlapped', x \in alive', x \in unsaved'
  PROVE  busy'[x] \subseteq misled'
<1>1. TypeOK /\ PcInv /\ AloneInv /\ ~overlapped /\ PcInv'
  BY StepAlone, StepPcInv DEF IInv
<1>2. CASE pc'[x] # "deleting"
  BY <1>1, <1>2 DEF PcInv
<1>3. CASE pc'[x] = "deleting"
  <2>1. ~StartProcess(x) /\ ~EndProcess(x) /\ ~Crash(x) /\ ~SaveFails(x)
    <3>1. ~StartProcess(x) /\ ~EndProcess(x) /\ ~Crash(x)
      BY <1>1, <1>3 DEF PcInv, StartProcess, SaveThen, Goto, EndProcess, Crash, Forget,
         TypeOK
    <3>2. ~SaveFails(x)
      BY <1>1, <1>3, SaveFailsGoesOn DEF PcInv
    <3>3. QED
      BY <3>1, <3>2
  <2>2. DeleteBegin(x)
    <3>1. ~Save(x) /\ ~Touch(x)
      BY <1>1, <1>3, <2>1 DEF PcInv, Save, SaveFails, OpenTmp, WriteTmp, Rename,
         Committed, RemoveFile, RenameAgain, Touch, SaveThen, Goto, TypeOK
    <3>2. ~Serve(x)
      BY <1>1, <1>3 DEF Serve, Launch, Decline, Accept, InstallPython, InstallNext,
         InstallFails, MarkReady, SaveThen, Goto, TypeOK, Idle
    <3>3. Manage(x) => DeleteBegin(x)
      BY <1>1, <1>3 DEF Manage, LaunchApp, RemoveApp, InstallLoose, CleanUnused,
         DeleteEnd, DeleteBlocked, DeleteStops, DeleteDone, SaveThen, Goto, TypeOK, Idle
    <3>4. QED
      BY <2>1, <3>1, <3>2, <3>3 DEF StepOf
  <2>3. QED
    BY <1>1, <2>2 DEF DeleteBegin, TypeOK
<1>4. QED
  BY <1>2, <1>3

(* The four together. *)
LEMMA StepKnowledgeInv ==
  ASSUME IInv, NEW x \in Processes, StepOf(x)
  PROVE  KnowledgeInv'
<1>1. SUFFICES ASSUME ~overlapped', x \in alive'
      PROVE  /\ \A a \in Apps : mem'[x][a] = "ready" => \A p \in Deps[a] : Held(p)'
             /\ pc'[x] \in InstallStates \/ after'[x] \in InstallStates =>
                  \A p \in Deps[target'[x]] : p \in todo'[x] \/ Held(p)'
             /\ pc'[x] \in {"delete", "deleting"} \/ after'[x] = "delete" =>
                  \A p \in todo'[x] \cup busy'[x] : Unreferenced(p, mem'[x], {})
             /\ x \in unsaved' => busy'[x] \subseteq misled'
  BY StepAlone DEF KnowledgeInv, IInv, Unreferenced
<1>2. QED
  BY <1>1, StepReadyInMemory, StepInstallation, StepDeletion, StepMisled

(* registry.json says ready what a process had in memory when it saved it, *)
(* and no process alone deletes what registry.json needs.                  *)
LEMMA StepReadyHasPackagesAlone ==
  ASSUME IInv, NEW x \in Processes, StepOf(x)
  PROVE  ReadyHasPackagesAlone'
<1>1. SUFFICES ASSUME ~overlapped', NEW a \in Apps, file'.kind = "whole",
                      file'.regs[a] = "ready", NEW p \in Deps[a]
               PROVE  Held(p)'
  BY DEF ReadyHasPackagesAlone, Held
<1>2. TypeOK /\ PcInv /\ AloneInv /\ SaveInv /\ ~overlapped /\ p \in Packages
  BY <1>1, StepAlone, StoreAssumption DEF IInv
<1>3. CASE file' = file
  <2>1. Held(p)
    BY <1>1, <1>2, <1>3 DEF IInv, ReadyHasPackagesAlone, Held
  <2>2. SUFFICES ASSUME \/ DeleteBegin(x) /\ p \in todo[x] /\ x \notin unsaved
                        \/ DeleteEnd(x) /\ p \in busy[x] /\ p \notin misled
                 PROVE  FALSE
    BY <1>2, <2>1, StepHeld
  <2>3. x \in alive /\ pc[x] \in {"delete", "deleting"} /\ p \in todo[x] \cup busy[x]
    BY <1>2, <2>2 DEF DeleteBegin, DeleteEnd, PcInv
  <2>4. x \notin unsaved
    BY <1>2, <2>2, <2>3 DEF IInv, KnowledgeInv
  <2>5. mem[x][a] = "ready"
    BY <1>1, <1>2, <1>3, <2>3, <2>4 DEF SaveInv, SaveStates, Whole
  <2>6. QED
    BY <1>2, <2>3, <2>5 DEF IInv, KnowledgeInv, Unreferenced
<1>4. CASE (Rename(x) \/ RenameAgain(x)) /\ file' # file
  <2>1. /\ x \in alive /\ file' = Whole(mem[x])
        /\ pool' = pool /\ halved' = halved /\ misled' = misled
    BY <1>2, <1>4 DEF Rename, RenameAgain, Committed, PcInv, SaveInv
  <2>2. mem[x][a] = "ready"
    BY <1>1, <2>1 DEF Whole
  <2>3. QED
    BY <1>2, <2>1, <2>2 DEF IInv, KnowledgeInv, Held, Kept, Installed
<1>5. CASE RemoveFile(x) /\ file' # file
  BY <1>1, <1>5 DEF RemoveFile, Missing
<1>6. QED
  BY <1>3, <1>4, <1>5 DEF StepOf, StartProcess, EndProcess, Crash, Save, OpenTmp,
     WriteTmp, OpenTmpFails, WriteTmpFails, RenameAgainFails, Touch, Serve, Launch,
     Decline, Accept, InstallPython, InstallNext, InstallFails, MarkReady, Manage,
     LaunchApp, RemoveApp, InstallLoose, CleanUnused, DeleteBegin, DeleteEnd,
     DeleteBlocked, DeleteStops, DeleteDone, disk

-----------------------------------------------------------------------------
(* The invariant.                                                          *)

(* It holds of an empty installation. *)
LEMMA InitIInv == Init => IInv
<1> SUFFICES ASSUME Init
             PROVE  IInv
  OBVIOUS
<1>1. (CHOOSE a \in Apps : TRUE) \in Apps
  BY StoreAssumption
<1>2. Empty \in Registries /\ Whole(Empty) \in FileStates /\ Missing \in FileStates
  BY DEF Empty, Registries, AppStates, Whole, Missing, FileStates
<1>3. TypeOK
  <2>1. file \in FileStates /\ tmpFile \in FileStates /\ faults \in 0..MaxFaults
    BY <1>2, StoreAssumption DEF Init
  <2>2. target \in [Processes -> Apps] /\ mem \in [Processes -> Registries]
    BY <1>1, <1>2 DEF Init
  <2>3. QED
    BY <2>1, <2>2 DEF Init, TypeOK, PcStates
<1>4. PcInv /\ AloneInv /\ SaveInv /\ KnowledgeInv /\ PartialIsAttended
  BY DEF Init, PcInv, SaveStates, AloneInv, SaveInv, KnowledgeInv, PartialIsAttended
<1>5. FileSound /\ ReadyHasPackagesAlone
  BY DEF Init, FileSound, ReadyHasPackagesAlone, Whole, Empty
<1>6. QED
  BY <1>3, <1>4, <1>5 DEF IInv

(* Steps of a process preserve it. *)
LEMMA ProcessIInv ==
  ASSUME IInv, NEW x \in Processes, StepOf(x)
  PROVE  IInv'
<1>1. TypeOK' /\ PcInv' /\ AloneInv' /\ SaveInv' /\ FileSound' /\ PartialIsAttended'
  BY StepTypeOK, StepPcInv, StepAloneInv, StepSaveInv, StepFileSound,
     StepPartialIsAttended DEF IInv
<1>2. QED
  BY <1>1, StepKnowledgeInv, StepReadyHasPackagesAlone DEF IInv

(* So does a step that changes nothing. *)
LEMMA StutterIInv == ASSUME IInv, UNCHANGED vars PROVE IInv'
<1> USE DEF vars, lives, past, disk
<1>1. TypeOK' /\ PcInv' /\ AloneInv' /\ SaveInv'
  BY DEF IInv, TypeOK, PcInv, AloneInv, SaveInv
<1>2. FileSound' /\ PartialIsAttended' /\ ReadyHasPackagesAlone'
  BY DEF IInv, FileSound, PartialIsAttended, ReadyHasPackagesAlone, Kept, Installed
<1>3. KnowledgeInv'
  BY DEF IInv, KnowledgeInv, Held, Kept, Installed, Unreferenced
<1>4. QED
  BY <1>1, <1>2, <1>3 DEF IInv

(* A step of the system is one of a process, or nothing happens. *)
LEMMA NextIsStep ==
  ASSUME [Next]_vars
  PROVE  (\E x \in Processes : StepOf(x)) \/ UNCHANGED vars
BY DEF Next, StepOf, StartFails, Processes

(* Every step preserves it. *)
LEMMA NextIInv == IInv /\ [Next]_vars => IInv'
BY NextIsStep, ProcessIInv, StutterIInv

(* The inductive invariant holds in every reachable state. *)
THEOREM Invariance == Spec => []IInv
<1>1. QED
  BY InitIInv, NextIInv, PTL DEF Spec

(* The variables stay in their types; in particular every save goes back   *)
(* to a place of an operation.                                             *)
THEOREM TypeCorrect == Spec => []TypeOK
<1>1. IInv => TypeOK
  BY DEF IInv
<1>2. QED
  BY <1>1, Invariance, PTL

(* While processes run one after the other, what a process did is in       *)
(* registry.json when it is done, unless its last save failed.             *)
THEOREM ChangesAreDurable == Spec => []Durable
<1>1. IInv => Durable
  BY DEF IInv, SaveInv, SaveStates, Durable
<1>2. QED
  BY <1>1, Invariance, PTL

(* While processes run one after the other, registry.json is never torn,   *)
(* whatever fails and whoever dies; it is missing only after a failure,    *)
(* and then no process that is out of its saves takes it for saved.        *)
THEOREM RegistryIsSound == Spec => []FileSound
<1>1. IInv => FileSound
  BY DEF IInv
<1>2. QED
  BY <1>1, Invariance, PTL

(* While processes run one after the other, a ready application has all of *)
(* its packages, whole unless a deletion broke off; but for those deleted  *)
(* by a process whose change did not reach the file.                       *)
THEOREM ReadyIsComplete == Spec => []ReadyHasPackagesAlone
<1>1. IInv => ReadyHasPackagesAlone
  BY DEF IInv
<1>2. QED
  BY <1>1, Invariance, PTL

(* However processes overlap, half a package is being deleted, unless a    *)
(* deletion of it broke off and none has been completed since.             *)
THEOREM HalvesAreAttended == Spec => []PartialIsAttended
<1>1. IInv => PartialIsAttended
  BY DEF IInv
<1>2. QED
  BY <1>1, Invariance, PTL

(* While processes run one after the other, no deletion starts on a        *)
(* package a recorded application needs, unless the last save of the       *)
(* process failed.                                                         *)
THEOREM DeletionIsSafe == Spec => DeletesOnlyUnreferenced
<1> DEFINE Safe ==
      \A p \in Packages : pool[p] = "whole" /\ pool'[p] = "partial" =>
        \/ overlapped \/ unsaved # {}
        \/ \A a \in Apps : InFile(a) => p \notin Deps[a]
<1>1. IInv /\ [Next]_vars => [Safe]_vars
  <2> SUFFICES ASSUME IInv, [Next]_vars, NEW p \in Packages, pool[p] = "whole",
                      pool'[p] = "partial", ~overlapped, unsaved = {},
                      NEW a \in Apps, InFile(a)
               PROVE  p \notin Deps[a]
    OBVIOUS
  <2>1. PICK x \in Processes : StepOf(x)
    BY NextIsStep DEF vars
  <2>2. TypeOK /\ PcInv /\ SaveInv /\ KnowledgeInv
    BY DEF IInv
  <2>3. (DeleteBegin(x) /\ p \in todo[x]) \/ (DeleteStops(x) /\ p \in busy[x])
    <3>1. DeleteBegin(x) \/ DeleteStops(x)
      BY <2>1, <2>2 DEF TypeOK, StepOf, StartProcess, EndProcess, Crash, Save, OpenTmp,
         WriteTmp, Rename, RemoveFile, RenameAgain, OpenTmpFails, WriteTmpFails,
         RenameAgainFails, Touch, Serve, Launch, Decline, Accept, InstallPython,
         InstallNext, InstallFails, MarkReady, Manage, LaunchApp, RemoveApp, InstallLoose,
         CleanUnused, DeleteEnd, DeleteBlocked, DeleteDone, disk
    <3>2. DeleteBegin(x) => p \in todo[x]
      BY <2>2 DEF TypeOK, DeleteBegin
    <3>3. DeleteStops(x) => p \in busy[x]
      BY <2>2 DEF TypeOK, DeleteStops
    <3>4. QED
      BY <3>1, <3>2, <3>3
  <2>4. x \in alive /\ pc[x] \in {"delete", "deleting"} /\ p \in todo[x] \cup busy[x]
    BY <2>2, <2>3 DEF DeleteBegin, DeleteStops, PcInv
  <2>5. file = Whole(mem[x]) /\ Unreferenced(p, mem[x], {})
    BY <2>2, <2>4 DEF SaveInv, KnowledgeInv, SaveStates
  <2>6. QED
    BY <2>5 DEF InFile, Whole, Unreferenced
<1>2. QED
  BY <1>1, Invariance, PTL DEF Spec, DeletesOnlyUnreferenced
=============================================================================
