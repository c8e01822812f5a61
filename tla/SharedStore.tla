---------------------------- MODULE SharedStore ----------------------------
(***************************************************************************)
(* What Hrunner's processes share on disk, registry.json and the package   *)
(* pool, and what each process keeps of it in memory: the registry as it   *)
(* was when the process started plus its own changes                       *)
(* (pkg/registry/registry.go). Every change saves that copy whole, through *)
(* a temporary file that has one name for all processes.                   *)
(*                                                                         *)
(* A server process registers applications and installs their packages     *)
(* (HandleLaunchRequest); a manager process, the window or a command of    *)
(* the command line, removes applications, cleans unused packages,         *)
(* installs single packages and notes launches (pkg/storage/storage.go,    *)
(* cmd/hrunner/main.go, pkg/ui/manager_native.go). Saving takes several    *)
(* system calls and deleting a package directory takes several more; each  *)
(* call can fail, and a process can die between any two.                   *)
(*                                                                         *)
(* Deps[a] stands for the plan a is registered with. What one server does  *)
(* with several requests at once is in LaunchSession.                      *)
(***************************************************************************)
EXTENDS Naturals

CONSTANTS
  Servers, Managers, \* processes, by what they do
  Apps, Packages,
  Deps,              \* the packages each application is registered with
  MaxFaults,         \* bound: processes that die in the middle of something and
                     \*   system calls that fail with no other process to blame
  MaxSharedFaults    \* the same in histories in which processes overlap

Processes == Servers \cup Managers

ASSUME StoreAssumption ==
  /\ Apps # {}
  /\ Deps \in [Apps -> SUBSET Packages]
  /\ MaxFaults \in Nat
  /\ MaxSharedFaults \in 0..MaxFaults

VARIABLES
  file,    \* registry.json
  tmpFile, \* registry.json.tmp
  pool,    \* each package directory: "absent", "whole" or "partial"
  alive,   \* the processes that run
  mem,     \* the registry each process has in memory
  pc,      \* where each process stands
  after,   \* where it goes on when its save is done
  todo,    \* the packages it still has to install or delete
  busy,    \* the package it is in the middle of deleting
  target,  \* the application it is launching
  faults,  \* deaths and failures so far
  overlapped, \* history: have two processes been alive at the same time?
  unsaved, \* history: the processes whose last save failed
  halved,  \* history: the packages whose deletion broke off half way
  misled   \* history: the packages a process in "unsaved" began to delete

vars == <<file, tmpFile, pool, alive, mem, pc, after, todo, busy, target,
          faults, overlapped, unsaved, halved, misled>>
disk == <<file, tmpFile, pool>>
lives == <<alive, faults, overlapped>>
past == <<unsaved, halved, misled>>

(* "registered" stands for every state of a record that is not ready. *)
AppStates == {"absent", "registered", "ready"}
Registries == [Apps -> AppStates]
Empty == [a \in Apps |-> "absent"]

FileStates == [kind : {"whole", "torn", "missing"}, regs : Registries]
Whole(r) == [kind |-> "whole", regs |-> r]
Torn == [kind |-> "torn", regs |-> Empty]
Missing == [kind |-> "missing", regs |-> Empty]

SaveStates == {"openTmp", "writeTmp", "rename", "removeFile", "renameAgain"}
PcStates == {"idle", "confirm", "installPython", "install", "touch", "delete",
             "deleting"} \cup SaveStates

TypeOK ==
  /\ file \in FileStates
  /\ tmpFile \in FileStates
  /\ pool \in [Packages -> {"absent", "whole", "partial"}]
  /\ alive \subseteq Processes
  /\ mem \in [Processes -> Registries]
  /\ pc \in [Processes -> PcStates]
  /\ after \in [Processes -> PcStates \cup {"begin"}]
  /\ todo \in [Processes -> SUBSET Packages]
  /\ busy \in [Processes -> SUBSET Packages]
  /\ target \in [Processes -> Apps]
  /\ faults \in 0..MaxFaults
  /\ overlapped \in BOOLEAN
  /\ unsaved \subseteq Processes
  /\ halved \subseteq Packages
  /\ misled \subseteq Packages

(* An empty installation. *)
Init ==
  /\ file = Whole(Empty)
  /\ tmpFile = Missing
  /\ pool = [p \in Packages |-> "absent"]
  /\ alive = {}
  /\ mem = [x \in Processes |-> Empty]
  /\ pc = [x \in Processes |-> "idle"]
  /\ after = [x \in Processes |-> "idle"]
  /\ todo = [x \in Processes |-> {}]
  /\ busy = [x \in Processes |-> {}]
  /\ target = [x \in Processes |-> CHOOSE a \in Apps : TRUE]
  /\ faults = 0
  /\ overlapped = FALSE
  /\ unsaved = {}
  /\ halved = {}
  /\ misled = {}

(* A death, or a call that fails for a reason of its own. *)
Fault ==
  /\ faults < IF overlapped THEN MaxSharedFaults ELSE MaxFaults
  /\ faults' = faults + 1

Goto(x, s) == pc' = [pc EXCEPT ![x] = s]
Idle(x) == x \in alive /\ pc[x] = "idle"

(* Change the copy in memory to r, save it, go on at s. *)
SaveThen(x, r, s) ==
  /\ mem' = [mem EXCEPT ![x] = r]
  /\ after' = [after EXCEPT ![x] = s]
  /\ Goto(x, "openTmp")

(* IsPackageInstalled: the directory exists and is not empty. *)
Installed(p) == pool[p] # "absent"

(* The reference count of p in registry r is zero, applications in Except  *)
(* not counted.                                                            *)
Unreferenced(p, r, Except) ==
  \A a \in Apps \ Except : r[a] # "absent" => p \notin Deps[a]

-----------------------------------------------------------------------------
(* Processes start, end and die.                                           *)

(* NewRegistry: a missing file is created empty; with a file that cannot   *)
(* be parsed the process does not start.                                   *)
StartProcess(x) ==
  /\ x \notin alive
  /\ alive = {} \/ faults <= MaxSharedFaults
  /\ file.kind # "torn"
  /\ alive' = alive \cup {x}
  /\ overlapped' = (overlapped \/ alive # {})
  /\ IF file.kind = "whole"
     THEN mem' = [mem EXCEPT ![x] = file.regs] /\ UNCHANGED <<pc, after>>
     ELSE SaveThen(x, Empty, "begin")
  /\ UNCHANGED <<disk, todo, busy, target, faults, past>>

(* "corrupted registry file": every command exits with an error. *)
StartFails(x) ==
  /\ x \notin alive
  /\ file.kind = "torn"
  /\ UNCHANGED vars

(* Nothing of a process that has ended is left but what is on disk. *)
Forget(x) ==
  /\ alive' = alive \ {x}
  /\ mem' = [mem EXCEPT ![x] = Empty]
  /\ pc' = [pc EXCEPT ![x] = "idle"]
  /\ after' = [after EXCEPT ![x] = "idle"]
  /\ todo' = [todo EXCEPT ![x] = {}]
  /\ busy' = [busy EXCEPT ![x] = {}]
  /\ unsaved' = unsaved \ {x}

EndProcess(x) ==
  /\ Idle(x)
  /\ Forget(x)
  /\ UNCHANGED <<disk, target, faults, overlapped, halved, misled>>

Crash(x) ==
  /\ x \in alive
  /\ pc[x] # "idle"
  /\ Fault
  /\ halved' = halved \cup {p \in busy[x] : pool[p] = "partial"}
  /\ Forget(x)
  /\ UNCHANGED <<disk, target, overlapped, misled>>

-----------------------------------------------------------------------------
(* saveLocked. Any of its calls can fail.                                  *)

(* The save ends in an error. A process that is starting ends, a removal   *)
(* deletes nothing, every other caller goes on, with its change in memory. *)
SaveError(x) ==
  IF after[x] = "begin" THEN Forget(x)
  ELSE /\ Goto(x, IF after[x] = "delete" THEN "idle" ELSE after[x])
       /\ todo' = [todo EXCEPT ![x] = IF after[x] = "delete" THEN {} ELSE @]
       /\ after' = [after EXCEPT ![x] = "idle"]
       /\ unsaved' = unsaved \cup {x}
       /\ UNCHANGED <<alive, mem, busy>>

(* Variant: registry.json itself is opened for writing. *)
OpenTmp_InPlace(x) ==
  /\ pc[x] = "openTmp"
  /\ file' = Torn /\ tmpFile' = Torn
  /\ Goto(x, "writeTmp")
  /\ UNCHANGED <<pool, mem, after, todo, target, busy, lives, past>>

(* os.WriteFile opens and truncates the temporary file ...                 *)
OpenTmp(x) ==
  /\ pc[x] = "openTmp"
  /\ tmpFile' = Torn
  /\ Goto(x, "writeTmp")
  /\ UNCHANGED <<file, pool, mem, after, todo, target, busy, lives, past>>

OpenTmpFails(x) ==
  /\ pc[x] = "openTmp"
  /\ Fault
  /\ SaveError(x)
  /\ UNCHANGED <<disk, target, overlapped, halved, misled>>

OthersWriting(x) == \E y \in Processes \ {x} : pc[y] = "writeTmp"

(* ... and writes it. Of two writers at once, one can leave the end of the *)
(* other's text behind its own.                                            *)
WriteTmp(x) ==
  /\ pc[x] = "writeTmp"
  /\ \/ tmpFile' = Whole(mem[x])
     \/ (OthersWriting(x) \/ tmpFile.kind = "whole") /\ tmpFile' = Torn
  /\ Goto(x, "rename")
  /\ UNCHANGED <<file, pool, mem, after, todo, target, busy, lives, past>>

(* What is written so far stays. *)
WriteTmpFails(x) ==
  /\ pc[x] = "writeTmp"
  /\ Fault
  /\ tmpFile' = Torn
  /\ SaveError(x)
  /\ UNCHANGED <<file, pool, target, overlapped, halved, misled>>

(* os.Rename needs the temporary file, and nobody may have it open. *)
RenamePossible(x) == tmpFile.kind # "missing" /\ ~OthersWriting(x)

(* A rename that another process makes impossible fails; any other may. *)
RenameFails(x) ==
  IF RenamePossible(x) THEN Fault ELSE UNCHANGED faults

(* Variant: a process that starts does not go on after its first save. *)
Committed_Begin(x) ==
  /\ file' = tmpFile
  /\ tmpFile' = Missing
  /\ Goto(x, after[x])
  /\ after' = [after EXCEPT ![x] = "idle"]
  /\ unsaved' = unsaved \ {x}

Committed(x) ==
  /\ file' = tmpFile
  /\ tmpFile' = Missing
  /\ Goto(x, IF after[x] = "begin" THEN "idle" ELSE after[x])
  /\ after' = [after EXCEPT ![x] = "idle"]
  /\ unsaved' = unsaved \ {x}

Rename(x) ==
  /\ pc[x] = "rename"
  /\ \/ /\ RenamePossible(x)
        /\ Committed(x)
        /\ UNCHANGED faults
     \/ /\ RenameFails(x)
        /\ Goto(x, "removeFile")
        /\ UNCHANGED <<file, tmpFile, after, unsaved>>
  /\ UNCHANGED <<pool, mem, todo, target, busy, alive, overlapped, halved, misled>>

(* The fallback: remove registry.json, whatever comes of it ...            *)
RemoveFile(x) ==
  /\ pc[x] = "removeFile"
  /\ \/ file' = Missing /\ UNCHANGED faults
     \/ Fault /\ UNCHANGED file
  /\ Goto(x, "renameAgain")
  /\ UNCHANGED <<tmpFile, pool, mem, after, todo, target, busy, alive, overlapped, past>>

(* ... and rename again. *)
RenameAgain(x) ==
  /\ pc[x] = "renameAgain"
  /\ RenamePossible(x)
  /\ Committed(x)
  /\ UNCHANGED <<pool, mem, todo, target, busy, lives, halved, misled>>

(* A second failure is an error. *)
RenameAgainFails(x) ==
  /\ pc[x] = "renameAgain"
  /\ RenameFails(x)
  /\ SaveError(x)
  /\ UNCHANGED <<disk, target, overlapped, halved, misled>>

-----------------------------------------------------------------------------
(* A server: HandleLaunchRequest for one application after the other.      *)

(* The resolver's missing packages become the work to do; the record is    *)
(* written anew, whatever state it was in. The user is asked if a package  *)
(* is missing, or the runtime.                                             *)
Launch(x, a) ==
  LET missing == {p \in Deps[a] : ~Installed(p)} IN
  /\ Idle(x)
  /\ target' = [target EXCEPT ![x] = a]
  /\ todo' = [todo EXCEPT ![x] = missing]
  /\ \E s \in {"confirm", "touch"} :
       /\ missing # {} => s = "confirm"
       /\ SaveThen(x, [mem[x] EXCEPT ![a] = "registered"], s)
  /\ UNCHANGED <<disk, busy, lives, past>>

(* The user declines (StateBroken) ... *)
Decline(x) ==
  /\ pc[x] = "confirm"
  /\ todo' = [todo EXCEPT ![x] = {}]
  /\ SaveThen(x, mem[x], "idle")
  /\ UNCHANGED <<disk, target, busy, lives, past>>

(* Variant: the record says ready before anything is installed. *)
Accept_Ready(x) ==
  /\ pc[x] = "confirm"
  /\ SaveThen(x, [mem[x] EXCEPT ![target[x]] = "ready"], "install")
  /\ UNCHANGED <<disk, todo, target, busy, lives, past>>

(* ... or accepts (StateInstalling): the runtime comes first, if missing.  *)
Accept(x) ==
  /\ pc[x] = "confirm"
  /\ \E s \in {"installPython", "install"} :
       /\ todo[x] = {} => s = "installPython"
       /\ SaveThen(x, mem[x], s)
  /\ UNCHANGED <<disk, todo, target, busy, lives, past>>

InstallPython(x) ==
  /\ pc[x] = "installPython"
  /\ Goto(x, "install")
  /\ UNCHANGED <<disk, mem, after, todo, target, busy, lives, past>>

(* EnsurePackage and InstallWheel: a package that is there is left alone,  *)
(* the others come whole, by a rename.                                     *)
InstallNext(x) ==
  /\ pc[x] = "install"
  /\ \E p \in todo[x] :
       /\ todo' = [todo EXCEPT ![x] = @ \ {p}]
       /\ pool' = [pool EXCEPT ![p] = IF Installed(p) THEN @ ELSE "whole"]
       /\ misled' = IF Installed(p) THEN misled ELSE misled \ {p}
  /\ UNCHANGED <<file, tmpFile, mem, pc, after, target, busy, lives, unsaved, halved>>

(* A runtime or package that cannot be had ends the request (StateBroken). *)
InstallFails(x) ==
  /\ pc[x] = "installPython" \/ (pc[x] = "install" /\ todo[x] # {})
  /\ todo' = [todo EXCEPT ![x] = {}]
  /\ SaveThen(x, mem[x], "idle")
  /\ UNCHANGED <<disk, target, busy, lives, past>>

(* Variant: the state is changed in memory and not saved. *)
MarkReady_Unsaved(x) ==
  /\ pc[x] = "install"
  /\ todo[x] = {}
  /\ mem' = [mem EXCEPT ![x][target[x]] = "ready"]
  /\ Goto(x, "idle")
  /\ UNCHANGED <<disk, after, todo, target, busy, lives, past>>

(* All installed (StateReady). The user then starts the application or     *)
(* closes the dialog.                                                      *)
MarkReady(x) ==
  /\ pc[x] = "install"
  /\ todo[x] = {}
  /\ \E s \in {"touch", "idle"} :
       SaveThen(x, [mem[x] EXCEPT ![target[x]] = "ready"], s)
  /\ UNCHANGED <<disk, todo, target, busy, lives, past>>

(* UpdateLastLaunched, after LaunchReady. *)
Touch(x) ==
  /\ pc[x] = "touch"
  /\ SaveThen(x, mem[x], "idle")
  /\ UNCHANGED <<disk, todo, target, busy, lives, past>>

-----------------------------------------------------------------------------
(* A manager.                                                              *)

(* launchApp: the record and its time stamp; the pool is not looked at. *)
LaunchApp(x, a) ==
  /\ Idle(x)
  /\ mem[x][a] # "absent"
  /\ Goto(x, "touch")
  /\ UNCHANGED <<disk, mem, after, todo, busy, target, lives, past>>

(* EnsurePackage for hrunner install and hrunner install-requirements. *)
InstallLoose(x, p) ==
  /\ Idle(x)
  /\ ~Installed(p)
  /\ pool' = [pool EXCEPT ![p] = "whole"]
  /\ misled' = misled \ {p}
  /\ UNCHANGED <<file, tmpFile, mem, pc, after, todo, target, busy, lives, unsaved,
                 halved>>

(* Variant: all packages of the application are deleted. *)
RemoveApp_AllOfIts(x, a, cleanUnused) ==
  LET orphans == {p \in Deps[a] : Installed(p)} IN
  /\ Idle(x)
  /\ mem[x][a] # "absent"
  /\ todo' = [todo EXCEPT ![x] = IF cleanUnused THEN orphans ELSE {}]
  /\ SaveThen(x, [mem[x] EXCEPT ![a] = "absent"],
              IF cleanUnused THEN "delete" ELSE "idle")
  /\ UNCHANGED <<disk, busy, target, lives, past>>

(* RemoveApplicationAndCleanup: the packages that only a needs are found   *)
(* first, the record goes next, the packages last.                         *)
RemoveApp(x, a, cleanUnused) ==
  LET orphans == {p \in Deps[a] : Installed(p) /\ Unreferenced(p, mem[x], {a})} IN
  /\ Idle(x)
  /\ mem[x][a] # "absent"
  /\ todo' = [todo EXCEPT ![x] = IF cleanUnused THEN orphans ELSE {}]
  /\ SaveThen(x, [mem[x] EXCEPT ![a] = "absent"],
              IF cleanUnused THEN "delete" ELSE "idle")
  /\ UNCHANGED <<disk, busy, target, lives, past>>

(* CleanUnusedPackages: what no record in memory needs. *)
CleanUnused(x) ==
  /\ Idle(x)
  /\ todo' = [todo EXCEPT ![x] =
                {p \in Packages : Installed(p) /\ Unreferenced(p, mem[x], {})}]
  /\ Goto(x, "delete")
  /\ UNCHANGED <<disk, mem, after, target, busy, lives, past>>

(* RemovePackageVersion: os.RemoveAll deletes one file after the other ... *)
DeleteBegin(x) ==
  /\ pc[x] = "delete"
  /\ \E p \in todo[x] :
       /\ todo' = [todo EXCEPT ![x] = @ \ {p}]
       /\ busy' = [busy EXCEPT ![x] = {p}]
       /\ pool' = [pool EXCEPT ![p] = IF Installed(p) THEN "partial" ELSE @]
       /\ misled' = IF x \in unsaved THEN misled \cup {p} ELSE misled
  /\ Goto(x, "deleting")
  /\ UNCHANGED <<file, tmpFile, mem, after, target, lives, unsaved, halved>>

(* Variant: the directory is not removed to its end. *)
DeleteEnd_Leaves(x) ==
  /\ pc[x] = "deleting"
  /\ busy' = [busy EXCEPT ![x] = {}]
  /\ Goto(x, "delete")
  /\ UNCHANGED <<disk, mem, after, todo, target, lives, past>>

(* ... the last file and the directory are gone ...                        *)
DeleteEnd(x) ==
  /\ pc[x] = "deleting"
  /\ pool' = [p \in Packages |-> IF p \in busy[x] THEN "absent" ELSE pool[p]]
  /\ halved' = halved \ busy[x]
  /\ busy' = [busy EXCEPT ![x] = {}]
  /\ Goto(x, "delete")
  /\ UNCHANGED <<file, tmpFile, mem, after, todo, target, lives, unsaved, misled>>

(* ... or it stops at a file that cannot be deleted, the first or a later  *)
(* one. Both callers go on with the next package.                          *)
DeleteBlocked(x) ==
  /\ pc[x] = "delete"
  /\ Fault
  /\ \E p \in todo[x] : todo' = [todo EXCEPT ![x] = @ \ {p}]
  /\ UNCHANGED <<disk, mem, pc, after, target, busy, alive, overlapped, past>>

DeleteStops(x) ==
  /\ pc[x] = "deleting"
  /\ Fault
  /\ pool' = [p \in Packages |->
                IF p \in busy[x] /\ Installed(p) THEN "partial" ELSE pool[p]]
  /\ halved' = halved \cup {p \in busy[x] : Installed(p)}
  /\ busy' = [busy EXCEPT ![x] = {}]
  /\ Goto(x, "delete")
  /\ UNCHANGED <<file, tmpFile, mem, after, todo, target, alive, overlapped, unsaved,
                 misled>>

DeleteDone(x) ==
  /\ pc[x] = "delete"
  /\ todo[x] = {}
  /\ Goto(x, "idle")
  /\ UNCHANGED <<disk, mem, after, busy, todo, target, lives, past>>

-----------------------------------------------------------------------------

Save(x) ==
  \/ OpenTmp(x)
  \/ WriteTmp(x)
  \/ Rename(x)
  \/ RemoveFile(x)
  \/ RenameAgain(x)
  \/ OpenTmpFails(x)
  \/ WriteTmpFails(x)
  \/ RenameAgainFails(x)

Serve(x) ==
  \/ \E a \in Apps : Launch(x, a)
  \/ Decline(x)
  \/ Accept(x)
  \/ InstallPython(x)
  \/ InstallNext(x)
  \/ InstallFails(x)
  \/ MarkReady(x)

Manage(x) ==
  \/ \E a \in Apps : LaunchApp(x, a)
  \/ \E a \in Apps, cleanUnused \in BOOLEAN : RemoveApp(x, a, cleanUnused)
  \/ \E p \in Packages : InstallLoose(x, p)
  \/ CleanUnused(x)
  \/ DeleteBegin(x)
  \/ DeleteEnd(x)
  \/ DeleteBlocked(x)
  \/ DeleteStops(x)
  \/ DeleteDone(x)

Next ==
  \/ \E x \in Processes :
       \/ StartProcess(x)
       \/ StartFails(x)
       \/ EndProcess(x)
       \/ Crash(x)
       \/ Save(x)
       \/ Touch(x)
  \/ \E x \in Servers : Serve(x)
  \/ \E x \in Managers : Manage(x)

Spec == Init /\ [][Next]_vars

-----------------------------------------------------------------------------
(* Properties. The first four are about one process at a time (a history   *)
(* without overlap); the last two claim the same of any history, and fail. *)

InFile(a) == file.kind = "whole" /\ file.regs[a] # "absent"

(* While processes run one after the other, a process that is done with    *)
(* its operation leaves in registry.json exactly what it has in memory,    *)
(* whatever happened before, unless its last save failed; one that         *)
(* succeeds makes up for all that failed (saveLocked, registry.go).        *)
Durable ==
  ~overlapped =>
    \A x \in alive \ unsaved : pc[x] = "idle" => file = Whole(mem[x])

(* While processes run one after the other, registry.json is never torn,   *)
(* whatever fails and whoever dies. It can be missing after a failure;     *)
(* then the process that runs is in the middle of a save or its last save  *)
(* failed.                                                                 *)
FileSound ==
  ~overlapped =>
    /\ file.kind # "torn"
    /\ file.kind = "missing" =>
         faults > 0 /\ \A x \in alive : x \in unsaved \/ pc[x] \in SaveStates

(* In the pool, and whole unless its deletion broke off. *)
Kept(p) == Installed(p) /\ (pool[p] = "whole" \/ p \in halved)

(* While processes run one after the other, an application that            *)
(* registry.json calls ready has all of its packages in the pool, whole    *)
(* unless the deletion of one broke off; but for those a process deleted   *)
(* after its change to the registry failed to reach the file.              *)
ReadyHasPackagesAlone ==
  ~overlapped =>
    \A a \in Apps : file.kind = "whole" /\ file.regs[a] = "ready" =>
      \A p \in Deps[a] : p \in misled \/ Kept(p)

(* While processes run one after the other, no deletion starts on a        *)
(* package that a recorded application needs (storage.go: the reference    *)
(* count, RemoveApplicationAndCleanup's impact), unless the last save of   *)
(* the process failed.                                                     *)
DeletesOnlyUnreferenced ==
  [][\A p \in Packages : pool[p] = "whole" /\ pool'[p] = "partial" =>
       \/ overlapped \/ unsaved # {}
       \/ \A a \in Apps : InFile(a) => p \notin Deps[a]]_vars

(* However processes overlap, half a package is in the pool only while a   *)
(* process is deleting it, unless a deletion of it broke off: a file could *)
(* not be deleted, or the process died, and no deletion has been completed *)
(* since.                                                                  *)
PartialIsAttended ==
  \A p \in Packages : pool[p] = "partial" =>
    p \in halved \/ \E x \in alive : p \in busy[x]

(* README.md:306 calls hrunner clean safe: it deletes "orphaned packages   *)
(* with refcount == 0". Then a ready application always has its packages.  *)
(* It does not: the count is taken from the registry as it was when the    *)
(* manager started.                                                        *)
ReadyHasPackages ==
  \A a \in Apps : file.kind = "whole" /\ file.regs[a] = "ready" =>
    \A p \in Deps[a] : Installed(p)

(* registry.go:122 calls the save an "Atomic write via temp file": at any  *)
(* time registry.json is whole, or one save is between the two calls of    *)
(* its fallback. Two processes share the temporary file and undo this.     *)
FileCommitted ==
  file.kind = "whole" \/ \E x \in alive : pc[x] = "renameAgain"
=============================================================================
