--------------------------- MODULE LaunchSession ---------------------------
(***************************************************************************)
(* One Hrunner server process serving the launch requests of several       *)
(* application launchers at once: HandleLaunchRequest of                   *)
(* cmd/hrunner/main.go, one goroutine per launcher, over the registry, the *)
(* runtime store and the package pool they share, and the launcher itself, *)
(* from its request to the end of the application it runs                  *)
(* (cmd/hlauncher/main.go).                                                *)
(*                                                                         *)
(* The user answers the dialogs, the network fails or not, a launcher can  *)
(* be killed and the server process can crash; launchers then connect to   *)
(* a new server process, which reads the registry back from disk.          *)
(*                                                                         *)
(* Packages stand for name and version together. Progress messages, which  *)
(* the launcher skips, are left out. Starting and stopping the server is   *)
(* in PipeServer.                                                          *)
(***************************************************************************)
EXTENDS Naturals, Sequences, FiniteSets

CONSTANTS
  Launchers,      \* launcher processes
  Apps,           \* applications
  Packages,       \* package versions
  Direct,         \* Direct[a]: the dependencies pinned by the manifest of a
  Requires,       \* Requires[p]: what the metadata of p requires
  Pythons,        \* versions of one minor release of Python, by patch number;
                  \* finitely many, for the store is read from a directory
  PythonOf,       \* PythonOf[a]: the version the manifest of a asks for
  AllowCompatible,\* the applications whose manifest says allow_compatible
  NoPython,       \* no version selected
  MaxCrashes      \* bound: how often the server process crashes

ASSUME LaunchAssumption ==
  /\ Direct \in [Apps -> SUBSET Packages]
  /\ Requires \in [Packages -> SUBSET Packages]
  /\ Pythons \subseteq Nat /\ IsFiniteSet(Pythons)
  /\ PythonOf \in [Apps -> Pythons]
  /\ AllowCompatible \subseteq Apps
  /\ NoPython \notin Pythons
  /\ MaxCrashes \in Nat

VARIABLES
  launcher, \* "start", "waiting", "running", "failed", "ended"
  app,      \* the application each launcher carries
  inbox,    \* messages on the pipe to each launcher
  handler,  \* where HandleLaunchRequest stands for each launcher
  python,   \* selectedRuntime; NoPython is needInstallPython
  plan,     \* plan.AllPackages: the paths LaunchReady carries
  missing,  \* plan.MissingPackages still to be installed
  reg,      \* registry.json: state and dependencies of each application
  runtimes, \* versions in the runtime store
  storeLock,\* holder of the write lock of the runtime store
  pool,     \* installed package versions
  crashes

vars == <<launcher, app, inbox, handler, python, plan, missing, reg,
          runtimes, storeLock, pool, crashes>>

NoHolder == "nobody"

HandlerStates == {"none", "findExact", "findCompatible", "askPython", "resolve",
                  "register", "confirm", "installPython", "download",
                  "installPackages", "markReady", "complete", "sendReady",
                  "respond", "served",
                  "finish", "finished"}

AppStates == {"absent", "discovered", "installing", "ready", "broken"}

Messages == {"error", "ready", "launchReady", "eof"}

TypeOK ==
  /\ launcher \in [Launchers -> {"start", "waiting", "running", "failed", "ended"}]
  /\ app \in [Launchers -> Apps]
  /\ inbox \in [Launchers -> Seq(Messages)]
  /\ handler \in [Launchers -> HandlerStates]
  /\ python \in [Launchers -> Pythons \cup {NoPython}]
  /\ plan \in [Launchers -> SUBSET Packages]
  /\ missing \in [Launchers -> SUBSET Packages]
  /\ reg \in [Apps -> [state : AppStates, deps : SUBSET Packages]]
  /\ runtimes \subseteq Pythons
  /\ storeLock \in Launchers \cup {NoHolder}
  /\ pool \subseteq Packages
  /\ crashes \in 0..MaxCrashes

Init ==
  /\ launcher = [l \in Launchers |-> "start"]
  /\ app \in [Launchers -> Apps]
  /\ inbox = [l \in Launchers |-> <<>>]
  /\ handler = [l \in Launchers |-> "none"]
  /\ python = [l \in Launchers |-> NoPython]
  /\ plan = [l \in Launchers |-> {}]
  /\ missing = [l \in Launchers |-> {}]
  /\ reg = [a \in Apps |-> [state |-> "absent", deps |-> {}]]
  /\ runtimes \in SUBSET Pythons
  /\ storeLock = NoHolder
  /\ pool = {}
  /\ crashes = 0

Goto(l, s) == handler' = [handler EXCEPT ![l] = s]

Connected(l) == launcher[l] \in {"waiting", "running"}

(* SendMessage; an error (the launcher is gone) is ignored. *)
Send(l, m) ==
  inbox' = IF Connected(l) THEN [inbox EXCEPT ![l] = Append(@, m)] ELSE inbox

(* reg.UpdateState, which fails without effect on an unknown application. *)
UpdateState(a, s) ==
  reg' = IF reg[a].state = "absent" THEN reg ELSE [reg EXCEPT ![a].state = s]

-----------------------------------------------------------------------------
(* The launcher.                                                           *)

(* The launcher has found or started a server, dialled and sent its        *)
(* request; the server's read delivers it to a handler.                    *)
SendRequest(l) ==
  /\ launcher[l] = "start"
  /\ launcher' = [launcher EXCEPT ![l] = "waiting"]
  /\ Goto(l, "findExact")
  /\ UNCHANGED <<app, inbox, python, plan, missing, reg, runtimes,
                 storeLock, pool, crashes>>

Take(l) == inbox' = [inbox EXCEPT ![l] = Tail(@)]

Incoming(l, m) ==
  /\ launcher[l] = "waiting"
  /\ inbox[l] # <<>>
  /\ Head(inbox[l]) = m

(* A LaunchResponse with StatusError, or a failed read: exit code 1. *)
ReceiveFailure(l) ==
  /\ Incoming(l, "error") \/ Incoming(l, "eof")
  /\ Take(l)
  /\ launcher' = [launcher EXCEPT ![l] = "failed"]
  /\ UNCHANGED <<app, handler, python, plan, missing, reg, runtimes,
                 storeLock, pool, crashes>>

(* Any other LaunchResponse is read and the wait goes on. *)
ReceiveResponse(l) ==
  /\ Incoming(l, "ready")
  /\ Take(l)
  /\ UNCHANGED <<launcher, app, handler, python, plan, missing, reg,
                 runtimes, storeLock, pool, crashes>>

(* LaunchReady ends the wait: Python is started with the given paths. *)
ReceiveLaunchReady(l) ==
  /\ Incoming(l, "launchReady")
  /\ Take(l)
  /\ launcher' = [launcher EXCEPT ![l] = "running"]
  /\ UNCHANGED <<app, handler, python, plan, missing, reg, runtimes,
                 storeLock, pool, crashes>>

(* The application terminates; main returns and the pipe is closed. *)
AppEnds(l) ==
  /\ launcher[l] = "running"
  /\ launcher' = [launcher EXCEPT ![l] = "ended"]
  /\ inbox' = [inbox EXCEPT ![l] = <<>>]
  /\ UNCHANGED <<app, handler, python, plan, missing, reg, runtimes,
                 storeLock, pool, crashes>>

(* The user ends a waiting launcher; its handler does not notice. *)
KillLauncher(l) ==
  /\ launcher[l] = "waiting"
  /\ launcher' = [launcher EXCEPT ![l] = "failed"]
  /\ inbox' = [inbox EXCEPT ![l] = <<>>]
  /\ UNCHANGED <<app, handler, python, plan, missing, reg, runtimes,
                 storeLock, pool, crashes>>

-----------------------------------------------------------------------------
(* HandleLaunchRequest: choosing a runtime.                                *)

(* Find takes the read lock of the runtime store. *)
StoreReadable == storeLock = NoHolder

(* Find(req.Python, false). *)
FindExact(l) ==
  /\ handler[l] = "findExact"
  /\ StoreReadable
  /\ LET v == PythonOf[app[l]] IN
       IF v \in runtimes
       THEN python' = [python EXCEPT ![l] = v] /\ Goto(l, "resolve")
       ELSE UNCHANGED python /\ Goto(l, "findCompatible")
  /\ UNCHANGED <<launcher, app, inbox, plan, missing, reg, runtimes, storeLock,
                 pool, crashes>>

(* The highest patch number; the exact version if it has come in since. *)
BestOf(v, S) == IF v \in S THEN v ELSE CHOOSE r \in S : \A q \in S : q <= r

(* Find(req.Python, true): reuse it, ask the user, or install.             *)
FindCompatible(l) ==
  /\ handler[l] = "findCompatible"
  /\ StoreReadable
  /\ IF runtimes = {}
     THEN UNCHANGED python /\ Goto(l, "resolve")
     ELSE /\ python' = [python EXCEPT ![l] = BestOf(PythonOf[app[l]], runtimes)]
          /\ Goto(l, IF app[l] \in AllowCompatible THEN "resolve" ELSE "askPython")
  /\ UNCHANGED <<launcher, app, inbox, plan, missing, reg, runtimes, storeLock,
                 pool, crashes>>

(* AskPythonRuntime: install the exact version, use the compatible one, or *)
(* cancel, before anything has been registered.                            *)
AskPython(l) ==
  /\ handler[l] = "askPython"
  /\ \/ /\ python' = [python EXCEPT ![l] = NoPython]
        /\ Goto(l, "resolve")
        /\ UNCHANGED inbox
     \/ /\ Goto(l, "resolve")
        /\ UNCHANGED <<python, inbox>>
     \/ /\ Goto(l, "served")
        /\ Send(l, "error")
        /\ UNCHANGED python
  /\ UNCHANGED <<launcher, app, plan, missing, reg, runtimes, storeLock, pool,
                 crashes>>

-----------------------------------------------------------------------------
(* HandleLaunchRequest: resolving and registering.                         *)

(* The least set with the pinned packages and the requirements of all its  *)
(* packages but those of S.                                                *)
Leads(a, S) ==
  {p \in Packages :
     \A P \in SUBSET Packages :
       Direct[a] \subseteq P /\ (\A q \in P \ S : Requires[q] \subseteq P) => p \in P}
Closure(a) == Leads(a, {})

(* The plans Resolve can return: each request for metadata may fail, and   *)
(* then the package is kept if it is installed, its requirements are not   *)
(* looked at, and the walk goes on. Resolver has the walk itself.          *)
Plans(a) == {Leads(a, S) : S \in SUBSET pool}

Resolve(l) ==
  /\ handler[l] = "resolve"
  /\ \E P \in Plans(app[l]) :
       /\ plan' = [plan EXCEPT ![l] = P]
       /\ missing' = [missing EXCEPT ![l] = P \ pool]
  /\ Goto(l, "register")
  /\ UNCHANGED <<launcher, app, inbox, python, reg, runtimes, storeLock, pool,
                 crashes>>

(* Variant: the error is swallowed and no response is sent. *)
ResolveFails_Silent(l) ==
  /\ handler[l] \in {"findExact", "resolve"}
  /\ handler[l] = "findExact" => StoreReadable
  /\ Goto(l, "served")
  /\ UNCHANGED <<launcher, app, inbox, python, plan, missing, reg, runtimes,
                 storeLock, pool, crashes>>

(* PyPI does not answer, a version conflicts, or the runtime store cannot  *)
(* be read: HandleLaunchRequest returns an error, nothing is registered.   *)
ResolveFails(l) ==
  /\ handler[l] \in {"findExact", "resolve"}
  /\ handler[l] = "findExact" => StoreReadable
  /\ Send(l, "error")
  /\ Goto(l, "served")
  /\ UNCHANGED <<launcher, app, python, plan, missing, reg, runtimes, storeLock,
                 pool, crashes>>

NeedsInstall(l) == python[l] = NoPython \/ missing[l] # {}

(* The record is replaced whole, whatever it said before. *)
Register(l) ==
  /\ handler[l] = "register"
  /\ reg' = [reg EXCEPT ![app[l]] = [state |-> "discovered", deps |-> plan[l]]]
  /\ Goto(l, IF NeedsInstall(l) THEN "confirm" ELSE "sendReady")
  /\ UNCHANGED <<launcher, app, inbox, python, plan, missing, runtimes,
                 storeLock, pool, crashes>>

-----------------------------------------------------------------------------
(* HandleLaunchRequest: installing.                                        *)

(* UpdateState(StateBroken) and an error response. *)
GiveUp(l) ==
  /\ UpdateState(app[l], "broken")
  /\ Send(l, "error")
  /\ Goto(l, "served")

ConfirmInstallation(l) ==
  /\ handler[l] = "confirm"
  /\ \/ GiveUp(l)
     \/ /\ UpdateState(app[l], "installing")
        /\ Goto(l, IF python[l] = NoPython THEN "installPython" ELSE "installPackages")
        /\ UNCHANGED inbox
  /\ UNCHANGED <<launcher, app, python, plan, missing, runtimes, storeLock, pool,
                 crashes>>

(* DownloadAndInstall holds the write lock of the store from beginning ... *)
BeginInstallPython(l) ==
  /\ handler[l] = "installPython"
  /\ storeLock = NoHolder
  /\ storeLock' = l
  /\ Goto(l, "download")
  /\ UNCHANGED <<launcher, app, inbox, python, plan, missing, reg, runtimes, pool,
                 crashes>>

(* Variant: a failed download returns without UpdateState(StateBroken). *)
EndInstallPython_NotMarked(l) ==
  /\ handler[l] = "download"
  /\ storeLock' = NoHolder
  /\ PythonOf[app[l]] \notin runtimes
  /\ Send(l, "error")
  /\ Goto(l, "served")
  /\ UNCHANGED <<launcher, app, python, plan, missing, reg, runtimes, pool,
                 crashes>>

(* ... to end. It fails only if the version is not there already.          *)
EndInstallPython(l) ==
  /\ handler[l] = "download"
  /\ storeLock' = NoHolder
  /\ LET v == PythonOf[app[l]] IN
       \/ /\ runtimes' = runtimes \cup {v}
          /\ python' = [python EXCEPT ![l] = v]
          /\ Goto(l, "installPackages")
          /\ UNCHANGED <<reg, inbox>>
       \/ /\ v \notin runtimes
          /\ GiveUp(l)
          /\ UNCHANGED <<runtimes, python>>
  /\ UNCHANGED <<launcher, app, plan, missing, pool, crashes>>

(* Variant: a package that cannot be installed is skipped. *)
InstallPackage_Skips(l) ==
  /\ handler[l] = "installPackages"
  /\ \E p \in missing[l] :
       /\ missing' = [missing EXCEPT ![l] = @ \ {p}]
       /\ pool' \in {pool, pool \cup {p}}
  /\ UNCHANGED <<launcher, app, inbox, handler, python, plan, reg, runtimes,
                 storeLock, crashes>>

(* EnsurePackage for the next missing package, in the order of a Go map.   *)
(* It fails only if the package is not there already.                      *)
InstallPackage(l) ==
  /\ handler[l] = "installPackages"
  /\ \E p \in missing[l] :
       \/ /\ pool' = pool \cup {p}
          /\ missing' = [missing EXCEPT ![l] = @ \ {p}]
          /\ UNCHANGED <<reg, inbox, handler>>
       \/ /\ p \notin pool
          /\ GiveUp(l)
          /\ UNCHANGED <<pool, missing>>
  /\ UNCHANGED <<launcher, app, python, plan, runtimes, storeLock, crashes>>

(* Variant: the application is marked ready before its packages are there. *)
MarkReady_Early(l) ==
  /\ handler[l] = "installPackages"
  /\ UpdateState(app[l], "ready")
  /\ Goto(l, IF missing[l] = {} THEN "complete" ELSE "installPackages")
  /\ UNCHANGED <<launcher, app, inbox, python, plan, missing, runtimes, storeLock,
                 pool, crashes>>

(* Variant: the state of registry.go that no other code knows. *)
MarkReady_Installed(l) ==
  /\ handler[l] = "installPackages"
  /\ missing[l] = {}
  /\ UpdateState(app[l], "installed")
  /\ Goto(l, "complete")
  /\ UNCHANGED <<launcher, app, inbox, python, plan, missing, runtimes, storeLock,
                 pool, crashes>>

(* All installed: UpdateState(StateReady). *)
MarkReady(l) ==
  /\ handler[l] = "installPackages"
  /\ missing[l] = {}
  /\ UpdateState(app[l], "ready")
  /\ Goto(l, "complete")
  /\ UNCHANGED <<launcher, app, inbox, python, plan, missing, runtimes, storeLock,
                 pool, crashes>>

(* ShowInstallComplete: "Finish" returns a response with StatusReady at    *)
(* once, and LaunchReady is not sent.                                      *)
ShowInstallComplete(l) ==
  /\ handler[l] = "complete"
  /\ Goto(l, "sendReady") \/ Goto(l, "finish")
  /\ UNCHANGED <<launcher, app, inbox, python, plan, missing, reg, runtimes,
                 storeLock, pool, crashes>>

-----------------------------------------------------------------------------
(* HandleLaunchRequest: answering.                                         *)

SendLaunchReady(l) ==
  /\ handler[l] = "sendReady"
  /\ Send(l, "launchReady")
  /\ Goto(l, "respond")
  /\ UNCHANGED <<launcher, app, python, plan, missing, reg, runtimes, storeLock,
                 pool, crashes>>

(* handleClient sends the response HandleLaunchRequest returned.           *)
Respond(l) ==
  /\ handler[l] \in {"respond", "finish"}
  /\ Send(l, "ready")
  /\ Goto(l, IF handler[l] = "finish" THEN "finished" ELSE "served")
  /\ UNCHANGED <<launcher, app, python, plan, missing, reg, runtimes, storeLock,
                 pool, crashes>>

(* The server process dies: its handlers and locks are gone, the pipes of  *)
(* waiting launchers break, with or without what had been written to them; *)
(* the registry is what the last update saved.                             *)
Crash ==
  /\ crashes < MaxCrashes
  /\ \E l \in Launchers : handler[l] # "none"
  /\ crashes' = crashes + 1
  /\ handler' = [l \in Launchers |-> "none"]
  /\ storeLock' = NoHolder
  /\ \E read \in SUBSET Launchers :
       inbox' = [l \in Launchers |->
                  IF launcher[l] # "waiting" THEN inbox[l]
                  ELSE IF l \in read THEN Append(inbox[l], "eof") ELSE <<"eof">>]
  /\ UNCHANGED <<launcher, app, python, plan, missing, reg, runtimes, pool>>

-----------------------------------------------------------------------------
LauncherReads(l) ==
  \/ ReceiveFailure(l)
  \/ ReceiveResponse(l)
  \/ ReceiveLaunchReady(l)

(* What a handler does by itself, and what it waits for others to do. *)
HandlerRuns(l) ==
  \/ FindExact(l)
  \/ FindCompatible(l)
  \/ Resolve(l)
  \/ ResolveFails(l)
  \/ Register(l)
  \/ BeginInstallPython(l)
  \/ InstallPackage(l)
  \/ MarkReady(l)
  \/ SendLaunchReady(l)
  \/ Respond(l)

Dialog(l) ==
  \/ AskPython(l)
  \/ ConfirmInstallation(l)
  \/ ShowInstallComplete(l)

HandlerStep(l) == HandlerRuns(l) \/ Dialog(l) \/ EndInstallPython(l)

(* Every launcher has come to its end and every handler to its own. *)
AllOver ==
  /\ \A l \in Launchers : /\ launcher[l] \in {"failed", "ended"}
                          /\ handler[l] \in {"none", "served", "finished"}
  /\ UNCHANGED vars

Next ==
  \/ \E l \in Launchers :
       \/ SendRequest(l)
       \/ LauncherReads(l)
       \/ AppEnds(l)
       \/ KillLauncher(l)
       \/ HandlerStep(l)
  \/ Crash
  \/ AllOver

Spec == Init /\ [][Next]_vars

(* Handlers run, requests to PyPI end within their timeout, and a launcher *)
(* reads what has arrived. A handler that waits for the lock of the        *)
(* runtime store gets it if it is released again and again, for            *)
(* sync.RWMutex does not starve its waiters: strong fairness. The download *)
(* of a runtime has no timeout, and need not end. Users answer dialogs,    *)
(* start, end and kill programs when they like.                            *)
Fairness ==
  \A l \in Launchers :
    WF_vars(LauncherReads(l)) /\ SF_vars(HandlerRuns(l))

FairSpec == Spec /\ Fairness

-----------------------------------------------------------------------------
(* Safety.                                                                 *)

(* An application is started only when the runtime it was promised and     *)
(* every package path in its LaunchReady are there, whatever the other     *)
(* requests did, failed to do or had cancelled in the meantime.            *)
RunsComplete ==
  \A l \in Launchers :
    launcher[l] = "running" => python[l] \in runtimes /\ plan[l] \subseteq pool

(* A record says "installing" only while some handler is installing that   *)
(* application: every way out of an installation overwrites it. Only a     *)
(* crash of the server leaves it behind.                                   *)
InstallingIsAttended ==
  crashes = 0 =>
    \A a \in Apps :
      reg[a].state = "installing" =>
        \E l \in Launchers :
          /\ app[l] = a
          /\ handler[l] \in {"installPython", "download", "installPackages"}

(* docs/faq.md:26: "Once installed ..., applications run entirely offline".*)
(* An application all of whose packages are installed is started with all  *)
(* of them on its module search path.                                      *)
StartsWithClosure ==
  \A l \in Launchers :
    launcher[l] = "running" /\ Closure(app[l]) \subseteq pool =>
      Closure(app[l]) \subseteq plan[l]

-----------------------------------------------------------------------------
(* Action properties.                                                      *)

(* A record becomes "ready" only when a handler of that application has    *)
(* its runtime and all packages of its plan installed, with several        *)
(* requests for the same application interleaving and servers crashing.    *)
ReadyIsEarned ==
  [][\A a \in Apps :
       reg'[a].state = "ready" /\ reg[a].state # "ready" =>
         \E l \in Launchers : /\ app[l] = a
                              /\ handler[l] = "installPackages"
                              /\ plan[l] \subseteq pool
                              /\ python[l] \in runtimes]_vars

-----------------------------------------------------------------------------
(* Liveness.                                                               *)

(* A download that stalls holds the lock of the runtime store; a dialog is *)
(* open until the user answers it.                                         *)
HeldUp(l) ==
  \/ handler[l] \in {"askPython", "confirm", "complete"}
  \/ \E o \in Launchers : handler[o] = "download"

(* A launcher that sent its request starts its application or says "Launch *)
(* cancelled or failed" (cmd/hlauncher/main.go:157); it does not wait      *)
(* forever though no dialog is open and no download under way, as it does  *)
(* when the user closes the installer with "Finish".                       *)
Answered ==
  \A l \in Launchers : launcher[l] = "waiting" ~> launcher[l] # "waiting" \/ HeldUp(l)

(* The same, but for the requests whose user chose "Finish" and whose      *)
(* handler has therefore returned without LaunchReady. Neither a crash nor *)
(* another request, a failed download or a lock holder leaves one hanging; *)
(* only a dialog nobody answers, or a runtime download that never ends,    *)
(* its own or that of the request which holds the lock.                    *)
AnsweredUnlessFinished ==
  \A l \in Launchers :
    launcher[l] = "waiting" ~>
      \/ launcher[l] # "waiting"
      \/ handler[l] = "finished"
      \/ HeldUp(l)
=============================================================================
