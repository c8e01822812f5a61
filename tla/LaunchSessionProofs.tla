------------------------ MODULE LaunchSessionProofs ------------------------
(***************************************************************************)
(* Proofs about LaunchSession: an application is started only with its     *)
(* runtime and every package of its LaunchReady in place, a record says    *)
(* "installing" only while a handler installs, and "ready" is earned.      *)
(***************************************************************************)
EXTENDS LaunchSession, FiniteOrders

(* A selected runtime is in the store, and stays there; from the dialog    *)
(* about a compatible runtime on, and from the installation of the         *)
(* packages on, one is selected.                                           *)
PythonInv ==
  \A l \in Launchers :
    /\ python[l] = NoPython \/ python[l] \in runtimes
    /\ handler[l] \in {"askPython", "installPackages", "complete", "sendReady",
                       "respond"} => python[l] \in runtimes

(* What a plan no longer misses is in the pool, and a handler past the     *)
(* installation misses nothing.                                            *)
PlanInv ==
  \A l \in Launchers :
    /\ plan[l] \ missing[l] \subseteq pool
    /\ handler[l] \in {"complete", "sendReady", "respond"} => missing[l] = {}

(* A launcher that has not sent its request has no handler. *)
RequestInv == \A l \in Launchers : handler[l] # "none" => launcher[l] # "start"

Has(l, m) == \E k \in 1..Len(inbox[l]) : inbox[l][k] = m

(* What holds from the moment LaunchReady is sent. *)
Promised(l) ==
  /\ launcher[l] # "start"
  /\ handler[l] \in {"respond", "served", "none"}
  /\ python[l] \in runtimes
  /\ missing[l] = {}

(* LaunchReady, on its way or acted upon, is a promise kept. *)
PromiseInv ==
  \A l \in Launchers : Has(l, "launchReady") \/ launcher[l] = "running" => Promised(l)

IInv ==
  /\ TypeOK
  /\ PythonInv
  /\ PlanInv
  /\ RequestInv
  /\ PromiseInv
  /\ InstallingIsAttended

-----------------------------------------------------------------------------
(* A nonempty finite set of patch numbers has a highest one. *)
LEMMA HighestExists ==
  ASSUME NEW S, S \subseteq Nat, IsFiniteSet(S), S # {}
  PROVE  \E r \in S : \A q \in S : q <= r
<1> DEFINE Below == {pair \in S \X S : pair[1] < pair[2]}
<1>1. \A a, b \in S : <<a, b>> \in Below <=> a < b
  OBVIOUS
<1>2. /\ \A a, b, c \in S : <<a, b>> \in Below /\ <<b, c>> \in Below => <<a, c>> \in Below
      /\ \A a \in S : <<a, a>> \notin Below
  <2> HIDE DEF Below
  <2>1. \A a \in S : a \in Nat
    OBVIOUS
  <2>2. QED
    BY <1>1, <2>1
<1>3. \E m \in S : \A q \in S : <<m, q>> \notin Below
  <2> HIDE DEF Below
  <2>1. QED
    BY <1>2, MaximalExists
<1>4. PICK m \in S : \A q \in S : ~ (m < q)
  BY <1>1, <1>3
<1>5. QED
  BY <1>4

(* Find with AllowCompatible returns a version of the store.               *)
LEMMA BestIsThere ==
  ASSUME NEW v, NEW S \in SUBSET Pythons, S # {}
  PROVE  BestOf(v, S) \in S
<1>1. S \subseteq Nat /\ IsFiniteSet(S)
  BY LaunchAssumption, FS_Subset
<1>2. QED
  BY <1>1, HighestExists DEF BestOf

-----------------------------------------------------------------------------
(* Messages.                                                               *)

(* Sending adds at most the message sent, to a launcher that is there. *)
LEMMA SendAdds ==
  ASSUME TypeOK, NEW l \in Launchers, NEW m \in Messages, Send(l, m)
  PROVE  /\ inbox' \in [Launchers -> Seq(Messages)]
         /\ \A q \in Launchers, k \in Messages :
              Has(q, k)' => Has(q, k) \/ (q = l /\ k = m /\ Connected(l))
BY DEF TypeOK, Send, Has

(* Taking a message adds none. *)
LEMMA TakeAddsNone ==
  ASSUME TypeOK, NEW l \in Launchers, inbox[l] # <<>>, Take(l)
  PROVE  /\ inbox' \in [Launchers -> Seq(Messages)]
         /\ \A q \in Launchers, k \in Messages : Has(q, k)' => Has(q, k)
BY DEF TypeOK, Take, Has

(* Nor does throwing an inbox away. *)
LEMMA EmptyHasNone ==
  ASSUME TypeOK, NEW l \in Launchers, inbox' = [inbox EXCEPT ![l] = <<>>]
  PROVE  /\ inbox' \in [Launchers -> Seq(Messages)]
         /\ \A q \in Launchers, k \in Messages : Has(q, k)' => Has(q, k)
BY DEF TypeOK, Has

(* A crash adds "eof" messages only. *)
LEMMA CrashAddsEof ==
  ASSUME TypeOK, Crash
  PROVE  /\ inbox' \in [Launchers -> Seq(Messages)]
         /\ \A q \in Launchers, k \in Messages : Has(q, k)' => Has(q, k) \/ k = "eof"
<1>1. PICK read \in SUBSET Launchers :
        inbox' = [l \in Launchers |->
                   IF launcher[l] # "waiting" THEN inbox[l]
                   ELSE IF l \in read THEN Append(inbox[l], "eof") ELSE <<"eof">>]
  BY DEF Crash
<1>2. ASSUME NEW q \in Launchers
      PROVE  /\ inbox'[q] \in Seq(Messages)
             /\ \A k \in Messages : Has(q, k)' => Has(q, k) \/ k = "eof"
  <2>1. inbox[q] \in Seq(Messages) /\ "eof" \in Messages
    BY DEF TypeOK, Messages
  <2>2. CASE inbox'[q] = inbox[q]
    BY <2>1, <2>2 DEF Has
  <2>3. CASE inbox'[q] = Append(inbox[q], "eof")
    BY <2>1, <2>3 DEF Has
  <2>4. CASE inbox'[q] = <<"eof">>
    BY <2>1, <2>4 DEF Has
  <2>5. QED
    BY <1>1, <2>2, <2>3, <2>4
<1>3. QED
  BY <1>1, <1>2

-----------------------------------------------------------------------------
(* What a step of one launcher or its handler leaves alone.                *)

StepOf(l) ==
  \/ SendRequest(l)
  \/ LauncherReads(l)
  \/ AppEnds(l)
  \/ KillLauncher(l)
  \/ HandlerStep(l)

(* Other launchers and their handlers do not move, and nothing leaves the  *)
(* runtime store or the pool.                                              *)
LEMMA StepFrame ==
  ASSUME TypeOK, NEW l \in Launchers, StepOf(l)
  PROVE  /\ app' = app /\ crashes' = crashes
         /\ runtimes \subseteq runtimes' /\ pool \subseteq pool'
         /\ \A q \in Launchers \ {l} :
              /\ launcher'[q] = launcher[q] /\ handler'[q] = handler[q]
              /\ python'[q] = python[q] /\ plan'[q] = plan[q]
              /\ missing'[q] = missing[q]
BY DEF StepOf, SendRequest, LauncherReads, ReceiveFailure, ReceiveResponse,
   ReceiveLaunchReady, AppEnds, KillLauncher, HandlerStep, HandlerRuns, Dialog, FindExact,
   FindCompatible, AskPython, Resolve, ResolveFails, Register, ConfirmInstallation,
   BeginInstallPython, EndInstallPython, InstallPackage, MarkReady, ShowInstallComplete,
   SendLaunchReady, Respond, GiveUp, Goto, TypeOK

(* A launcher receives LaunchReady only by SendLaunchReady. *)
LEMMA StepInbox ==
  ASSUME TypeOK, NEW l \in Launchers, StepOf(l)
  PROVE  /\ inbox' \in [Launchers -> Seq(Messages)]
         /\ \A q \in Launchers :
              Has(q, "launchReady")' =>
                \/ Has(q, "launchReady")
                \/ q = l /\ SendLaunchReady(l) /\ Connected(l)
<1> USE DEF Messages
<1>1. CASE inbox' = inbox
  BY <1>1 DEF TypeOK, Has
<1>2. CASE Send(l, "error")
  BY <1>2, SendAdds
<1>3. CASE Send(l, "ready")
  BY <1>3, SendAdds
<1>4. CASE SendLaunchReady(l)
  BY <1>4, SendAdds DEF SendLaunchReady
<1>5. CASE inbox[l] # <<>> /\ Take(l)
  BY <1>5, TakeAddsNone
<1>6. CASE inbox' = [inbox EXCEPT ![l] = <<>>]
  BY <1>6, EmptyHasNone
<1>7. QED
  BY <1>1, <1>2, <1>3, <1>4, <1>5, <1>6 DEF StepOf, SendRequest, LauncherReads,
     ReceiveFailure, ReceiveResponse, ReceiveLaunchReady, Incoming, AppEnds, KillLauncher,
     HandlerStep, HandlerRuns, Dialog, FindExact, FindCompatible, AskPython, Resolve,
     ResolveFails, Register, ConfirmInstallation, BeginInstallPython, EndInstallPython,
     InstallPackage, MarkReady, ShowInstallComplete, Respond, GiveUp

-----------------------------------------------------------------------------
(* The conjuncts of the invariant, one lemma each.                         *)

(* A registry update leaves a registry. *)
LEMMA UpdateStateType ==
  ASSUME TypeOK, NEW a \in Apps, NEW s \in AppStates, UpdateState(a, s)
  PROVE  reg' \in [Apps -> [state : AppStates, deps : SUBSET Packages]]
<1>1. [reg[a] EXCEPT !.state = s] \in [state : AppStates, deps : SUBSET Packages]
  BY DEF TypeOK
<1>2. QED
  BY <1>1 DEF TypeOK, UpdateState

(* Types: the runtime selected is one of the store. *)
LEMMA StepTypeOK ==
  ASSUME TypeOK, NEW l \in Launchers, StepOf(l)
  PROVE  TypeOK'
<1>1. inbox' \in [Launchers -> Seq(Messages)] /\ app' \in [Launchers -> Apps]
      /\ crashes' \in 0..MaxCrashes
  BY StepInbox, StepFrame DEF TypeOK
<1>2. app[l] \in Apps /\ PythonOf[app[l]] \in Pythons
  BY LaunchAssumption DEF TypeOK
<1>3. handler' \in [Launchers -> HandlerStates] /\ storeLock' \in Launchers \cup {NoHolder}
  BY DEF TypeOK, HandlerStates, Goto, StepOf, SendRequest, LauncherReads, ReceiveFailure,
     ReceiveResponse, ReceiveLaunchReady, AppEnds, KillLauncher, HandlerStep, HandlerRuns,
     Dialog, FindExact, FindCompatible, AskPython, Resolve, ResolveFails, Register,
     ConfirmInstallation, BeginInstallPython, EndInstallPython, InstallPackage, MarkReady,
     ShowInstallComplete, SendLaunchReady, Respond, GiveUp
<1>4. launcher' \in [Launchers -> {"start", "waiting", "running", "failed", "ended"}]
  BY DEF TypeOK, StepOf, SendRequest, LauncherReads, ReceiveFailure, ReceiveResponse,
     ReceiveLaunchReady, AppEnds, KillLauncher, HandlerStep, HandlerRuns, Dialog,
     FindExact, FindCompatible, AskPython, Resolve, ResolveFails, Register,
     ConfirmInstallation, BeginInstallPython, EndInstallPython, InstallPackage, MarkReady,
     ShowInstallComplete, SendLaunchReady, Respond
<1>5. python' \in [Launchers -> Pythons \cup {NoPython}] /\ runtimes' \subseteq Pythons
  <2>1. CASE FindExact(l) \/ EndInstallPython(l) \/ AskPython(l)
    BY <2>1, <1>2 DEF TypeOK, FindExact, EndInstallPython, AskPython
  <2>2. CASE FindCompatible(l)
    <3>1. runtimes # {} => BestOf(PythonOf[app[l]], runtimes) \in Pythons
      BY BestIsThere DEF TypeOK
    <3>2. QED
      BY <2>2, <3>1 DEF TypeOK, FindCompatible
  <2>3. CASE python' = python /\ runtimes' = runtimes
    BY <2>3 DEF TypeOK
  <2>4. QED
    BY <2>1, <2>2, <2>3 DEF StepOf, SendRequest, LauncherReads, ReceiveFailure,
       ReceiveResponse, ReceiveLaunchReady, AppEnds, KillLauncher, HandlerStep,
       HandlerRuns, Dialog, Resolve, ResolveFails, Register, ConfirmInstallation,
       BeginInstallPython, InstallPackage, MarkReady, ShowInstallComplete,
       SendLaunchReady, Respond
<1>6. /\ plan' \in [Launchers -> SUBSET Packages]
      /\ missing' \in [Launchers -> SUBSET Packages]
      /\ pool' \subseteq Packages
  <2>1. CASE Resolve(l)
    <3>1. Plans(app[l]) \subseteq SUBSET Packages
      BY DEF Plans, Leads
    <3>2. QED
      BY <2>1, <3>1 DEF TypeOK, Resolve
  <2>2. CASE InstallPackage(l)
    BY <2>2 DEF TypeOK, InstallPackage
  <2>3. CASE plan' = plan /\ missing' = missing /\ pool' = pool
    BY <2>3 DEF TypeOK
  <2>4. QED
    BY <2>1, <2>2, <2>3 DEF StepOf, SendRequest, LauncherReads, ReceiveFailure,
       ReceiveResponse, ReceiveLaunchReady, AppEnds, KillLauncher, HandlerStep,
       HandlerRuns, Dialog, FindExact, FindCompatible, AskPython, ResolveFails, Register,
       ConfirmInstallation, BeginInstallPython, EndInstallPython, MarkReady,
       ShowInstallComplete, SendLaunchReady, Respond
<1>7. reg' \in [Apps -> [state : AppStates, deps : SUBSET Packages]]
  <2>1. CASE Register(l)
    BY <2>1, <1>2 DEF TypeOK, Register, AppStates
  <2>2. CASE \E s \in {"broken", "installing", "ready"} : UpdateState(app[l], s)
    BY <2>2, <1>2, UpdateStateType DEF AppStates
  <2>3. CASE reg' = reg
    BY <2>3 DEF TypeOK
  <2>4. QED
    BY <2>1, <2>2, <2>3 DEF StepOf, SendRequest, LauncherReads, ReceiveFailure,
       ReceiveResponse, ReceiveLaunchReady, AppEnds, KillLauncher, HandlerStep,
       HandlerRuns, Dialog, FindExact, FindCompatible, AskPython, Resolve, ResolveFails,
       ConfirmInstallation, BeginInstallPython, EndInstallPython, InstallPackage,
       MarkReady, ShowInstallComplete, SendLaunchReady, Respond, GiveUp
<1>8. QED
  BY <1>1, <1>3, <1>4, <1>5, <1>6, <1>7 DEF TypeOK

(* A handler takes its runtime from the store, or installs it there. *)
LEMMA StepPythonInv ==
  ASSUME TypeOK, PythonInv, NEW l \in Launchers, StepOf(l)
  PROVE  PythonInv'
<1>1. ASSUME NEW q \in Launchers \ {l}
      PROVE  /\ python'[q] = NoPython \/ python'[q] \in runtimes'
             /\ handler'[q] \in {"askPython", "installPackages", "complete",
                                 "sendReady", "respond"} => python'[q] \in runtimes'
  BY StepFrame DEF PythonInv
<1>2. /\ python'[l] = NoPython \/ python'[l] \in runtimes'
      /\ handler'[l] \in {"askPython", "installPackages", "complete", "sendReady",
                          "respond"} => python'[l] \in runtimes'
  <2>1. CASE SendRequest(l) \/ LauncherReads(l) \/ AppEnds(l) \/ KillLauncher(l)
    BY <2>1 DEF TypeOK, PythonInv, SendRequest, LauncherReads, ReceiveFailure,
       ReceiveResponse, ReceiveLaunchReady, AppEnds, KillLauncher, Goto
  <2>2. CASE FindExact(l) \/ FindCompatible(l) \/ AskPython(l)
    <3>1. runtimes # {} => BestOf(PythonOf[app[l]], runtimes) \in runtimes
      BY BestIsThere DEF TypeOK
    <3>2. QED
      BY <2>2, <3>1 DEF TypeOK, PythonInv, FindExact, FindCompatible, AskPython, Goto
  <2>3. CASE Resolve(l) \/ ResolveFails(l) \/ Register(l)
    BY <2>3 DEF TypeOK, PythonInv, Resolve, ResolveFails, Register, NeedsInstall, Goto
  <2>4. CASE ConfirmInstallation(l) \/ BeginInstallPython(l) \/ EndInstallPython(l)
    BY <2>4 DEF TypeOK, PythonInv, ConfirmInstallation, BeginInstallPython,
       EndInstallPython, GiveUp, Goto
  <2>5. CASE InstallPackage(l) \/ MarkReady(l) \/ ShowInstallComplete(l)
             \/ SendLaunchReady(l) \/ Respond(l)
    BY <2>5 DEF TypeOK, PythonInv, InstallPackage, MarkReady, ShowInstallComplete,
       SendLaunchReady, Respond, GiveUp, Goto
  <2>6. QED
    BY <2>1, <2>2, <2>3, <2>4, <2>5 DEF StepOf, HandlerStep, HandlerRuns, Dialog
<1>3. QED
  BY <1>1, <1>2 DEF PythonInv

(* A package leaves the missing ones when it is in the pool. *)
LEMMA StepPlanInv ==
  ASSUME TypeOK, PlanInv, NEW l \in Launchers, StepOf(l)
  PROVE  PlanInv'
<1>1. ASSUME NEW q \in Launchers \ {l}
      PROVE  /\ plan'[q] \ missing'[q] \subseteq pool'
             /\ handler'[q] \in {"complete", "sendReady", "respond"} => missing'[q] = {}
  BY StepFrame DEF PlanInv
<1>2. /\ plan'[l] \ missing'[l] \subseteq pool'
      /\ handler'[l] \in {"complete", "sendReady", "respond"} => missing'[l] = {}
  <2>1. CASE SendRequest(l) \/ LauncherReads(l) \/ AppEnds(l) \/ KillLauncher(l)
    BY <2>1 DEF TypeOK, PlanInv, SendRequest, LauncherReads, ReceiveFailure,
       ReceiveResponse, ReceiveLaunchReady, AppEnds, KillLauncher, Goto
  <2>2. CASE FindExact(l) \/ FindCompatible(l) \/ AskPython(l)
    BY <2>2 DEF TypeOK, PlanInv, FindExact, FindCompatible, AskPython, Goto
  <2>3. CASE Resolve(l) \/ ResolveFails(l) \/ Register(l)
    BY <2>3 DEF TypeOK, PlanInv, Resolve, ResolveFails, Register, NeedsInstall, Goto
  <2>4. CASE ConfirmInstallation(l) \/ BeginInstallPython(l) \/ EndInstallPython(l)
    BY <2>4 DEF TypeOK, PlanInv, ConfirmInstallation, BeginInstallPython,
       EndInstallPython, GiveUp, Goto
  <2>5. CASE InstallPackage(l) \/ MarkReady(l) \/ ShowInstallComplete(l)
             \/ SendLaunchReady(l) \/ Respond(l)
    BY <2>5 DEF TypeOK, PlanInv, InstallPackage, MarkReady, ShowInstallComplete,
       SendLaunchReady, Respond, GiveUp, Goto
  <2>6. QED
    BY <2>1, <2>2, <2>3, <2>4, <2>5 DEF StepOf, HandlerStep, HandlerRuns, Dialog
<1>3. QED
  BY <1>1, <1>2 DEF PlanInv

(* A handler begins with the request, and none goes back to "none". *)
LEMMA StepRequestInv ==
  ASSUME TypeOK, RequestInv, NEW l \in Launchers, StepOf(l)
  PROVE  RequestInv'
<1>1. launcher'[l] # "start"
      \/ (launcher'[l] = launcher[l] /\ (handler[l] = "none" => handler'[l] = "none"))
  BY DEF StepOf, SendRequest, LauncherReads, ReceiveFailure, ReceiveResponse,
     ReceiveLaunchReady, AppEnds, KillLauncher, HandlerStep, HandlerRuns, Dialog,
     FindExact, FindCompatible, AskPython, Resolve, ResolveFails, Register,
     ConfirmInstallation, BeginInstallPython, EndInstallPython, InstallPackage, MarkReady,
     ShowInstallComplete, SendLaunchReady, Respond, TypeOK
<1>2. QED
  BY <1>1, StepFrame DEF RequestInv

(* LaunchReady is sent when nothing is missing, and what it promised stays *)
(* in the store and the pool; its handler does not touch the plan again.   *)
LEMMA StepPromiseInv ==
  ASSUME TypeOK, PythonInv, PlanInv, RequestInv, PromiseInv, NEW l \in Launchers, StepOf(l)
  PROVE  PromiseInv'
<1>1. ASSUME NEW q \in Launchers \ {l}, Has(q, "launchReady")' \/ launcher'[q] = "running"
      PROVE  Promised(q)'
  <2>1. Promised(q)
    BY <1>1, StepInbox, StepFrame DEF PromiseInv
  <2>2. QED
    BY <2>1, StepFrame DEF Promised
<1>2. ASSUME Has(l, "launchReady")' \/ launcher'[l] = "running"
      PROVE  Promised(l)'
  <2>1. CASE SendLaunchReady(l)
    BY <2>1, StepInbox, <1>2 DEF SendLaunchReady, Promised, PythonInv, PlanInv,
       RequestInv, Goto, TypeOK
  <2>2. CASE ~SendLaunchReady(l)
    <3>1. launcher'[l] = "running" => Has(l, "launchReady") \/ launcher[l] = "running"
      <4>1. CASE ReceiveLaunchReady(l)
        BY <4>1 DEF ReceiveLaunchReady, Incoming, Has, TypeOK
      <4>2. CASE ~ReceiveLaunchReady(l)
        BY <4>2 DEF TypeOK, StepOf, SendRequest, LauncherReads, ReceiveFailure,
           ReceiveResponse, AppEnds, KillLauncher, HandlerStep, HandlerRuns, Dialog,
           FindExact, FindCompatible, AskPython, Resolve, ResolveFails, Register,
           ConfirmInstallation, BeginInstallPython, EndInstallPython, InstallPackage,
           MarkReady, ShowInstallComplete, SendLaunchReady, Respond
      <4>3. QED
        BY <4>1, <4>2
    <3>2. Promised(l)
      BY <1>2, <2>2, <3>1, StepInbox DEF PromiseInv
    <3>3. \/ SendRequest(l) \/ LauncherReads(l) \/ AppEnds(l) \/ KillLauncher(l)
          \/ Respond(l)
      BY <2>2, <3>2 DEF Promised, StepOf, HandlerStep, HandlerRuns, Dialog, FindExact,
         FindCompatible, AskPython, Resolve, ResolveFails, Register, ConfirmInstallation,
         BeginInstallPython, EndInstallPython, InstallPackage, MarkReady,
         ShowInstallComplete, SendLaunchReady
    <3>4. QED
      BY <3>2, <3>3 DEF TypeOK, Promised, SendRequest, LauncherReads, ReceiveFailure,
         ReceiveResponse, ReceiveLaunchReady, AppEnds, KillLauncher, Respond, Goto
  <2>3. QED
    BY <2>1, <2>2
<1>3. QED
  BY <1>1, <1>2 DEF PromiseInv

Installing == {"installPython", "download", "installPackages"}

(* A handler that begins to install says so; one that stops installing     *)
(* overwrites what it said, with "ready" or with "broken".                 *)
LEMMA StepInstallingIsAttended ==
  ASSUME TypeOK, RequestInv, InstallingIsAttended, NEW l \in Launchers, StepOf(l)
  PROVE  InstallingIsAttended'
<1> DEFINE Attended(a) == \E q \in Launchers : app[q] = a /\ handler[q] \in Installing
<1>1. SUFFICES ASSUME crashes = 0, NEW a \in Apps, reg'[a].state = "installing"
               PROVE  \E q \in Launchers : app[q] = a /\ handler'[q] \in Installing
  BY StepFrame DEF InstallingIsAttended, Installing
<1>2. CASE reg[a].state = "installing" /\ (app[l] = a => handler[l] \notin Installing)
  BY <1>1, <1>2, StepFrame DEF InstallingIsAttended, Installing
<1>3. CASE reg[a].state = "installing" /\ app[l] = a /\ handler[l] \in Installing
  <2>1. \/ SendRequest(l) \/ LauncherReads(l) \/ AppEnds(l) \/ KillLauncher(l)
        \/ BeginInstallPython(l) \/ EndInstallPython(l) \/ InstallPackage(l)
        \/ MarkReady(l)
    BY <1>3 DEF Installing, StepOf, HandlerStep, HandlerRuns, Dialog, FindExact,
       FindCompatible, AskPython, Resolve, ResolveFails, Register, ConfirmInstallation,
       ShowInstallComplete, SendLaunchReady, Respond
  <2>2. ~SendRequest(l)
    BY <1>3 DEF SendRequest, RequestInv, Installing
  <2>3. handler'[l] \in Installing
    BY <1>1, <1>3, <2>1, <2>2 DEF Installing, TypeOK, LauncherReads, ReceiveFailure,
       ReceiveResponse, ReceiveLaunchReady, AppEnds, KillLauncher, BeginInstallPython,
       EndInstallPython, InstallPackage, MarkReady, GiveUp, UpdateState, Goto
  <2>4. QED
    BY <1>3, <2>3
<1>4. CASE reg[a].state # "installing"
  <2>1. app[l] = a /\ handler'[l] \in Installing
    BY <1>1, <1>4 DEF Installing, TypeOK, StepOf, SendRequest, LauncherReads,
       ReceiveFailure, ReceiveResponse, ReceiveLaunchReady, AppEnds, KillLauncher,
       HandlerStep, HandlerRuns, Dialog, FindExact, FindCompatible, AskPython, Resolve,
       ResolveFails, Register, ConfirmInstallation, BeginInstallPython, EndInstallPython,
       InstallPackage, MarkReady, ShowInstallComplete, SendLaunchReady, Respond, GiveUp,
       UpdateState, Goto
  <2>2. QED
    BY <2>1
<1>5. QED
  BY <1>2, <1>3, <1>4

-----------------------------------------------------------------------------
(* The invariant.                                                          *)

(* It holds at the beginning. *)
LEMMA InitIInv == Init => IInv
<1> SUFFICES ASSUME Init
             PROVE  IInv
  OBVIOUS
<1>1. TypeOK
  BY LaunchAssumption DEF Init, TypeOK, HandlerStates, AppStates
<1>2. QED
  BY <1>1 DEF Init, IInv, PythonInv, PlanInv, RequestInv, PromiseInv, Has,
     InstallingIsAttended

(* A step of a launcher or its handler preserves it. *)
LEMMA LauncherIInv ==
  ASSUME IInv, NEW l \in Launchers, StepOf(l)
  PROVE  IInv'
BY StepTypeOK, StepPythonInv, StepPlanInv, StepRequestInv, StepPromiseInv,
   StepInstallingIsAttended DEF IInv

(* So does a crash of the server: the handlers are gone, the registry, the *)
(* store and the pool stay, and "eof" promises nothing.                    *)
LEMMA CrashIInv ==
  ASSUME IInv, Crash
  PROVE  IInv'
<1>1. TypeOK'
  <2>1. inbox' \in [Launchers -> Seq(Messages)]
    BY CrashAddsEof DEF IInv
  <2>2. crashes' \in 0..MaxCrashes
    BY LaunchAssumption DEF IInv, TypeOK, Crash
  <2>3. QED
    BY <2>1, <2>2 DEF IInv, TypeOK, Crash, HandlerStates
<1>2. PythonInv' /\ PlanInv' /\ RequestInv'
  BY DEF IInv, PythonInv, PlanInv, RequestInv, Crash
<1>3. PromiseInv'
  <2>1. \A q \in Launchers : Has(q, "launchReady")' => Has(q, "launchReady")
    BY CrashAddsEof DEF IInv, Messages
  <2>2. QED
    BY <2>1 DEF IInv, PromiseInv, Promised, Crash
<1>4. InstallingIsAttended'
  BY DEF IInv, TypeOK, InstallingIsAttended, Crash
<1>5. QED
  BY <1>1, <1>2, <1>3, <1>4 DEF IInv

(* And a step that changes nothing. *)
LEMMA StutterIInv == ASSUME IInv, UNCHANGED vars PROVE IInv'
BY DEF vars, IInv, TypeOK, PythonInv, PlanInv, RequestInv, PromiseInv, Promised, Has,
   InstallingIsAttended

(* Every step preserves it. *)
LEMMA NextIInv == IInv /\ [Next]_vars => IInv'
<1> SUFFICES ASSUME IInv, [Next]_vars
             PROVE  IInv'
  OBVIOUS
<1>1. CASE \E l \in Launchers : StepOf(l)
  BY <1>1, LauncherIInv
<1>2. CASE Crash
  BY <1>2, CrashIInv
<1>3. CASE UNCHANGED vars
  BY <1>3, StutterIInv
<1>4. QED
  BY <1>1, <1>2, <1>3 DEF Next, StepOf, AllOver

(* The inductive invariant holds in every reachable state. *)
THEOREM Invariance == Spec => []IInv
<1>1. QED
  BY InitIInv, NextIInv, PTL DEF Spec

(* The variables stay in their types: handlers, messages and records are   *)
(* those the code knows, and the runtime selected is a version that exists.*)
THEOREM TypeCorrect == Spec => []TypeOK
<1>1. IInv => TypeOK
  BY DEF IInv
<1>2. QED
  BY <1>1, Invariance, PTL

(* An application runs only with its runtime and all packages of its       *)
(* LaunchReady in place, however many launchers, packages and crashes.     *)
THEOREM RunningIsComplete == Spec => []RunsComplete
<1>1. IInv => RunsComplete
  BY DEF IInv, RunsComplete, PromiseInv, Promised, PlanInv
<1>2. QED
  BY <1>1, Invariance, PTL

(* Until the server crashes, a record says "installing" only while one of  *)
(* its handlers installs that application.                                 *)
THEOREM InstallationIsAttended == Spec => []InstallingIsAttended
<1>1. IInv => InstallingIsAttended
  BY DEF IInv
<1>2. QED
  BY <1>1, Invariance, PTL

(* A record becomes "ready" only when a handler of its application has the *)
(* runtime and all packages of its plan installed.                         *)
THEOREM ReadyEarned == Spec => ReadyIsEarned
<1> DEFINE Earned ==
      \A a \in Apps :
        reg'[a].state = "ready" /\ reg[a].state # "ready" =>
          \E l \in Launchers : /\ app[l] = a
                               /\ handler[l] = "installPackages"
                               /\ plan[l] \subseteq pool
                               /\ python[l] \in runtimes
<1>1. IInv /\ [Next]_vars => [Earned]_vars
  <2> SUFFICES ASSUME IInv, Next, NEW a \in Apps,
                      reg'[a].state = "ready", reg[a].state # "ready"
               PROVE  \E l \in Launchers : /\ app[l] = a
                                           /\ handler[l] = "installPackages"
                                           /\ plan[l] \subseteq pool
                                           /\ python[l] \in runtimes
    OBVIOUS
  <2>1. PICK l \in Launchers : StepOf(l)
    BY DEF Next, StepOf, Crash, AllOver, vars
  <2>2. app[l] \in Apps /\ reg \in [Apps -> [state : AppStates, deps : SUBSET Packages]]
    BY DEF IInv, TypeOK
  <2>3. reg' # reg /\ ~Register(l)
    BY <2>2 DEF Register
  <2>4. ~UpdateState(app[l], "broken") /\ ~UpdateState(app[l], "installing")
    BY <2>2 DEF UpdateState
  <2>5. MarkReady(l)
    BY <2>1, <2>3, <2>4 DEF StepOf, SendRequest, LauncherReads, ReceiveFailure,
       ReceiveResponse, ReceiveLaunchReady, AppEnds, KillLauncher, HandlerStep,
       HandlerRuns, Dialog, FindExact, FindCompatible, AskPython, Resolve, ResolveFails,
       ConfirmInstallation, BeginInstallPython, EndInstallPython, InstallPackage,
       ShowInstallComplete, SendLaunchReady, Respond, GiveUp
  <2>6. app[l] = a
    BY <2>2, <2>5 DEF MarkReady, UpdateState
  <2>7. QED
    BY <2>5, <2>6 DEF MarkReady, IInv, PlanInv, PythonInv
<1>2. QED
  BY <1>1, Invariance, PTL DEF Spec, ReadyIsEarned
=============================================================================
