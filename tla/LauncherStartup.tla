-------------------------- MODULE LauncherStartup --------------------------
(***************************************************************************)
(* How launchers find, start and reach a server (cmd/hlauncher/main.go,    *)
(* pkg/protocol/client.go), and the name of the pipe that all of them and  *)
(* all server processes share. A server does here what ServerLifecycle     *)
(* says of it, closing for the reason PipeServer gives: its timer's        *)
(* callback reads the counters, and then closes.                           *)
(*                                                                         *)
(* A pipe has a name and instances. Its first instance is created only if  *)
(* no other of that name exists; a client connects to an instance that     *)
(* listens, and is told "busy" if there are instances but none listens     *)
(* (go-winio). A session that outlives its server's listener is such an    *)
(* instance.                                                               *)
(*                                                                         *)
(* A launcher that is done may be started again. Launchers of one          *)
(* application unpack their payload into one directory, truncating and     *)
(* rewriting every file: one that breaks off leaves a half file, which is  *)
(* rewritten by whoever starts to unpack after that and gets through.      *)
(***************************************************************************)
EXTENDS Naturals

CONSTANTS
  Launchers,
  Processes, \* hrunner processes that can exist at the same time
  Apps,
  AppOf,    \* the application of each launcher
  MaxKills  \* bound: how many processes are killed

ASSUME StartupAssumption ==
  /\ AppOf \in [Launchers -> Apps]
  /\ MaxKills \in Nat

VARIABLES
  installed, \* is there a hrunner.exe?
  pc,        \* where each launcher stands
  broken,    \* per application: the launchers that broke off unpacking, and left
             \* a half file that is still there
  later,     \* per launcher: those of them that broke off after it had begun
  phase,     \* the state of each process
  spawned,   \* the process each launcher has spawned and waits for
  pending,   \* per process: connections not accepted yet
  live,      \* per process: sessions
  kills,     \* processes killed so far
  met        \* history: what each launcher met since its probe was last answered: a
             \* server past its decision to close ("window"), one that was killed
             \* ("kill"), or one it spawned that failed as it started ("start")

launcher == <<pc, spawned>>
servers == <<phase, pending, live>>
payload == <<broken, later>>
vars == <<installed, launcher, payload, servers, kills, met>>

Done == {"idle", "failed", "killed"}
Starting == {"unpack", "probe", "find", "wait", "dial", "sent"}
Phases == {"none", "starting", "listening", "deciding", "closed"}
(* A connection of the first probe, of the wait loop's, or of Dial. *)
Connections == Launchers \X {"probe", "wait", "main"}

TypeOK ==
  /\ installed \in BOOLEAN
  /\ pc \in [Launchers -> Starting \cup Done \cup {"run"}]
  /\ broken \in [Apps -> SUBSET Launchers]
  /\ later \in [Launchers -> SUBSET Launchers]
  /\ spawned \in [Launchers -> SUBSET Processes]
  /\ phase \in [Processes -> Phases]
  /\ pending \in [Processes -> SUBSET Connections]
  /\ live \in [Processes -> SUBSET Connections]
  /\ \A p \in Processes : phase[p] \in {"none", "starting"} => live[p] \cup pending[p] = {}
  /\ \A l \in Launchers : spawned[l] # {} => pc[l] = "wait"
  /\ kills \in 0..MaxKills
  /\ met \in [Launchers -> {"nothing", "window", "kill", "start"}]

Init ==
  /\ installed \in BOOLEAN
  /\ pc = [l \in Launchers |-> "idle"]
  /\ broken = [a \in Apps |-> {}]
  /\ later = [l \in Launchers |-> {}]
  /\ spawned = [l \in Launchers |-> {}]
  /\ phase = [p \in Processes |-> "none"]
  /\ pending = [p \in Processes |-> {}]
  /\ live = [p \in Processes |-> {}]
  /\ kills = 0
  /\ met = [l \in Launchers |-> "nothing"]

At(l, s) == pc[l] = s
Go(l, s) == pc' = [pc EXCEPT ![l] = s]
End(l, how) == Go(l, how) /\ met' = [met EXCEPT ![l] = "nothing"]

(* What they met first counts; only a kill excuses more than the others. *)
Meets(ls, what) ==
  [l \in Launchers |->
     IF l \in ls /\ pc[l] \notin Done /\ met[l] = "nothing" THEN what ELSE met[l]]

Accepting == {p \in Processes : phase[p] \in {"listening", "deciding"}}
Lingering == {p \in Processes : phase[p] = "closed" /\ live[p] # {}}
NameHolders == Accepting \cup Lingering

-----------------------------------------------------------------------------
(* extractPayloadFiles. *)
Unpack(l) ==
  /\ pc[l] \in Done
  /\ Go(l, "unpack")
  /\ later' = [later EXCEPT ![l] = {}]
  /\ UNCHANGED <<installed, spawned, broken, servers, kills, met>>

(* Variant: files that cannot be written are skipped. *)
Unpacked_Partly(l) ==
  /\ At(l, "unpack")
  /\ Go(l, "probe")
  /\ UNCHANGED <<installed, spawned, payload, servers, kills, met>>

(* What broke off meanwhile has been rewritten since, or has not. *)
Unpacked(l) ==
  /\ At(l, "unpack")
  /\ Go(l, "probe")
  /\ \E left \in SUBSET later[l] :
       /\ broken' = [broken EXCEPT ![AppOf[l]] = left]
       /\ later' = [o \in Launchers |->
                      IF AppOf[o] = AppOf[l] THEN later[o] \cap left ELSE later[o]]
  /\ UNCHANGED <<installed, spawned, servers, kills, met>>

(* Unpacking ends in the middle, perhaps of a file; some have been written. *)
BreaksOff(l) ==
  \E left \in SUBSET (broken[AppOf[l]] \cup {l}) :
    /\ broken' = [broken EXCEPT ![AppOf[l]] = left]
    /\ later' = [o \in Launchers |->
                   IF AppOf[o] = AppOf[l] THEN (later[o] \cup {l}) \cap left ELSE later[o]]

(* A file cannot be opened or written: the launcher exits. *)
UnpackFails(l) ==
  /\ At(l, "unpack")
  /\ BreaksOff(l)
  /\ End(l, "failed")
  /\ UNCHANGED <<installed, spawned, servers, kills>>

(* winio.DialPipe: waits while all instances of a serving pipe are taken.  *)
Connect(l, kind, p) ==
  /\ p \in Accepting /\ pending[p] = {}
  /\ pending' = [pending EXCEPT ![p] = {<<l, kind>>}]

(* IsServerRunning: connect, and close at once. *)
Probe(l) ==
  /\ pc[l] \in {"probe", "wait"}
  /\ \E p \in Processes :
       /\ Connect(l, pc[l], p)
       /\ met' = [met EXCEPT ![l] = IF phase[p] = "deciding" THEN "window" ELSE "nothing"]
  /\ Go(l, "dial")
  /\ spawned' = [spawned EXCEPT ![l] = {}]
  /\ UNCHANGED <<installed, payload, phase, live, kills>>

(* No pipe of the name, or a busy one until the timeout of 200 ms. *)
ProbeFails(l) ==
  /\ At(l, "probe") /\ \A p \in Accepting : pending[p] # {}
  /\ Go(l, "find")
  /\ UNCHANGED <<installed, spawned, payload, servers, kills, met>>

(* The dialog of a missing Hrunner ends the launcher, whatever the answer. *)
FindNone(l) ==
  /\ At(l, "find") /\ ~installed
  /\ End(l, "failed")
  /\ UNCHANGED <<installed, spawned, payload, servers, kills>>

Spawn(l) ==
  /\ At(l, "find") /\ installed
  /\ Go(l, "wait")
  /\ \E p \in Processes :
       /\ phase[p] = "none"
       /\ phase' = [phase EXCEPT ![p] = "starting"]
       /\ spawned' = [spawned EXCEPT ![l] = {p}]
  /\ UNCHANGED <<installed, payload, pending, live, kills, met>>

(* There is a hrunner.exe, and it cannot be started. *)
SpawnFails(l) ==
  /\ At(l, "find") /\ installed
  /\ End(l, "failed")
  /\ UNCHANGED <<installed, spawned, payload, servers, kills>>

(* Variant: the loop has no bound. *)
WaitEnds_Never(l) ==
  /\ At(l, "wait") /\ Accepting = {}
  /\ UNCHANGED vars

(* The last of fifty probes, in five seconds, fails: the spawned process   *)
(* has given up, or is still not that far. A server that listens takes a   *)
(* connection sooner.                                                      *)
WaitEnds(l) ==
  /\ At(l, "wait") /\ Accepting = {}
  /\ End(l, "failed")
  /\ spawned' = [spawned EXCEPT ![l] = {}]
  /\ UNCHANGED <<installed, payload, servers, kills>>

Dial(l) ==
  /\ At(l, "dial")
  /\ \E p \in Processes : Connect(l, "main", p)
  /\ Go(l, "sent")
  /\ UNCHANGED <<installed, spawned, payload, phase, live, kills, met>>

DialFails(l) ==
  /\ At(l, "dial") /\ Accepting = {}
  /\ End(l, "failed")
  /\ UNCHANGED <<installed, spawned, payload, servers, kills>>

(* The receive loop ends with LaunchReady, with an error response, or with *)
(* the connection. What the server does before it answers is LaunchSession.*)
Served(l) == \E p \in Processes : <<l, "main">> \in live[p]
Waiting(l) == \E p \in Processes : <<l, "main">> \in live[p] \cup pending[p]

Run(l) ==
  /\ At(l, "sent") /\ Served(l)
  /\ Go(l, "run")
  /\ UNCHANGED <<installed, spawned, payload, servers, kills, met>>

Refused(l) ==
  /\ At(l, "sent") /\ Served(l)
  /\ End(l, "idle")
  /\ UNCHANGED <<installed, spawned, payload, servers, kills>>

Lost(l) ==
  /\ At(l, "sent") /\ ~Waiting(l)
  /\ End(l, "failed")
  /\ UNCHANGED <<installed, spawned, payload, servers, kills>>

(* The launcher keeps its connection until the application has ended. *)
AppEnds(l) ==
  /\ At(l, "run")
  /\ End(l, "idle")
  /\ UNCHANGED <<installed, spawned, payload, servers, kills>>

-----------------------------------------------------------------------------
(* The processes. *)

(* Variant: the name is looked for among listening pipes only. *)
Listen_IgnoresSessions(p) ==
  /\ phase[p] = "starting" /\ Accepting = {}
  /\ phase' = [phase EXCEPT ![p] = "listening"]
  /\ UNCHANGED <<installed, launcher, payload, pending, live, kills, met>>

Listen(p) ==
  /\ phase[p] = "starting" /\ NameHolders = {}
  /\ phase' = [phase EXCEPT ![p] = "listening"]
  /\ UNCHANGED <<installed, launcher, payload, pending, live, kills, met>>

(* NewHrunnerCore fails, as it does with a registry.json it cannot read,   *)
(* or the process ends otherwise before it listens.                        *)
StartFails(p) ==
  /\ phase[p] = "starting"
  /\ phase' = [phase EXCEPT ![p] = "none"]
  /\ met' = Meets({l \in Launchers : p \in spawned[l]}, "start")
  /\ UNCHANGED <<installed, launcher, payload, pending, live, kills>>

(* ListenPipe fails and main exits. *)
ListenFails(p) ==
  /\ phase[p] = "starting" /\ NameHolders # {}
  /\ phase' = [phase EXCEPT ![p] = "none"]
  /\ met' = IF \E h \in NameHolders : phase[h] # "listening"
            THEN Meets({l \in Launchers : p \in spawned[l]}, "window") ELSE met
  /\ UNCHANGED <<installed, launcher, payload, pending, live, kills>>

(* A probe's session is hung up when it begins, whichever probe it was. *)
Session(c) == <<c[1], IF c[2] = "main" THEN "main" ELSE "probe">>

Accept(p, c) ==
  /\ p \in Accepting /\ c \in pending[p]
  /\ pending' = [pending EXCEPT ![p] = @ \ {c}]
  /\ live' = [live EXCEPT ![p] = @ \cup {Session(c)}]
  /\ UNCHANGED <<installed, launcher, payload, phase, kills, met>>

(* The client has closed its end. *)
Leave(p, c) ==
  /\ c \in live[p]
  /\ c[2] = "main" => pc[c[1]] \notin {"sent", "run"}
  /\ live' = [live EXCEPT ![p] = @ \ {c}]
  /\ UNCHANGED <<installed, launcher, payload, phase, pending, kills, met>>

(* Variant: the timer is not stopped while clients are connected. *)
Decide_Connected(p) ==
  /\ phase[p] = "listening"
  /\ phase' = [phase EXCEPT ![p] = "deciding"]
  /\ met' = Meets({l \in Launchers : <<l, "probe">> \in pending[p]}, "window")
  /\ UNCHANGED <<installed, launcher, payload, pending, live, kills>>

(* The idle timer fires and its callback finds no session. A timeout is    *)
(* five seconds of rest: it does not run out while a launcher that found   *)
(* no pipe is about to probe again, or between a launcher's accepted probe *)
(* and its dial; it may just as somebody's first connection comes in.      *)
Soon(p, l) ==
  \/ pc[l] \in {"find", "wait"}
  \/ At(l, "dial") /\ <<l, "probe">> \notin pending[p]
  \/ <<l, "main">> \in pending[p]

Decide(p) ==
  /\ phase[p] = "listening" /\ live[p] = {}
  /\ ~\E l \in Launchers : Soon(p, l)
  /\ phase' = [phase EXCEPT ![p] = "deciding"]
  /\ met' = Meets({l \in Launchers : <<l, "probe">> \in pending[p]}, "window")
  /\ UNCHANGED <<installed, launcher, payload, pending, live, kills>>

(* Variant: the process does not wait for its sessions. *)
Exit_NoWait(p) ==
  /\ phase[p] = "closed"
  /\ phase' = [phase EXCEPT ![p] = "none"]
  /\ live' = [live EXCEPT ![p] = {}]
  /\ UNCHANGED <<installed, launcher, payload, pending, kills, met>>

(* Variant: the listener is left open. *)
Close_LeavesPipe(p) ==
  /\ phase[p] = "deciding"
  /\ phase' = [phase EXCEPT ![p] = "closed"]
  /\ UNCHANGED <<installed, launcher, payload, pending, live, kills, met>>

(* Clients that were accepted in the meantime stay, others are cut off. *)
Close(p) ==
  /\ phase[p] = "deciding"
  /\ phase' = [phase EXCEPT ![p] = "closed"]
  /\ pending' = [pending EXCEPT ![p] = {}]
  /\ UNCHANGED <<installed, launcher, payload, live, kills, met>>

Exit(p) ==
  /\ phase[p] = "closed" /\ live[p] = {}
  /\ phase' = [phase EXCEPT ![p] = "none"]
  /\ UNCHANGED <<installed, launcher, payload, pending, live, kills, met>>

KillServer(p) ==
  /\ kills < MaxKills /\ phase[p] # "none"
  /\ kills' = kills + 1
  /\ phase' = [phase EXCEPT ![p] = "none"]
  /\ pending' = [pending EXCEPT ![p] = {}]
  /\ live' = [live EXCEPT ![p] = {}]
  /\ met' = [l \in Launchers |-> IF pc[l] \in Done THEN met[l] ELSE "kill"]
  /\ UNCHANGED <<installed, launcher, payload>>

KillLauncher(l) ==
  /\ kills < MaxKills /\ pc[l] \in Starting \cup {"run"}
  /\ kills' = kills + 1
  /\ IF At(l, "unpack") THEN BreaksOff(l) ELSE UNCHANGED payload
  /\ End(l, "killed")
  /\ spawned' = [spawned EXCEPT ![l] = {}]
  /\ UNCHANGED <<installed, servers>>

-----------------------------------------------------------------------------
(* What a launcher does by itself. *)
Proceeds(l) ==
  \/ Unpacked(l)
  \/ UnpackFails(l)
  \/ Probe(l)
  \/ ProbeFails(l)
  \/ Spawn(l)
  \/ SpawnFails(l)
  \/ WaitEnds(l)
  \/ Dial(l)
  \/ DialFails(l)
  \/ Lost(l)

LauncherStep(l) ==
  \/ Proceeds(l)
  \/ FindNone(l)
  \/ Run(l)
  \/ Refused(l)

Serves(p) ==
  \/ Listen(p)
  \/ ListenFails(p)
  \/ StartFails(p)
  \/ \E c \in pending[p] : Accept(p, c)
  \/ Close(p)
  \/ Exit(p)

ServerStep(p) == Serves(p) \/ \E c \in live[p] : Leave(p, c)

Next ==
  \/ \E l \in Launchers :
       Unpack(l) \/ LauncherStep(l) \/ AppEnds(l) \/ KillLauncher(l)
  \/ \E p \in Processes : ServerStep(p) \/ Decide(p) \/ KillServer(p)

(* Both kinds of process run. A server need not answer, nor end a session: *)
(* a launch may wait for a download or a dialog for ever, and one that is  *)
(* finished in the setup dialog gets no answer. Nobody has to close the    *)
(* dialog of a missing Hrunner, to start or to end an application. A       *)
(* launcher that is told "busy" tries again every ten milliseconds until   *)
(* it gets an instance: it is not overtaken for ever, hence its strong     *)
(* fairness.                                                               *)
Fairness ==
  /\ \A l \in Launchers : SF_vars(Proceeds(l))
  /\ \A p \in Processes : WF_vars(Serves(p))

Spec == Init /\ [][Next]_vars /\ Fairness

-----------------------------------------------------------------------------
(* All open instances of the pipe belong to one process: launchers that    *)
(* start at the same time, and a server that closes under them, never make *)
(* two servers that share clients.                                         *)
OneHolder == \A p, q \in NameHolders : p = q

(* A launcher that has its files and a hrunner.exe to start fails to reach *)
(* a server only for one of four causes: a server was killed; one had      *)
(* already decided to close, so that its pipe was there for the probe and  *)
(* gone for the dial, cut the connection off, or kept the name from the    *)
(* launcher's own server; that server failed as it started; or it took     *)
(* more than the five seconds of the wait loop to.                         *)
FailsOnlyForCause ==
  [][\A l \in Launchers :
       pc[l] \in Starting \ {"unpack", "find"} /\ pc'[l] = "failed" =>
         \/ met[l] # "nothing"
         \/ At(l, "wait") /\ \E p \in spawned[l] : phase[p] = "starting"]_vars

(* A running application is a session of a process that is there: the      *)
(* server counts it, and cannot end before it.                             *)
RunIsCounted ==
  \A l \in Launchers :
    At(l, "run") => met[l] = "kill" \/ \E p \in NameHolders : <<l, "main">> \in live[p]

(* The files an application starts from and runs on are whole, but for     *)
(* what another launcher is rewriting just now, or left half when it broke *)
(* off after this one had begun to unpack: the directory is the            *)
(* application's, not the launcher's.                                      *)
RunsOnWholeFiles ==
  \A l \in Launchers :
    pc[l] \in Starting \cup {"run"} /\ ~At(l, "unpack") =>
      broken[AppOf[l]] \subseteq later[l] \ {l}

(* A launcher does not stay on its way for ever, whatever fails, except in *)
(* a session whose server does not answer, or in front of the dialog of a  *)
(* missing Hrunner.                                                        *)
Settles ==
  \A l \in Launchers :
    pc[l] \in Starting ~>
      \/ pc[l] \notin Starting
      \/ At(l, "sent") /\ Served(l)
      \/ At(l, "find") /\ ~installed

(* A process, from its listening to its end, is the server that PipeServer *)
(* implements: its sessions are the connections it has accepted, and it    *)
(* has exited when it is gone.                                             *)
LifePhase(p) ==
  CASE phase[p] \in {"listening", "deciding"} -> "listening"
    [] phase[p] = "closed" -> "closed"
    [] OTHER -> "exited"

Life(p) == INSTANCE ServerLifecycle WITH
  Clients <- Connections,
  phase <- LifePhase(p),
  live <- live[p]

(* It begins to listen as ServerLifecycle begins, and takes only steps of   *)
(* it until it is gone, unless it is killed.                                *)
KeepsLifecycle ==
  [][\A p \in Processes :
       /\ phase[p] = "starting" /\ phase'[p] = "listening" => Life(p)!Init'
       /\ phase[p] \in {"listening", "deciding", "closed"} /\ kills' = kills =>
            [Life(p)!Next]_(Life(p)!vars)]_vars
=============================================================================
