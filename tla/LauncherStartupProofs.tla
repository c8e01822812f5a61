----------------------- MODULE LauncherStartupProofs -----------------------
(***************************************************************************)
(* Proofs about LauncherStartup, for any launchers, processes and          *)
(* applications, and any number of kills.                                  *)
(***************************************************************************)
EXTENDS LauncherStartup, TLAPS

(* Half files that a launcher has not rewritten were left by others, after *)
(* it had begun to unpack; in particular not by itself.                    *)
PayloadInv ==
  \A l \in Launchers :
    /\ later[l] \subseteq broken[AppOf[l]]
    /\ pc[l] \in Starting \cup {"run"} =>
         /\ l \notin later[l]
         /\ At(l, "unpack") \/ broken[AppOf[l]] \subseteq later[l]

(* A closed listener has no connection left to accept. *)
ClosedInv == \A p \in Processes : phase[p] = "closed" => pending[p] = {}

Listening == {p \in Processes : phase[p] = "listening"}

(* What a launcher relies on, unless it met the window or a kill: that the *)
(* process it spawned will listen or another does, that the pipe it probed *)
(* is there to be dialled, and that its connection is or will be accepted. *)
WindowInv ==
  \A l \in Launchers : met[l] = "nothing" =>
    /\ At(l, "wait") =>
         Listening # {} \/ \E p \in spawned[l] : phase[p] = "starting"
    /\ At(l, "dial") => Listening # {}
    /\ At(l, "sent") =>
         \E p \in Processes :
           \/ <<l, "main">> \in live[p]
           \/ p \in Listening /\ <<l, "main">> \in pending[p]

IInv ==
  /\ TypeOK
  /\ PayloadInv
  /\ ClosedInv
  /\ WindowInv
  /\ OneHolder
  /\ RunIsCounted

-----------------------------------------------------------------------------
(* Nothing runs yet. *)
LEMMA InitIInv == Init => IInv
<1> SUFFICES ASSUME Init PROVE IInv
  OBVIOUS
<1> USE DEF Init
<1>1. TypeOK
  BY StartupAssumption DEF TypeOK, Done, Phases
<1>2. PayloadInv /\ ClosedInv /\ WindowInv
  BY DEF PayloadInv, ClosedInv, WindowInv, At, Starting
<1>3. OneHolder /\ RunIsCounted
  BY DEF OneHolder, RunIsCounted, NameHolders, Accepting, Lingering, At
<1>4. QED
  BY <1>1, <1>2, <1>3 DEF IInv

(* What a launcher may have met has its type. *)
LEMMA MeetsType ==
  ASSUME TypeOK, NEW ls, NEW what \in {"window", "start"}
  PROVE  Meets(ls, what) \in [Launchers -> {"nothing", "window", "kill", "start"}]
BY DEF TypeOK, Meets

(* A launcher's step, for the types. *)
LEMMA LauncherTypeOK ==
  ASSUME TypeOK, NEW l \in Launchers,
         Unpack(l) \/ LauncherStep(l) \/ AppEnds(l) \/ KillLauncher(l)
  PROVE  TypeOK'
<1> USE DEF TypeOK, At, Go, End, launcher, payload, servers, Starting, Done, Phases
<1>1. CASE Unpack(l) \/ Unpacked(l) \/ UnpackFails(l)
  BY <1>1, StartupAssumption DEF Unpack, Unpacked, UnpackFails, BreaksOff
<1>2. CASE Probe(l)
  <2>1. PICK p \in Processes :
          /\ Connect(l, pc[l], p)
          /\ met' = [met EXCEPT ![l] = IF phase[p] = "deciding" THEN "window" ELSE "nothing"]
    BY <1>2 DEF Probe
  <2>2. <<l, pc[l]>> \in Connections
    BY <1>2 DEF Probe, Connections
  <2>3. pending' \in [Processes -> SUBSET Connections]
    BY <2>1, <2>2 DEF Connect
  <2>4. QED
    BY <1>2, <2>1, <2>3 DEF Probe, Connect, Accepting
<1>3. CASE ProbeFails(l) \/ FindNone(l) \/ SpawnFails(l) \/ WaitEnds(l) \/ DialFails(l)
  BY <1>3 DEF ProbeFails, FindNone, SpawnFails, WaitEnds, DialFails
<1>4. CASE Spawn(l)
  BY <1>4 DEF Spawn
<1>5. CASE Dial(l)
  <2>1. PICK p \in Processes : Connect(l, "main", p)
    BY <1>5 DEF Dial
  <2>2. pending' \in [Processes -> SUBSET Connections]
    BY <2>1 DEF Connect, Connections
  <2>3. QED
    BY <1>5, <2>1, <2>2 DEF Dial, Connect, Accepting
<1>6. CASE Run(l) \/ Refused(l) \/ Lost(l) \/ AppEnds(l)
  BY <1>6 DEF Run, Refused, Lost, AppEnds
<1>7. CASE KillLauncher(l)
  BY <1>7, StartupAssumption DEF KillLauncher, BreaksOff
<1>8. QED
  BY <1>1, <1>2, <1>3, <1>4, <1>5, <1>6, <1>7 DEF LauncherStep, Proceeds

(* A process's step, for the types. *)
LEMMA ServerTypeOK ==
  ASSUME TypeOK, ClosedInv, NEW p \in Processes,
         ServerStep(p) \/ Decide(p) \/ KillServer(p)
  PROVE  TypeOK'
<1> USE DEF TypeOK, launcher, payload, servers, Phases
<1>1. CASE Listen(p) \/ Close(p) \/ Exit(p)
  BY <1>1 DEF Listen, Close, Exit, ClosedInv
<1>2. CASE ListenFails(p) \/ StartFails(p)
  BY <1>2, MeetsType DEF ListenFails, StartFails
<1>3. ASSUME NEW c \in pending[p], Accept(p, c)
      PROVE  TypeOK'
  <2>1. Session(c) \in Connections
    BY <1>3 DEF Session, Connections
  <2>2. QED
    BY <1>3, <2>1 DEF Accept, Accepting
<1>4. ASSUME NEW c \in live[p], Leave(p, c)
      PROVE  TypeOK'
  BY <1>4 DEF Leave
<1>5. CASE Decide(p)
  BY <1>5, MeetsType DEF Decide
<1>6. CASE KillServer(p)
  BY <1>6, StartupAssumption DEF KillServer
<1>7. QED
  BY <1>1, <1>2, <1>3, <1>4, <1>5, <1>6 DEF ServerStep, Serves

(* Who gets through the files rewrites what broke off before it began; who *)
(* breaks off does so after every other launcher on its way had begun.     *)
LEMMA LauncherPayloadInv ==
  ASSUME TypeOK, PayloadInv, NEW l \in Launchers,
         Unpack(l) \/ LauncherStep(l) \/ AppEnds(l) \/ KillLauncher(l)
  PROVE  PayloadInv'
<1> USE DEF TypeOK, PayloadInv, At, Go, End, Done, Starting
<1>1. CASE Unpack(l)
  BY <1>1 DEF Unpack
<1>2. CASE Unpacked(l)
  <2>1. PICK left \in SUBSET later[l] :
          /\ broken' = [broken EXCEPT ![AppOf[l]] = left]
          /\ later' = [o \in Launchers |->
                         IF AppOf[o] = AppOf[l] THEN later[o] \cap left ELSE later[o]]
    BY <1>2 DEF Unpacked
  <2>2. pc' = [pc EXCEPT ![l] = "probe"]
    BY <1>2 DEF Unpacked
  <2>3. \A o \in Launchers : AppOf[o] \in Apps
    BY StartupAssumption
  <2>4. ASSUME NEW o \in Launchers, AppOf[o] = AppOf[l]
        PROVE  broken'[AppOf[o]] = left /\ later'[o] = later[o] \cap left
    BY <2>1, <2>3, <2>4
  <2>5. ASSUME NEW o \in Launchers, AppOf[o] # AppOf[l]
        PROVE  broken'[AppOf[o]] = broken[AppOf[o]] /\ later'[o] = later[o]
    BY <2>1, <2>3, <2>5
  <2>6. left \subseteq broken[AppOf[l]] /\ At(l, "unpack") /\ l \notin later[l]
    BY <1>2 DEF Unpacked
  <2>7. ASSUME NEW o \in Launchers
        PROVE  /\ later'[o] \subseteq broken'[AppOf[o]]
               /\ pc'[o] \in Starting \cup {"run"} =>
                    /\ o \notin later'[o]
                    /\ pc'[o] = "unpack" \/ broken'[AppOf[o]] \subseteq later'[o]
    <3>1. CASE o = l
      BY <2>4, <2>6, <3>1
    <3>2. CASE o # l /\ AppOf[o] = AppOf[l]
      BY <2>2, <2>4, <2>6, <3>2
    <3>3. CASE o # l /\ AppOf[o] # AppOf[l]
      BY <2>2, <2>5, <3>3
    <3>4. QED
      BY <3>1, <3>2, <3>3
  <2>8. QED
    BY <2>7
<1>3. CASE UnpackFails(l) \/ (KillLauncher(l) /\ At(l, "unpack"))
  <2>1. BreaksOff(l) /\ pc'[l] \in Done /\ \A o \in Launchers : o # l => pc'[o] = pc[o]
    BY <1>3 DEF UnpackFails, KillLauncher
  <2>2. PICK left \in SUBSET (broken[AppOf[l]] \cup {l}) :
          /\ broken' = [broken EXCEPT ![AppOf[l]] = left]
          /\ later' = [o \in Launchers |->
                         IF AppOf[o] = AppOf[l] THEN (later[o] \cup {l}) \cap left
                         ELSE later[o]]
    BY <2>1 DEF BreaksOff
  <2>3. \A o \in Launchers : AppOf[o] \in Apps
    BY StartupAssumption
  <2>4. ASSUME NEW o \in Launchers, AppOf[o] = AppOf[l]
        PROVE  broken'[AppOf[o]] = left /\ later'[o] = (later[o] \cup {l}) \cap left
    BY <2>2, <2>3, <2>4
  <2>5. ASSUME NEW o \in Launchers, AppOf[o] # AppOf[l]
        PROVE  broken'[AppOf[o]] = broken[AppOf[o]] /\ later'[o] = later[o]
    BY <2>2, <2>3, <2>5
  <2>6. QED
    BY <2>1, <2>4, <2>5
<1>4. CASE ~(Unpack(l) \/ Unpacked(l) \/ UnpackFails(l) \/ (KillLauncher(l) /\ At(l, "unpack")))
  <2>1. UNCHANGED payload /\ \A o \in Launchers : o # l => pc'[o] = pc[o]
    BY <1>4 DEF LauncherStep, Proceeds, Probe, ProbeFails, FindNone, Spawn, SpawnFails,
       WaitEnds, Dial, DialFails, Run, Refused, Lost, AppEnds, KillLauncher
  <2>2. pc'[l] \in Starting \cup {"run"} => pc[l] \in (Starting \ {"unpack"}) \cup {"run"}
    BY <1>4 DEF LauncherStep, Proceeds, Probe, ProbeFails, FindNone, Spawn, SpawnFails,
       WaitEnds, Dial, DialFails, Run, Refused, Lost, AppEnds, KillLauncher
  <2>3. QED
    BY <2>1, <2>2 DEF payload
<1>5. QED
  BY <1>1, <1>2, <1>3, <1>4

(* Processes touch no payload. *)
LEMMA ServerFrame ==
  ASSUME NEW p \in Processes, ServerStep(p) \/ Decide(p) \/ KillServer(p)
  PROVE  UNCHANGED <<installed, pc, spawned, payload>>
BY DEF ServerStep, Serves, StartFails, Listen, ListenFails, Accept, Leave, Close, Exit,
   Decide, KillServer, launcher

(* The launchers' steps leave the processes' sessions alone; only Spawn    *)
(* touches a process, and only one that is not there.                      *)
LEMMA LauncherFrame ==
  ASSUME TypeOK, NEW l \in Launchers,
         Unpack(l) \/ LauncherStep(l) \/ AppEnds(l) \/ KillLauncher(l)
  PROVE  /\ live' = live
         /\ \A p \in Processes :
              phase'[p] = phase[p] \/ (phase[p] = "none" /\ phase'[p] = "starting")
         /\ \A p \in Processes \ Accepting : pending'[p] = pending[p]
         /\ \A p \in Processes : pending[p] \subseteq pending'[p]
         /\ \A o \in Launchers : o # l => pc'[o] = pc[o] /\ spawned'[o] = spawned[o]
         /\ \A o \in Launchers : o # l => met'[o] = met[o]
<1> USE DEF TypeOK, Go, End, launcher, servers, At
<1>1. CASE Unpack(l) \/ Unpacked(l) \/ UnpackFails(l) \/ ProbeFails(l) \/ FindNone(l)
             \/ SpawnFails(l) \/ WaitEnds(l) \/ DialFails(l) \/ Run(l) \/ Refused(l)
             \/ Lost(l) \/ AppEnds(l) \/ KillLauncher(l)
  BY <1>1 DEF Unpack, Unpacked, UnpackFails, ProbeFails, FindNone, SpawnFails, WaitEnds,
              DialFails, Run, Refused, Lost, AppEnds, KillLauncher
<1>2. CASE Probe(l)
  BY <1>2 DEF Probe, Connect
<1>3. CASE Spawn(l)
  BY <1>3 DEF Spawn
<1>4. CASE Dial(l)
  BY <1>4 DEF Dial, Connect
<1>5. QED
  BY <1>1, <1>2, <1>3, <1>4 DEF LauncherStep, Proceeds

(* A launcher makes no name's holder, and ends none. *)
LEMMA LauncherNames ==
  ASSUME TypeOK, NEW l \in Launchers,
         Unpack(l) \/ LauncherStep(l) \/ AppEnds(l) \/ KillLauncher(l)
  PROVE  Accepting' = Accepting /\ NameHolders' = NameHolders /\ Listening' = Listening
<1>1. \A p \in Processes : live'[p] = live[p]
  BY LauncherFrame
<1>2. \A p \in Processes : \A ph \in {"listening", "deciding", "closed"} :
        phase'[p] = ph <=> phase[p] = ph
  BY LauncherFrame
<1>3. QED
  BY <1>1, <1>2 DEF Accepting, NameHolders, Lingering, Listening

(* A launcher connects to no server that is closed. *)
LEMMA LauncherClosedInv ==
  ASSUME TypeOK, ClosedInv, NEW l \in Launchers,
         Unpack(l) \/ LauncherStep(l) \/ AppEnds(l) \/ KillLauncher(l)
  PROVE  ClosedInv'
BY LauncherFrame DEF ClosedInv, Accepting

(* A server that closes drops the connections it has not accepted. *)
LEMMA ServerClosedInv ==
  ASSUME TypeOK, ClosedInv, NEW p \in Processes,
         ServerStep(p) \/ Decide(p) \/ KillServer(p)
  PROVE  ClosedInv'
BY DEF TypeOK, ClosedInv, Accepting, ServerStep, Serves, StartFails, Listen, ListenFails,
   Accept, Leave, Close, Exit, Decide, KillServer

(* Only Listen makes a holder of the name, and only when there is none: a  *)
(* session can only join a process that accepts, which holds it already.   *)
LEMMA ServerOneHolder ==
  ASSUME TypeOK, OneHolder, NEW p \in Processes,
         ServerStep(p) \/ Decide(p) \/ KillServer(p)
  PROVE  OneHolder'
<1> USE DEF TypeOK, NameHolders, Accepting, Lingering
<1>1. CASE Listen(p)
  BY <1>1 DEF OneHolder, Listen
<1>2. CASE ~Listen(p)
  <2>1. NameHolders' \subseteq NameHolders
    BY <1>2 DEF ServerStep, Serves, StartFails, ListenFails, Accept, Leave, Close, Exit,
       Decide, KillServer
  <2>2. QED
    BY <2>1 DEF OneHolder
<1>3. QED
  BY <1>1, <1>2

(* A launcher starts its application on a session that is there. *)
LEMMA LauncherRunIsCounted ==
  ASSUME TypeOK, RunIsCounted, NEW l \in Launchers,
         Unpack(l) \/ LauncherStep(l) \/ AppEnds(l) \/ KillLauncher(l)
  PROVE  RunIsCounted'
<1>1. live' = live /\ NameHolders' = NameHolders
  BY LauncherFrame, LauncherNames
<1>2. ASSUME NEW o \in Launchers, o # l, At(o, "run")'
      PROVE  met'[o] = "kill" \/ \E p \in NameHolders : <<o, "main">> \in live[p]
  BY <1>2, LauncherFrame DEF RunIsCounted, At
<1>3. ASSUME At(l, "run")'
      PROVE  \E p \in NameHolders : <<l, "main">> \in live[p]
  <2>1. Run(l)
    BY <1>3 DEF TypeOK, At, Go, End, Unpack, LauncherStep, Proceeds, Unpacked,
       UnpackFails, Probe, ProbeFails, FindNone, Spawn, SpawnFails, WaitEnds, Dial,
       DialFails, Refused, Lost, AppEnds, KillLauncher
  <2>2. PICK p \in Processes : <<l, "main">> \in live[p]
    BY <2>1 DEF Run, Served
  <2>3. p \in NameHolders
    BY <2>2 DEF TypeOK, Phases, NameHolders, Accepting, Lingering
  <2>4. QED
    BY <2>2, <2>3
<1>4. QED
  BY <1>1, <1>2, <1>3 DEF RunIsCounted

(* What processes do never takes away what a launcher met. *)
LEMMA ServerMet ==
  ASSUME TypeOK, NEW p \in Processes, ServerStep(p) \/ Decide(p) \/ KillServer(p),
         NEW l \in Launchers
  PROVE  /\ met'[l] = "nothing" => met[l] = "nothing"
         /\ met[l] = "kill" => met'[l] = "kill"
         /\ KillServer(p) /\ pc[l] \notin Done => met'[l] = "kill"
<1> USE DEF TypeOK
<1>1. ASSUME NEW ls
      PROVE  \A what \in {"window", "start"} :
               /\ Meets(ls, what)[l] = "nothing" => met[l] = "nothing"
               /\ met[l] = "kill" => Meets(ls, what)[l] = "kill"
  BY DEF Meets
<1>2. CASE ListenFails(p) \/ StartFails(p)
  BY <1>1, <1>2 DEF ListenFails, StartFails, KillServer
<1>3. CASE Decide(p)
  BY <1>1, <1>3 DEF Decide, KillServer
<1>4. CASE KillServer(p)
  BY <1>4 DEF KillServer
<1>5. CASE ServerStep(p) /\ ~ListenFails(p) /\ ~StartFails(p)
  BY <1>5 DEF ServerStep, Serves, Listen, Accept, Leave, Close, Exit, KillServer
<1>6. QED
  BY <1>2, <1>3, <1>4, <1>5

(* A running launcher's session goes with a killed process only. *)
LEMMA ServerRunIsCounted ==
  ASSUME TypeOK, RunIsCounted, NEW p \in Processes,
         ServerStep(p) \/ Decide(p) \/ KillServer(p)
  PROVE  RunIsCounted'
<1> SUFFICES ASSUME NEW l \in Launchers, At(l, "run")', met'[l] # "kill"
             PROVE  \E q \in NameHolders' : <<l, "main">> \in live'[q]
  BY DEF RunIsCounted
<1>1. At(l, "run")
  BY ServerFrame DEF At
<1>2. ~KillServer(p) /\ met[l] # "kill"
  BY <1>1, ServerMet DEF At, Done
<1>3. PICK q \in NameHolders : <<l, "main">> \in live[q]
  BY <1>1, <1>2 DEF RunIsCounted
<1>4. q \in Processes /\ q # p => live'[q] = live[q] /\ phase'[q] = phase[q]
  BY <1>2 DEF TypeOK, ServerStep, Serves, StartFails, Listen, ListenFails, Accept, Leave,
     Close, Exit, Decide
<1>5. <<l, "main">> \in live[p] =>
        /\ <<l, "main">> \in live'[p]
        /\ phase[p] \in {"listening", "deciding", "closed"} =>
             phase'[p] \in {"listening", "deciding", "closed"}
  <2>1. ASSUME NEW c \in live[p], Leave(p, c), <<l, "main">> \in live[p]
        PROVE  <<l, "main">> \in live'[p] /\ phase' = phase
    BY <1>1, <2>1 DEF TypeOK, Leave, At
  <2>2. QED
    BY <1>2, <2>1 DEF TypeOK, ServerStep, Serves, StartFails, Listen, ListenFails, Accept,
       Close, Exit, Decide
<1>6. QED
  BY <1>3, <1>4, <1>5 DEF NameHolders, Accepting, Lingering

-----------------------------------------------------------------------------
(* A launcher that met nothing goes from one reliance to the next. *)
LEMMA LauncherWindowInv ==
  ASSUME TypeOK, OneHolder, WindowInv, NEW l \in Launchers,
         Unpack(l) \/ LauncherStep(l) \/ AppEnds(l) \/ KillLauncher(l)
  PROVE  WindowInv'
<1> DEFINE Relies(o) ==
      /\ At(o, "wait") =>
           Listening # {} \/ \E p \in spawned[o] : phase[p] = "starting"
      /\ At(o, "dial") => Listening # {}
      /\ At(o, "sent") =>
           \E p \in Processes :
             \/ <<o, "main">> \in live[p]
             \/ p \in Listening /\ <<o, "main">> \in pending[p]
<1>1. live' = live /\ Listening' = Listening
  BY LauncherFrame, LauncherNames
<1>2. ASSUME NEW o \in Launchers, o # l, met'[o] = "nothing"
      PROVE  Relies(o)'
  <2>1. Relies(o) /\ pc'[o] = pc[o] /\ spawned'[o] = spawned[o]
    BY <1>2, LauncherFrame DEF WindowInv
  <2>2. \A p \in Processes : /\ phase[p] = "starting" => phase'[p] = "starting"
                             /\ pending[p] \subseteq pending'[p]
    BY LauncherFrame
  <2>3. spawned[o] \subseteq Processes
    BY DEF TypeOK
  <2>4. QED
    BY <1>1, <2>1, <2>2, <2>3 DEF At
<1>3. ASSUME met'[l] = "nothing"
      PROVE  Relies(l)'
  <2>1. CASE Probe(l)
    <3>1. PICK p \in Processes :
            /\ Connect(l, pc[l], p)
            /\ met' = [met EXCEPT ![l] = IF phase[p] = "deciding" THEN "window" ELSE "nothing"]
      BY <2>1 DEF Probe
    <3>2. pc'[l] = "dial" /\ pc[l] \notin Done
      BY <2>1 DEF Probe, Go, TypeOK, Done
    <3>3. phase[p] = "listening"
      BY <1>3, <3>1 DEF Connect, Accepting, TypeOK
    <3>4. p \in Listening'
      BY <1>1, <3>3 DEF Listening
    <3>5. QED
      BY <3>2, <3>4 DEF At
  <2>2. CASE Spawn(l)
    BY <2>2 DEF Spawn, Go, TypeOK, At
  <2>3. CASE Dial(l)
    <3>1. PICK p \in Processes : Connect(l, "main", p)
      BY <2>3 DEF Dial
    <3>2. pc'[l] = "sent" /\ met[l] = "nothing" /\ At(l, "dial")
      BY <1>3, <2>3 DEF Dial, Go, TypeOK
    <3>3. PICK q \in Listening : TRUE
      BY <3>2 DEF WindowInv
    <3>4. p = q
      BY <3>1, <3>3 DEF OneHolder, Connect, Listening, NameHolders, Accepting
    <3>5. p \in Listening' /\ <<l, "main">> \in pending'[p]
      BY <1>1, <3>1, <3>3, <3>4 DEF Connect, TypeOK
    <3>6. QED
      BY <3>2, <3>5 DEF At
  <2>4. CASE ~Probe(l) /\ ~Spawn(l) /\ ~Dial(l)
    BY <2>4 DEF TypeOK, At, Go, End, Unpack, LauncherStep, Proceeds, Unpacked,
       UnpackFails, ProbeFails, FindNone, SpawnFails, WaitEnds, DialFails, Run, Refused,
       Lost, AppEnds, KillLauncher
  <2>5. QED
    BY <2>1, <2>2, <2>3, <2>4
<1>4. QED
  BY <1>2, <1>3 DEF WindowInv

(* A listening process comes to its decision only when no launcher relies  *)
(* on it, or makes those that do meet the window.                          *)
LEMMA ServerWindowInv ==
  ASSUME TypeOK, WindowInv, NEW p \in Processes,
         ServerStep(p) \/ Decide(p) \/ KillServer(p)
  PROVE  WindowInv'
<1> SUFFICES ASSUME NEW l \in Launchers, met'[l] = "nothing"
             PROVE  /\ At(l, "wait")' =>
                         \/ Listening' # {}
                         \/ \E q \in spawned'[l] : phase'[q] = "starting"
                    /\ At(l, "dial")' => Listening' # {}
                    /\ At(l, "sent")' =>
                         \E q \in Processes :
                           \/ <<l, "main">> \in live'[q]
                           \/ q \in Listening' /\ <<l, "main">> \in pending'[q]
  BY DEF WindowInv
<1>1. met[l] = "nothing" /\ pc' = pc /\ spawned' = spawned
  BY ServerMet, ServerFrame
<1>2. /\ At(l, "wait") =>
           Listening # {} \/ \E q \in spawned[l] : phase[q] = "starting"
      /\ At(l, "dial") => Listening # {}
      /\ At(l, "sent") =>
           \E q \in Processes :
             \/ <<l, "main">> \in live[q]
             \/ q \in Listening /\ <<l, "main">> \in pending[q]
  BY <1>1 DEF WindowInv
<1>3. \A q \in Processes : q # p =>
        phase'[q] = phase[q] /\ live'[q] = live[q] /\ pending'[q] = pending[q]
  BY DEF TypeOK, ServerStep, Serves, StartFails, Listen, ListenFails, Accept, Leave,
     Close, Exit, Decide, KillServer
<1>4. CASE KillServer(p)
  BY <1>1, <1>4, ServerMet DEF At, Done
<1>5. CASE Listen(p)
  <2>1. p \in Listening' /\ Listening \subseteq Listening' /\ live' = live /\ pending' = pending
    BY <1>5 DEF Listen, Listening, TypeOK
  <2>2. QED
    BY <1>1, <1>2, <2>1 DEF At
<1>6. CASE ListenFails(p)
  <2>1. Listening' = Listening /\ live' = live /\ pending' = pending
    BY <1>6 DEF ListenFails, Listening, TypeOK, servers
  <2>2. ASSUME At(l, "wait"), Listening = {}, p \in spawned[l]
        PROVE  FALSE
    <3>1. PICK h \in NameHolders : phase[h] # "listening"
      BY <1>6, <2>2 DEF ListenFails, Listening, NameHolders, Accepting, Lingering
    <3>2. met' = Meets({o \in Launchers : p \in spawned[o]}, "window")
      BY <1>6, <3>1 DEF ListenFails
    <3>3. QED
      BY <1>1, <2>2, <3>2 DEF Meets, At, Done
  <2>3. \A q \in spawned[l] : q \in Processes
    BY DEF TypeOK
  <2>4. QED
    BY <1>1, <1>2, <1>3, <2>1, <2>2, <2>3 DEF At
<1>7. ASSUME NEW c \in pending[p], Accept(p, c)
      PROVE  /\ Listening' = Listening /\ phase' = phase
             /\ \A q \in Processes : <<l, "main">> \in live[q] => <<l, "main">> \in live'[q]
             /\ <<l, "main">> \in pending[p] => \/ <<l, "main">> \in pending'[p]
                                                \/ <<l, "main">> \in live'[p]
  BY <1>7 DEF Accept, Listening, TypeOK, Session
<1>8. ASSUME NEW c \in live[p], Leave(p, c), At(l, "sent")
      PROVE  \A q \in Processes : <<l, "main">> \in live[q] => <<l, "main">> \in live'[q]
  BY <1>8 DEF Leave, TypeOK, At
<1>9. CASE \E c \in live[p] : Leave(p, c)
  <2>1. Listening' = Listening /\ phase' = phase /\ pending' = pending
    BY <1>9 DEF Leave, Listening
  <2>2. QED
    BY <1>1, <1>2, <1>8, <1>9, <2>1 DEF At
<1>10. CASE \E c \in pending[p] : Accept(p, c)
  BY <1>1, <1>2, <1>3, <1>7, <1>10 DEF At
<1>11. CASE Close(p) \/ Exit(p)
  <2>1. /\ Listening' = Listening /\ p \notin Listening
        /\ \A q \in Processes : live'[q] = live[q]
        /\ phase[p] # "starting"
    BY <1>11 DEF Close, Exit, Listening, TypeOK
  <2>2. \A q \in spawned[l] : q \in Processes
    BY DEF TypeOK
  <2>3. QED
    BY <1>1, <1>2, <1>3, <2>1, <2>2 DEF At
<1>12. CASE Decide(p)
  <2>1. ~Soon(p, l) /\ live' = live /\ pending' = pending
        /\ met' = Meets({o \in Launchers : <<o, "probe">> \in pending[p]}, "window")
    BY <1>12 DEF Decide
  <2>2. ~At(l, "wait") /\ <<l, "main">> \notin pending[p]
    BY <2>1 DEF Soon, At
  <2>3. ~At(l, "dial")
    <3>1. SUFFICES ASSUME At(l, "dial") PROVE FALSE
      OBVIOUS
    <3>2. <<l, "probe">> \in pending[p]
      BY <2>1, <3>1 DEF Soon
    <3>3. QED
      BY <1>1, <2>1, <3>1, <3>2 DEF Meets, At, Done
  <2>4. \A q \in Processes : q # p /\ q \in Listening => q \in Listening'
    BY <1>3 DEF Listening
  <2>5. QED
    BY <1>1, <1>2, <2>1, <2>2, <2>3, <2>4 DEF At
<1>13. CASE StartFails(p)
  <2>1. /\ Listening' = Listening /\ live' = live /\ pending' = pending
        /\ met' = Meets({o \in Launchers : p \in spawned[o]}, "start")
    BY <1>13 DEF StartFails, Listening, TypeOK, servers
  <2>2. ~(At(l, "wait") /\ p \in spawned[l])
    BY <1>1, <2>1 DEF Meets, At, Done
  <2>3. \A q \in spawned[l] : q \in Processes
    BY DEF TypeOK
  <2>4. QED
    BY <1>1, <1>2, <1>3, <2>1, <2>2, <2>3 DEF At
<1>14. QED
  BY <1>4, <1>5, <1>6, <1>9, <1>10, <1>11, <1>12, <1>13 DEF ServerStep, Serves

-----------------------------------------------------------------------------
(* Every step of a launcher preserves the inductive invariant. *)
LEMMA LauncherIInv ==
  ASSUME IInv, NEW l \in Launchers,
         Unpack(l) \/ LauncherStep(l) \/ AppEnds(l) \/ KillLauncher(l)
  PROVE  IInv'
<1>1. TypeOK' /\ PayloadInv' /\ ClosedInv' /\ WindowInv' /\ RunIsCounted'
  BY LauncherTypeOK, LauncherPayloadInv, LauncherClosedInv, LauncherWindowInv,
     LauncherRunIsCounted DEF IInv
<1>2. OneHolder'
  BY LauncherNames DEF IInv, OneHolder
<1>3. QED
  BY <1>1, <1>2 DEF IInv

(* So does every step of a server. *)
LEMMA ServerIInv ==
  ASSUME IInv, NEW p \in Processes, ServerStep(p) \/ Decide(p) \/ KillServer(p)
  PROVE  IInv'
<1>1. TypeOK' /\ ClosedInv' /\ WindowInv' /\ RunIsCounted' /\ OneHolder'
  BY ServerTypeOK, ServerClosedInv, ServerWindowInv, ServerRunIsCounted,
     ServerOneHolder DEF IInv
<1>2. PayloadInv'
  BY ServerFrame DEF IInv, PayloadInv, At, payload
<1>3. QED
  BY <1>1, <1>2 DEF IInv

(* Every step keeps the invariant. *)
LEMMA NextIInv == IInv /\ [Next]_vars => IInv'
<1>1. IInv /\ UNCHANGED vars => IInv'
  BY DEF IInv, vars, launcher, payload, servers, TypeOK, PayloadInv, ClosedInv, WindowInv,
     OneHolder, RunIsCounted, NameHolders, Accepting, Lingering, Listening, At
<1>2. QED
  BY <1>1, LauncherIInv, ServerIInv DEF Next

(* The inductive invariant holds in every reachable state. *)
THEOREM Invariance == Spec => []IInv
<1>1. QED
  BY InitIInv, NextIInv, PTL DEF Spec

(* The variables stay in their types; in particular a process that does    *)
(* not listen yet has no session, and a launcher waits for what it spawned *)
(* only in the wait loop.                                                  *)
THEOREM TypeCorrect == Spec => []TypeOK
<1>1. IInv => TypeOK
  BY DEF IInv
<1>2. QED
  BY <1>1, Invariance, PTL

(* The pipe's name belongs to one process at a time, however many          *)
(* launchers spawn a server at once.                                       *)
THEOREM NameIsExclusive == Spec => []OneHolder
<1>1. IInv => OneHolder
  BY DEF IInv
<1>2. QED
  BY <1>1, Invariance, PTL

(* The process an application was started by is there as long as the       *)
(* application runs, unless it is killed.                                  *)
THEOREM RunningKeepsServer == Spec => []RunIsCounted
<1>1. IInv => RunIsCounted
  BY DEF IInv
<1>2. QED
  BY <1>1, Invariance, PTL

(* A launcher past its unpacking finds its files whole, but for what other *)
(* launchers of the application left half since it began to unpack, or are *)
(* rewriting.                                                              *)
THEOREM FilesWhole == Spec => []RunsOnWholeFiles
<1>1. IInv => RunsOnWholeFiles
  BY DEF IInv, PayloadInv, RunsOnWholeFiles
<1>2. QED
  BY <1>1, Invariance, PTL

(* A launcher with its files and a hrunner.exe fails to reach a server     *)
(* only for the causes the statement names.                                *)
THEOREM FailureIsExcused == Spec => FailsOnlyForCause
<1> DEFINE Excused ==
      \A l \in Launchers :
        pc[l] \in Starting \ {"unpack", "find"} /\ pc'[l] = "failed" =>
          \/ met[l] # "nothing"
          \/ At(l, "wait") /\ \E p \in spawned[l] : phase[p] = "starting"
<1>1. IInv /\ [Next]_vars => [Excused]_vars
  <2> SUFFICES ASSUME IInv, Next, NEW l \in Launchers,
                      pc[l] \in Starting \ {"unpack", "find"}, pc'[l] = "failed",
                      met[l] = "nothing",
                      ~(At(l, "wait") /\ \E p \in spawned[l] : phase[p] = "starting")
               PROVE  FALSE
    OBVIOUS
  <2>1. PICK o \in Launchers : Unpack(o) \/ LauncherStep(o) \/ AppEnds(o) \/ KillLauncher(o)
    BY ServerFrame DEF Next, Starting
  <2>2. o = l
    BY <2>1, LauncherFrame DEF IInv, Starting
  <2>3. WaitEnds(l) \/ DialFails(l) \/ Lost(l)
    BY <2>1, <2>2 DEF IInv, TypeOK, At, Go, End, Unpack, LauncherStep, Proceeds, Unpacked,
         UnpackFails, Probe, ProbeFails, FindNone, Spawn, SpawnFails, Dial, Run, Refused,
         AppEnds, KillLauncher
  <2>4. Listening \subseteq Accepting
    BY DEF Listening, Accepting
  <2>5. ~WaitEnds(l)
    BY <2>4 DEF WaitEnds, IInv, WindowInv
  <2>6. ~DialFails(l)
    BY <2>4 DEF DialFails, IInv, WindowInv
  <2>7. ~Lost(l)
    BY DEF Lost, Waiting, IInv, WindowInv
  <2>8. QED
    BY <2>3, <2>5, <2>6, <2>7
<1>2. QED
  BY <1>1, Invariance, PTL DEF Spec, FailsOnlyForCause

-----------------------------------------------------------------------------
(* The server of this module is that of ServerLifecycle.                   *)

(* A session is one of the connections. *)
LEMMA SessionType ==
  ASSUME NEW c \in Connections
  PROVE  Session(c) \in Connections
BY DEF Connections, Session

(* Each step of a process that is not killed is a step of its life. *)
LEMMA StepsOfLife ==
  ASSUME TypeOK, NEW p \in Processes, ServerStep(p) \/ Decide(p),
         phase[p] \in {"listening", "deciding", "closed"}
  PROVE  [Life(p)!Next]_(Life(p)!vars)
<1> USE DEF TypeOK, LifePhase, Life!Next, Life!vars
<1>1. CASE \E c \in pending[p] : Accept(p, c)
  <2>1. PICK c \in pending[p] : Accept(p, c)
    BY <1>1
  <2>2. Session(c) \in Connections
    BY SessionType
  <2>3. /\ LifePhase(p) = "listening" /\ LifePhase(p)' = "listening"
        /\ live'[p] = live[p] \cup {Session(c)}
    BY <2>1 DEF Accept, Accepting
  <2>4. CASE Session(c) \in live[p]
    BY <2>3, <2>4
  <2>5. CASE Session(c) \notin live[p]
    BY <2>2, <2>3, <2>5 DEF Life!Join
  <2>6. QED
    BY <2>4, <2>5
<1>2. CASE \E c \in live[p] : Leave(p, c)
  BY <1>2 DEF Leave, Life!Leave
<1>3. CASE Close(p)
  BY <1>3 DEF Close, Life!StopListening
<1>4. CASE Exit(p)
  BY <1>4 DEF Exit, Life!Exit
<1>5. CASE Decide(p)
  BY <1>5 DEF Decide
<1>6. QED
  BY <1>1, <1>2, <1>3, <1>4, <1>5 DEF ServerStep, Serves, StartFails, Listen, ListenFails

(* Every process begins to listen as a server of ServerLifecycle begins,   *)
(* and takes only its steps until it is gone, unless it is killed.         *)
THEOREM ServersKeepTheirPromise == Spec => KeepsLifecycle
<1> DEFINE Keeps ==
      \A p \in Processes :
        /\ phase[p] = "starting" /\ phase'[p] = "listening" => Life(p)!Init'
        /\ phase[p] \in {"listening", "deciding", "closed"} /\ kills' = kills =>
             [Life(p)!Next]_(Life(p)!vars)
<1>1. ASSUME IInv, Next
      PROVE  Keeps
  <2> SUFFICES ASSUME NEW p \in Processes
               PROVE  /\ phase[p] = "starting" /\ phase'[p] = "listening" => Life(p)!Init'
                      /\ phase[p] \in {"listening", "deciding", "closed"} /\ kills' = kills =>
                           [Life(p)!Next]_(Life(p)!vars)
    OBVIOUS
  <2>1. TypeOK
    BY <1>1 DEF IInv
  <2>2. CASE \E l \in Launchers :
               Unpack(l) \/ LauncherStep(l) \/ AppEnds(l) \/ KillLauncher(l)
    <3>1. live' = live /\ (phase'[p] = phase[p] \/ phase[p] = "none")
      BY <2>1, <2>2, LauncherFrame
    <3>2. QED
      BY <3>1 DEF LifePhase, Life!vars
  <2>3. CASE \E q \in Processes : q # p /\ (ServerStep(q) \/ Decide(q) \/ KillServer(q))
    <3>1. phase'[p] = phase[p] /\ live'[p] = live[p]
      BY <2>1, <2>3 DEF TypeOK, ServerStep, Serves, StartFails, Listen, ListenFails,
         Accept, Leave, Close, Exit, Decide, KillServer
    <3>2. QED
      BY <3>1 DEF LifePhase, Life!vars
  <2>4. CASE ServerStep(p) \/ Decide(p)
    <3>1. ASSUME phase[p] = "starting", phase'[p] = "listening"
          PROVE  Life(p)!Init'
      <4>1. live'[p] = {}
        BY <2>1, <2>4, <3>1 DEF TypeOK, ServerStep, Serves, StartFails, Listen,
           ListenFails, Accept, Leave, Close, Exit, Decide, Accepting
      <4>2. QED
        BY <3>1, <4>1 DEF LifePhase, Life!Init
    <3>2. QED
      BY <2>1, <2>4, <3>1, StepsOfLife
  <2>5. CASE KillServer(p)
    <3>1. kills' # kills /\ phase'[p] # "listening"
      BY <2>1, <2>5, StartupAssumption DEF KillServer, TypeOK
    <3>2. QED
      BY <3>1
  <2>6. QED
    BY <1>1, <2>2, <2>3, <2>4, <2>5 DEF Next
<1>2. IInv /\ [Next]_vars => [Keeps]_vars
  BY <1>1
<1>3. QED
  BY <1>2, Invariance, PTL DEF Spec, KeepsLifecycle
=============================================================================
