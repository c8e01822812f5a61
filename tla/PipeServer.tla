----------------------------- MODULE PipeServer -----------------------------
(***************************************************************************)
(* The on-demand IPC server of pkg/protocol/server.go, at the granularity  *)
(* at which its goroutines interleave: one step per atomic load or add,    *)
(* per critical section of idleMu and serverMu, per channel operation.     *)
(*                                                                         *)
(* Goroutines: acceptLoop; one handleClient per connection, with the       *)
(* AddOperation / DoneOperation pair of HandleLaunchRequest inside it; the *)
(* callbacks of the idle timer and the "go s.Close()" of a shutdown        *)
(* request, which run on the helpers; and main, blocked in WaitShutdown.   *)
(*                                                                         *)
(* Messages that change no server state (ping, undecodable lines, unknown  *)
(* types) are steps of nobody: the session stays in "reading".             *)
(***************************************************************************)
EXTENDS Naturals, FiniteSets

CONSTANTS Clients,  \* connections that can be open at the same time
          Helpers   \* timer callbacks and closers that can run at the same time

ASSUME ClientsFinite == IsFiniteSet(Clients)

VARIABLES
  listener,      \* the named pipe: "open" or "closed"
  activeClients, \* atomic counter of connections
  activeOps,     \* atomic counter of operations
  idleTimer,     \* "armed", or "off" (stopped, or its callback has started)
  cancelled,     \* s.ctx is done
  shutdownChan,  \* "open", "closed", or "panic" after a second close
  isClosed,      \* the guard of Close
  wg,            \* s.wg: acceptLoop and the handlers still running
  acceptor,      \* acceptLoop: "accepting" or "returned"
  sess,          \* where each connection's handling stands
  uncounted,     \* the handler's deferred function has decremented the count
  idleSeen,      \* checkIdle's loads so far were all zero
  helper,        \* where each callback or closer stands
  main           \* WaitShutdown: "select", "waiting" on wg, "exited"

vars == <<listener, activeClients, activeOps, idleTimer, cancelled,
          shutdownChan, isClosed, wg, acceptor, sess, uncounted, idleSeen,
          helper, main>>

shared == <<listener, activeClients, activeOps, idleTimer, cancelled,
            shutdownChan, isClosed, wg>>

-----------------------------------------------------------------------------
(* Program locations.                                                      *)

(* acceptLoop is busy with a connection it has accepted. *)
AdmitStates == {"accepted", "counted", "disarmed"}

(* handleClient, HandleLaunchRequest and checkIdle. *)
HandlerStates == {"reading", "stopForOp", "working", "leaving",
                  "loadClients", "loadOps", "decide", "wgDone"}

SessStates == {"none"} \cup AdmitStates \cup HandlerStates

(* Between AddOperation's add and DoneOperation's subtraction. *)
OpStates == {"stopForOp", "working"}

(* Inside Close, after its guard has been passed. *)
CloseStates == {"cancel", "stopTimer", "closeListener", "signal"}

HelperStates == {"idle", "loadClients", "loadOps", "idleClose", "askedClose"}
                  \cup CloseStates

Admitting == {c \in Clients : sess[c] \in AdmitStates}
Handling  == {c \in Clients : sess[c] \in HandlerStates}
Counted   == {c \in Clients : /\ sess[c] \notin {"none", "accepted"}
                              /\ ~uncounted[c]}
Operating == {c \in Clients : sess[c] \in OpStates}

TypeOK ==
  /\ listener \in {"open", "closed"}
  /\ activeClients \in Nat
  /\ activeOps \in Nat
  /\ idleTimer \in {"armed", "off"}
  /\ cancelled \in BOOLEAN
  /\ shutdownChan \in {"open", "closed", "panic"}
  /\ isClosed \in BOOLEAN
  /\ wg \in Nat
  /\ acceptor \in {"accepting", "returned"}
  /\ sess \in [Clients -> SessStates]
  /\ uncounted \in [Clients -> BOOLEAN]
  /\ idleSeen \in [Clients -> BOOLEAN]
  /\ helper \in [Helpers -> HelperStates]
  /\ main \in {"select", "waiting", "exited"}

(* NewServer, then Start: the pipe listens, the idle countdown runs and    *)
(* acceptLoop holds one count of the wait group.                           *)
Init ==
  /\ listener = "open"
  /\ activeClients = 0
  /\ activeOps = 0
  /\ idleTimer = "armed"
  /\ cancelled = FALSE
  /\ shutdownChan = "open"
  /\ isClosed = FALSE
  /\ wg = 1
  /\ acceptor = "accepting"
  /\ sess = [c \in Clients |-> "none"]
  /\ uncounted = [c \in Clients |-> FALSE]
  /\ idleSeen = [c \in Clients |-> FALSE]
  /\ helper = [h \in Helpers |-> "idle"]
  /\ main = "select"

Goto(c, s) == sess' = [sess EXCEPT ![c] = s]
HelperGoto(h, s) == helper' = [helper EXCEPT ![h] = s]

-----------------------------------------------------------------------------
(* acceptLoop.                                                             *)

(* A client dials (Dial, or the probe IsServerRunning) and Accept returns. *)
Accept(c) ==
  /\ acceptor = "accepting"
  /\ listener = "open"
  /\ Admitting = {}
  /\ sess[c] = "none"
  /\ Goto(c, "accepted")
  /\ UNCHANGED <<shared, acceptor, uncounted, idleSeen, helper, main>>

(* Variant: the increment is forgotten. *)
CountClient_NoIncrement(c) ==
  /\ sess[c] = "accepted"
  /\ Goto(c, "counted")
  /\ UNCHANGED <<shared, acceptor, uncounted, idleSeen, helper, main>>

CountClient(c) ==
  /\ sess[c] = "accepted"
  /\ activeClients' = activeClients + 1
  /\ Goto(c, "counted")
  /\ UNCHANGED <<listener, activeOps, idleTimer, cancelled, shutdownChan,
                 isClosed, wg, acceptor, uncounted, idleSeen, helper, main>>

StopTimerForClient(c) ==
  /\ sess[c] = "counted"
  /\ idleTimer' = "off"
  /\ Goto(c, "disarmed")
  /\ UNCHANGED <<listener, activeClients, activeOps, cancelled, shutdownChan,
                 isClosed, wg, acceptor, uncounted, idleSeen, helper, main>>

(* Variant: the handler is spawned without wg.Add(1). *)
SpawnHandler_NoAdd(c) ==
  /\ sess[c] = "disarmed"
  /\ Goto(c, "reading")
  /\ UNCHANGED <<shared, acceptor, uncounted, idleSeen, helper, main>>

(* wg.Add(1) happens in acceptLoop, before the handler's goroutine exists. *)
SpawnHandler(c) ==
  /\ sess[c] = "disarmed"
  /\ wg' = wg + 1
  /\ Goto(c, "reading")
  /\ UNCHANGED <<listener, activeClients, activeOps, idleTimer, cancelled,
                 shutdownChan, isClosed, acceptor, uncounted, idleSeen,
                 helper, main>>

(* Accept fails because the listener is closed. *)
AcceptFails ==
  /\ acceptor = "accepting"
  /\ listener = "closed"
  /\ Admitting = {}
  /\ acceptor' = "returned"
  /\ wg' = wg - 1
  /\ UNCHANGED <<listener, activeClients, activeOps, idleTimer, cancelled,
                 shutdownChan, isClosed, sess, uncounted, idleSeen, helper,
                 main>>

-----------------------------------------------------------------------------
(* handleClient and the operation bracket of HandleLaunchRequest.          *)

(* A launch request arrives; AddOperation counts it first ...              *)
AddOp(c) ==
  /\ sess[c] = "reading"
  /\ activeOps' = activeOps + 1
  /\ Goto(c, "stopForOp")
  /\ UNCHANGED <<listener, activeClients, idleTimer, cancelled, shutdownChan,
                 isClosed, wg, acceptor, uncounted, idleSeen, helper, main>>

(* ... and stops the idle timer second.                                    *)
StopTimerForOp(c) ==
  /\ sess[c] = "stopForOp"
  /\ idleTimer' = "off"
  /\ Goto(c, "working")
  /\ UNCHANGED <<listener, activeClients, activeOps, cancelled, shutdownChan,
                 isClosed, wg, acceptor, uncounted, idleSeen, helper, main>>

(* Variant: the operation is left counted, as on a path without the defer. *)
DoneOp_NoDecrement(c) ==
  /\ sess[c] = "working"
  /\ Goto(c, "loadClients")
  /\ UNCHANGED <<shared, acceptor, uncounted, idleSeen, helper, main>>

(* The handler returns; the deferred DoneOperation decrements, never below *)
(* zero, and goes on to checkIdle.                                         *)
DoneOp(c) ==
  /\ sess[c] = "working"
  /\ activeOps' = IF activeOps = 0 THEN 0 ELSE activeOps - 1
  /\ Goto(c, "loadClients")
  /\ UNCHANGED <<listener, activeClients, idleTimer, cancelled, shutdownChan,
                 isClosed, wg, acceptor, uncounted, idleSeen, helper, main>>

(* The read fails: the client has closed its end of the pipe. *)
HangUp(c) ==
  /\ sess[c] = "reading"
  /\ Goto(c, "leaving")
  /\ UNCHANGED <<shared, acceptor, uncounted, idleSeen, helper, main>>

(* A shutdown request: "go s.Close()" on a free helper, and return. *)
ShutdownRequest(c, h) ==
  /\ sess[c] = "reading"
  /\ helper[h] = "idle"
  /\ HelperGoto(h, "askedClose")
  /\ Goto(c, "leaving")
  /\ UNCHANGED <<shared, acceptor, uncounted, idleSeen, main>>

(* The deferred function of handleClient closes the connection, takes it   *)
(* off the count and goes on to checkIdle.                                 *)
Uncount(c) ==
  /\ sess[c] = "leaving"
  /\ activeClients' = activeClients - 1
  /\ uncounted' = [uncounted EXCEPT ![c] = TRUE]
  /\ Goto(c, "loadClients")
  /\ UNCHANGED <<listener, activeOps, idleTimer, cancelled, shutdownChan,
                 isClosed, wg, acceptor, idleSeen, helper, main>>

WgDone(c) ==
  /\ sess[c] = "wgDone"
  /\ wg' = wg - 1
  /\ uncounted' = [uncounted EXCEPT ![c] = FALSE]
  /\ Goto(c, "none")
  /\ UNCHANGED <<listener, activeClients, activeOps, idleTimer, cancelled,
                 shutdownChan, isClosed, acceptor, idleSeen, helper, main>>

-----------------------------------------------------------------------------
(* checkIdle: two loads and a decision, none of them under one lock.       *)

CheckIdleLoadClients(c) ==
  /\ sess[c] = "loadClients"
  /\ idleSeen' = [idleSeen EXCEPT ![c] = (activeClients = 0)]
  /\ Goto(c, "loadOps")
  /\ UNCHANGED <<shared, acceptor, uncounted, helper, main>>

CheckIdleLoadOps(c) ==
  /\ sess[c] = "loadOps"
  /\ idleSeen' = [idleSeen EXCEPT ![c] = idleSeen[c] /\ activeOps = 0]
  /\ Goto(c, "decide")
  /\ UNCHANGED <<shared, acceptor, uncounted, helper, main>>

(* resetIdleTimer if both loads were zero, stopIdleTimer otherwise; then   *)
(* back to reading after an operation, on to wg.Done after a session.      *)
CheckIdleDecide(c) ==
  /\ sess[c] = "decide"
  /\ idleTimer' = IF idleSeen[c] THEN "armed" ELSE "off"
  /\ idleSeen' = [idleSeen EXCEPT ![c] = FALSE]
  /\ Goto(c, IF uncounted[c] THEN "wgDone" ELSE "reading")
  /\ UNCHANGED <<listener, activeClients, activeOps, cancelled, shutdownChan,
                 isClosed, wg, acceptor, uncounted, helper, main>>

-----------------------------------------------------------------------------
(* The idle timer's callback, and Close.                                   *)

Fire(h) ==
  /\ idleTimer = "armed"
  /\ helper[h] = "idle"
  /\ idleTimer' = "off"
  /\ HelperGoto(h, "loadClients")
  /\ UNCHANGED <<listener, activeClients, activeOps, cancelled, shutdownChan,
                 isClosed, wg, acceptor, sess, uncounted, idleSeen, main>>

CallbackLoadClients(h) ==
  /\ helper[h] = "loadClients"
  /\ HelperGoto(h, IF activeClients = 0 THEN "loadOps" ELSE "idle")
  /\ UNCHANGED <<shared, acceptor, sess, uncounted, idleSeen, main>>

(* Variant: the test on the operations is the wrong way round. *)
CallbackLoadOps_Inverted(h) ==
  /\ helper[h] = "loadOps"
  /\ HelperGoto(h, IF activeOps > 0 THEN "idleClose" ELSE "idle")
  /\ UNCHANGED <<shared, acceptor, sess, uncounted, idleSeen, main>>

CallbackLoadOps(h) ==
  /\ helper[h] = "loadOps"
  /\ HelperGoto(h, IF activeOps = 0 THEN "idleClose" ELSE "idle")
  /\ UNCHANGED <<shared, acceptor, sess, uncounted, idleSeen, main>>

(* Variant: every caller of Close goes on. *)
EnterClose_Unguarded(h) ==
  /\ helper[h] \in {"idleClose", "askedClose"}
  /\ isClosed' = TRUE
  /\ HelperGoto(h, "cancel")
  /\ UNCHANGED <<listener, activeClients, activeOps, idleTimer, cancelled,
                 shutdownChan, wg, acceptor, sess, uncounted, idleSeen, main>>

(* Close under serverMu: only the first caller goes on. *)
EnterClose(h) ==
  /\ helper[h] \in {"idleClose", "askedClose"}
  /\ isClosed' = TRUE
  /\ HelperGoto(h, IF isClosed THEN "idle" ELSE "cancel")
  /\ UNCHANGED <<listener, activeClients, activeOps, idleTimer, cancelled,
                 shutdownChan, wg, acceptor, sess, uncounted, idleSeen, main>>

CancelContext(h) ==
  /\ helper[h] = "cancel"
  /\ cancelled' = TRUE
  /\ HelperGoto(h, "stopTimer")
  /\ UNCHANGED <<listener, activeClients, activeOps, idleTimer, shutdownChan,
                 isClosed, wg, acceptor, sess, uncounted, idleSeen, main>>

StopTimerInClose(h) ==
  /\ helper[h] = "stopTimer"
  /\ idleTimer' = "off"
  /\ HelperGoto(h, "closeListener")
  /\ UNCHANGED <<listener, activeClients, activeOps, cancelled, shutdownChan,
                 isClosed, wg, acceptor, sess, uncounted, idleSeen, main>>

(* Variant: the listener is left open. *)
CloseListener_LeftOpen(h) ==
  /\ helper[h] = "closeListener"
  /\ HelperGoto(h, "signal")
  /\ UNCHANGED <<shared, acceptor, sess, uncounted, idleSeen, main>>

CloseListener(h) ==
  /\ helper[h] = "closeListener"
  /\ listener' = "closed"
  /\ HelperGoto(h, "signal")
  /\ UNCHANGED <<activeClients, activeOps, idleTimer, cancelled, shutdownChan,
                 isClosed, wg, acceptor, sess, uncounted, idleSeen, main>>

(* close(s.shutdownChan); closing a closed channel panics. *)
SignalShutdown(h) ==
  /\ helper[h] = "signal"
  /\ shutdownChan' = IF shutdownChan = "open" THEN "closed" ELSE "panic"
  /\ HelperGoto(h, "idle")
  /\ UNCHANGED <<listener, activeClients, activeOps, idleTimer, cancelled,
                 isClosed, wg, acceptor, sess, uncounted, idleSeen, main>>

-----------------------------------------------------------------------------
(* WaitShutdown in main; the process ends when it returns.                 *)

LeaveSelect ==
  /\ main = "select"
  /\ shutdownChan = "closed" \/ cancelled
  /\ main' = "waiting"
  /\ UNCHANGED <<shared, acceptor, sess, uncounted, idleSeen, helper>>

(* Variant: WaitShutdown returns without waiting for the wait group. *)
ExitProcess_NoWait ==
  /\ main = "waiting"
  /\ main' = "exited"
  /\ UNCHANGED <<shared, acceptor, sess, uncounted, idleSeen, helper>>

ExitProcess ==
  /\ main = "waiting"
  /\ wg = 0
  /\ main' = "exited"
  /\ UNCHANGED <<shared, acceptor, sess, uncounted, idleSeen, helper>>

-----------------------------------------------------------------------------
(* The process ends all its goroutines when it ends. *)
Running == main # "exited"

(* acceptLoop bringing one connection to its handler. *)
Admit(c) ==
  /\ Running
  /\ CountClient(c) \/ StopTimerForClient(c) \/ SpawnHandler(c)

(* The steps a handler takes on its own, reads excepted. *)
HandlerStep(c) ==
  /\ Running
  /\ \/ StopTimerForOp(c)
     \/ DoneOp(c)
     \/ Uncount(c)
     \/ CheckIdleLoadClients(c)
     \/ CheckIdleLoadOps(c)
     \/ CheckIdleDecide(c)
     \/ WgDone(c)

(* The steps a callback or closer takes once it has been started. *)
HelperStep(h) ==
  /\ Running
  /\ \/ CallbackLoadClients(h)
     \/ CallbackLoadOps(h)
     \/ EnterClose(h)
     \/ CancelContext(h)
     \/ StopTimerInClose(h)
     \/ CloseListener(h)
     \/ SignalShutdown(h)

Main == LeaveSelect \/ ExitProcess

Terminated == main = "exited" /\ UNCHANGED vars

Next ==
  \/ \E c \in Clients :
       \/ Running /\ Accept(c)
       \/ Admit(c)
       \/ Running /\ AddOp(c)
       \/ Running /\ HangUp(c)
       \/ HandlerStep(c)
       \/ \E h \in Helpers : Running /\ ShutdownRequest(c, h)
  \/ \E h \in Helpers : Running /\ Fire(h)
  \/ \E h \in Helpers : HelperStep(h)
  \/ Running /\ AcceptFails
  \/ Main
  \/ Terminated

Spec == Init /\ [][Next]_vars

(* The Go scheduler runs every runnable goroutine, and the runtime fires   *)
(* an armed timer; a request's dialogs are answered and its downloads end, *)
(* so that "working" is left.                                              *)
ServerFairness ==
  /\ \A c \in Clients : WF_vars(Admit(c)) /\ WF_vars(HandlerStep(c))
  /\ \A h \in Helpers : WF_vars(HelperStep(h))
  /\ WF_vars(\E h \in Helpers : Running /\ Fire(h))
  /\ WF_vars(Running /\ AcceptFails)
  /\ WF_vars(Main)

(* A client's process ends and with it the pipe, however many requests it  *)
(* sent before: strong, because the handler is away from its read while it *)
(* works. Connecting and asking are up to the clients: no fairness.        *)
ClientFairness == \A c \in Clients : SF_vars(Running /\ HangUp(c))

FairSpec == Spec /\ ServerFairness /\ ClientFairness

-----------------------------------------------------------------------------
(* Safety.                                                                 *)

(* activeClients and activeOps are adjusted by goroutines that never hold  *)
(* a lock together, and DoneOperation clamps a negative count: still, in   *)
(* every interleaving, they are the number of connections handled and of   *)
(* launch requests in progress.                                            *)
CountersAgree ==
  /\ activeClients = Cardinality(Counted)
  /\ activeOps = Cardinality(Operating)

(* The wait group of WaitShutdown stands for acceptLoop and every handler, *)
(* so it cannot reach zero while acceptLoop may still add to it.           *)
WgAgrees ==
  wg = Cardinality(Handling) + (IF acceptor = "accepting" THEN 1 ELSE 0)

(* Close can be called by a timer callback, by shutdown requests of        *)
(* several clients, and again by a timer that a last session re-armed      *)
(* after the server was closed: shutdownChan is closed once only, a second *)
(* close would panic the process.                                          *)
SignalledOnce == shutdownChan # "panic"

(* WaitShutdown lets the process end only when the pipe is closed,         *)
(* acceptLoop has returned and no session is left: an application that     *)
(* connected just as the server closed is not cut off.                     *)
ExitDrained ==
  main = "exited" =>
    /\ listener = "closed"
    /\ acceptor = "returned"
    /\ \A c \in Clients : sess[c] = "none"

NobodyConnected == \A c \in Clients : sess[c] = "none"

-----------------------------------------------------------------------------
(* The inductive invariant behind the safety properties.                   *)

(* At most one goroutine is past the guard of Close, and nothing has been  *)
(* torn down before the guard is taken or signalled before it is through.  *)
CloseInv ==
  /\ \A g, h \in Helpers :
       helper[g] \in CloseStates /\ helper[h] \in CloseStates => g = h
  /\ ~isClosed => /\ \A h \in Helpers : helper[h] \notin CloseStates
                  /\ listener = "open"
                  /\ ~cancelled
                  /\ shutdownChan = "open"
  /\ \A h \in Helpers : helper[h] \in CloseStates => shutdownChan = "open"
  /\ shutdownChan # "panic"

(* acceptLoop admits one connection at a time and returns only from Accept *)
(* on a closed listener.                                                   *)
AdmitInv ==
  /\ \A c, d \in Clients :
       sess[c] \in AdmitStates /\ sess[d] \in AdmitStates => c = d
  /\ acceptor = "returned" => /\ listener = "closed"
                              /\ \A c \in Clients : sess[c] \notin AdmitStates

(* A handler that has taken its client off the count is in its last        *)
(* checkIdle or at wg.Done, and wg.Done comes after the count.             *)
SessInv ==
  \A c \in Clients :
    /\ uncounted[c] => sess[c] \in {"loadClients", "loadOps", "decide", "wgDone"}
    /\ sess[c] = "wgDone" => uncounted[c]

MainInv == main = "exited" => wg = 0

IInv ==
  /\ TypeOK
  /\ CloseInv
  /\ AdmitInv
  /\ SessInv
  /\ MainInv
  /\ CountersAgree
  /\ WgAgrees

-----------------------------------------------------------------------------
(* Liveness.                                                               *)

(* docs/ipc.md:115-116: with no client "an idle countdown timer starts",   *)
(* and "if no new client connects within the timeout, Hrunner exits". The  *)
(* countdown can be lost: a checkIdle that read a count of one can stop    *)
(* the timer that the checkIdle of the last client has just started.       *)
IdleExit == (<>[]NobodyConnected) => <>(main = "exited")

(* A server that began to close, for whatever reason and whoever is        *)
(* connected or connecting, does exit once its clients hang up.            *)
ClosedServerExits == isClosed ~> main = "exited"

(* docs/ipc.md section 3, item 5: when a countdown runs and nobody is      *)
(* connected, the server exits unless a client connects.                   *)
CountdownExits ==
  idleTimer = "armed" /\ NobodyConnected ~> main = "exited" \/ ~NobodyConnected

-----------------------------------------------------------------------------
(* What the server promises, whatever its goroutines do in between.        *)
Lifecycle == INSTANCE ServerLifecycle WITH
  phase <- (IF main = "exited" THEN "exited"
            ELSE IF listener = "open" THEN "listening" ELSE "closed"),
  live <- {c \in Clients : sess[c] # "none"}

(* Every behaviour of the server is one of ServerLifecycle: clients join   *)
(* only a listening server, sessions end by themselves, and the process    *)
(* ends after the pipe is closed and the last session is over, which with  *)
(* clients that hang up it does.                                           *)
ImplementsLifecycle == Lifecycle!FairSpec
=============================================================================
