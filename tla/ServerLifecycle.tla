-------------------------- MODULE ServerLifecycle --------------------------
(***************************************************************************)
(* What the pipe server of pkg/protocol/server.go promises the process     *)
(* that runs it: it listens, clients join and leave, at some point it      *)
(* stops listening, and the process ends once it has stopped listening and *)
(* every client that joined has been served to the end of its session.     *)
(* Nothing here says why the server stops; that is in PipeServer.          *)
(***************************************************************************)

CONSTANT Clients   \* the connections that can be open at the same time

VARIABLES phase,   \* "listening", "closed" or "exited"
          live     \* the clients whose session has begun and not ended

vars == <<phase, live>>

Init ==
  /\ phase = "listening"
  /\ live = {}

(* A client is accepted; only a listening server accepts. *)
Join(c) ==
  /\ phase = "listening"
  /\ c \notin live
  /\ live' = live \cup {c}
  /\ UNCHANGED phase

(* A session ends by itself, whether the server still listens or not. *)
Leave(c) ==
  /\ phase # "exited"
  /\ c \in live
  /\ live' = live \ {c}
  /\ UNCHANGED phase

StopListening ==
  /\ phase = "listening"
  /\ phase' = "closed"
  /\ UNCHANGED live

(* The process ends, cutting nobody off. *)
Exit ==
  /\ phase = "closed"
  /\ live = {}
  /\ phase' = "exited"
  /\ UNCHANGED live

Next ==
  \/ \E c \in Clients : Join(c) \/ Leave(c)
  \/ StopListening
  \/ Exit

Spec == Init /\ [][Next]_vars

(* Every session ends and a closed, empty server exits. *)
FairSpec ==
  /\ Spec
  /\ WF_vars(Exit)
  /\ \A c \in Clients : WF_vars(Leave(c))

=============================================================================
