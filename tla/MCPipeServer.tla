---------------------------- MODULE MCPipeServer ----------------------------
(* The instance of TLC: two connections and two goroutines that run timer  *)
(* callbacks or Close.  Liveness is checked, so there is no symmetry.      *)
EXTENDS PipeServer

CONSTANTS c1, c2, h1, h2

MCClients == {c1, c2}
MCHelpers == {h1, h2}
=============================================================================
