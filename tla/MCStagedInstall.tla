-------------------------- MODULE MCStagedInstall --------------------------
(* Two requests, in a server or beside it, for two wheels or a runtime. *)
EXTENDS StagedInstall

CONSTANTS r1, r2,      \* requests
          server, cli, \* processes
          wheel, bare,  \* a wheel with a hash and one without
          python

MCRequests == {r1, r2}
MCProcesses == {server, cli}
MCServers == {server}
MCWheels == {wheel, bare}
MCUnhashed == {bare}
MCRuntimes == {python}
=============================================================================
