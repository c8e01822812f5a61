-------------------------- MODULE MCLauncherStartup --------------------------
(* Two launchers of one application, two processes. *)
EXTENDS LauncherStartup, TLC

CONSTANTS l1, l2, \* launchers
          p1, p2, \* processes
          a       \* the application

MCLaunchers == {l1, l2}
MCProcesses == {p1, p2}
MCApps == {a}
MCAppOf == l1 :> a @@ l2 :> a
=============================================================================
