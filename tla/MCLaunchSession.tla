-------------------------- MODULE MCLaunchSession --------------------------
(* Two applications that share packages: p requires q, and q requires t.   *)
EXTENDS LaunchSession, TLC

CONSTANTS a, b,    \* applications
          p, q, t  \* package versions

MCApps == {a, b}
MCPackages == {p, q, t}
MCDirect == a :> {p} @@ b :> {q}
MCRequires == p :> {q} @@ q :> {t} @@ t :> {}
MCPythonOf == a :> 7 @@ b :> 8
=============================================================================
