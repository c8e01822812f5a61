--------------------------- MODULE MCSharedStore ---------------------------
(* One server, one manager; two applications that share a package.         *)
EXTENDS SharedStore, TLC

CONSTANTS s, m,   \* processes
          a, b,   \* applications
          p, q    \* packages: q is in both plans

MCServers == {s}
MCManagers == {m}
MCApps == {a, b}
MCPackages == {p, q}
MCDeps == a :> {p, q} @@ b :> {q}
=============================================================================
