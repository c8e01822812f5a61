------------------------------- MODULE Wheels -------------------------------
(* Which wheel of a release is installed (pkg/packages/wheel.go,           *)
(* SelectBestWheel). The three tags of a wheel are those of its file name: *)
(* each may join several with dots, so that a python tag is a sequence of  *)
(* them and the others are sets. What the code tells apart in a tag are    *)
(* its letters, the number that follows them (312 in "cp312", 3 in "py3"), *)
(* and what follows that ("cp313t" is for an interpreter without a GIL).   *)
EXTENDS Naturals, Sequences

PyTags == [impl : {"py", "cp", "pp"}, ver : Nat]
AbiTags == [impl : {"none", "abi3", "cp", "pp"}, ver : Nat, suffix : {"", "m", "t"}]
WheelTags == [py : Seq(PyTags), abi : (SUBSET AbiTags) \ {{}},
              plat : SUBSET {"win_amd64", "win32", "any", "other"}]

None == [impl |-> "none", ver |-> 0, suffix |-> ""]
PyOf(w) == {w.py[i] : i \in DOMAIN w.py}

(* The digits of a Python version, as "%d%d" writes them. *)
Digits(major, minor) == major * (IF minor < 10 THEN 10 ELSE 100) + minor
Expected(v) == Digits(v.major, v.minor)

(* strings.Contains(tag, impl + m) finds m at the beginning of a longer    *)
(* number, too, and does not see what follows it.                          *)
Begins(n, m) == \E d \in {1, 10, 100, 1000} : n \div d = m
Contains(tags, impl, m) == \E t \in tags : t.impl = impl /\ Begins(t.ver, m)

ForWindows(w) == "win_amd64" \in w.plat \/ w.plat = {"any"}
Exact(w, v) == Contains(PyOf(w), "cp", Expected(v)) /\ Contains(w.abi, "cp", Expected(v))
Stable(w) == \E a \in w.abi : a.impl = "abi3"
(* "py2.py3" within the tag. *)
Universal(w) ==
  \E i \in DOMAIN w.py :
    /\ w.py[i] = [impl |-> "py", ver |-> 2] /\ i + 1 \in DOMAIN w.py
    /\ Contains({w.py[i + 1]}, "py", 3)

(* Variant: the minor version is not compared. *)
IsCompatibleWindowsX64_AnyMinor(w, v) ==
  /\ ForWindows(w)
  /\ \/ Contains(PyOf(w), "py", 3) /\ (w.abi = {None} \/ w.plat = {"any"})
     \/ Contains(PyOf(w), "cp", 3)

IsCompatibleWindowsX64(w, v) ==
  /\ ForWindows(w)
  /\ \/ Contains(PyOf(w), "py", 3) /\ (w.abi = {None} \/ w.plat = {"any"})
     \/ Stable(w) /\ Contains(PyOf(w), "cp", 3)
     \/ Exact(w, v)
     \/ Contains(PyOf(w), "cp", Expected(v)) /\ (w.abi = {None} \/ Stable(w))

WheelScore(w, v) ==
  IF "win_amd64" \in w.plat /\ Exact(w, v) THEN 100
  ELSE IF "win_amd64" \in w.plat /\ Stable(w) THEN 80
  ELSE IF ForWindows(w) /\ w.abi = {None} /\ w.py = <<[impl |-> "py", ver |-> 3]>> THEN 50
  ELSE IF ForWindows(w) /\ w.abi = {None} /\ Universal(w) THEN 40
  ELSE 10

(* The sort is not stable: any wheel of the highest score may come first. *)
SelectBestWheel(offered, v) ==
  LET compatible == {w \in offered : IsCompatibleWindowsX64(w, v)}
  IN  {w \in compatible : \A u \in compatible : WheelScore(u, v) <= WheelScore(w, v)}

-----------------------------------------------------------------------------
(* What the usual build of CPython v for Windows x64 can import, by the    *)
(* meaning of the tags (PEP 425, PEP 384): the reference the choice is     *)
(* held against. One combination of a wheel's tags has to be its own.      *)

Since(v, first) == {Digits(v.major, k) : k \in first..v.minor}
Own(v) == [impl |-> "cp", ver |-> Expected(v), suffix |-> IF v.minor < 8 THEN "m" ELSE ""]
Abi3 == [impl |-> "abi3", ver |-> 0, suffix |-> ""]

Imports(v, p, a, plat) ==
  \/ /\ plat \in {"win_amd64", "any"} /\ a = None
     /\ \/ p.impl = "py" /\ p.ver \in {v.major} \cup Since(v, 0)
        \/ p.impl = "cp" /\ p.ver = Expected(v)
  \/ /\ plat = "win_amd64" /\ p.impl = "cp"
     /\ \/ p.ver = Expected(v) /\ a = Own(v)
        \/ p.ver \in Since(v, 2) /\ a = Abi3

Loadable(w, v) == \E p \in PyOf(w), a \in w.abi, plat \in w.plat : Imports(v, p, a, plat)

(* What the check of a wheel does not look at, for one combination of its  *)
(* tags: the ABI tag of a generic wheel for any platform; the minor version *)
(* of a generic one; the minimum an abi3 wheel states, and whether it is    *)
(* for any platform; what follows the version it found in a tag of its own. *)
Overlooked(w, v, p, a) ==
  \/ p.impl = "py" /\ w.plat = {"any"} /\ a # None
  \/ p.impl = "py" /\ a = None /\ Begins(p.ver, 3) /\ p.ver \notin {3} \cup Since(v, 0)
  \/ /\ p.impl = "cp" /\ a.impl = "abi3" /\ (Begins(p.ver, 3) \/ Begins(p.ver, Expected(v)))
     /\ p.ver \notin Since(v, 2) \/ a # Abi3 \/ w.plat = {"any"}
  \/ /\ p.impl = "cp" /\ Begins(p.ver, Expected(v))
     /\ \/ a = None /\ p.ver # Expected(v)
        \/ /\ a.impl = "cp" /\ Begins(a.ver, Expected(v))
           /\ p.ver # Expected(v) \/ a # Own(v) \/ w.plat = {"any"}
LoadableAsRead(w, v) == Loadable(w, v) \/ \E p \in PyOf(w), a \in w.abi : Overlooked(w, v, p, a)
=============================================================================
