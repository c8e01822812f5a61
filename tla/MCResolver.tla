----------------------------- MODULE MCResolver -----------------------------
(* Three packages. The first worlds vary what requires what, with every    *)
(* wheel pure; the others have one chain of requirements, and vary the     *)
(* wheels and the interpreters.                                            *)
EXTENDS Resolver, TLC

CONSTANTS a, b, c, \* packages
          A        \* a, spelled otherwise

MCNames == {a, b, c}
MCSpellings == {a, A, b, c}
MCNormOf == a :> a @@ A :> a @@ b :> b @@ c :> c

Line(n) == [name |-> n, strict |-> NoVersion, form |-> "plain"]
Strict(n, v) == [name |-> n, strict |-> v, form |-> "plain"]
Other(n, form) == [name |-> n, strict |-> NoVersion, form |-> form]

(* a 1 and 2, b 1, c 1 and 2; b's may close a cycle. *)
Requires ==
  {<<a, 1>> :> r @@ <<a, 2>> :> <<Line(b)>> @@ <<b, 1>> :> s @@ <<c, 1>> :> <<>> @@ <<c, 2>> :> t :
     r \in {<<>>, <<Line(c)>>, <<Line(b), Strict(c, 1)>>, <<Strict(c, 2), Other(b, "bracket")>>},
     s \in {<<Line(c)>>, <<Strict(c, 1)>>, <<Other(c, "extra"), Strict(a, 1)>>},
     t \in {<<>>, <<Strict(a, 1), Line(b)>>, <<Other(b, "posix")>>}}

Wheel(py, abi, plat) == [py |-> py, abi |-> abi, plat |-> plat]
Py(impl, ver) == [impl |-> impl, ver |-> ver]
Abi(impl, ver, suffix) == [impl |-> impl, ver |-> ver, suffix |-> suffix]
Cp(ver, suffix, plat) == Wheel(<<Py("cp", ver)>>, {Abi("cp", ver, suffix)}, {plat})
Native(ver) == Cp(ver, "", "win_amd64")
Threaded(ver) == Cp(ver, "t", "win_amd64")
Linux(ver) == Cp(ver, "", "other")
Stable3(vers) == Wheel([i \in DOMAIN vers |-> Py("cp", vers[i])], {Abi3}, {"win_amd64"})
Pure == Wheel(<<Py("py", 3)>>, {None}, {"any"})
Both == Wheel(<<Py("py", 2), Py("py", 3)>>, {None}, {"any"})
Newer == Wheel(<<Py("py", 313)>>, {None}, {"any"})

World(requires, offers) ==
  [requires |-> requires, latest |-> a :> 2 @@ b :> 1 @@ c :> 2, wheels |-> offers]

Chain == <<a, 1>> :> <<Line(c)>> @@ <<c, 1>> :> <<>> @@ <<c, 2>> :> <<>>

Offers ==
  {{Pure}, {Native(312), Native(313)}, {Native(313), Pure, Linux(312)},
   {Native(312), Stable3(<<39>>)}, {Stable3(<<313>>), Both},
   {Native(313), Linux(312), Wheel(<<Py("py", 3)>>, {Abi3}, {"any"})},
   {Native(313), Linux(312)}, {Threaded(313), Threaded(312)}, {Newer},
   {Stable3(<<310, 313>>), Wheel(<<Py("pp", 310)>>, {Abi("pp", 73, "")}, {"win_amd64"}),
    Wheel(<<Py("cp", 31)>>, {None}, {"win_amd64"}),
    Wheel(<<Py("py", 2), Py("py", 3), Py("cp", 39)>>, {None}, {"win32", "win_amd64"})}}

MCWorlds ==
  {World(q, [r \in DOMAIN q |-> {Pure}]) : q \in Requires}
    \cup {World(Chain, [r \in DOMAIN Chain |-> o]) : o \in Offers}

Text(numbers) == [numbers |-> numbers, suffix |-> FALSE]
Manifest(pins, python, allow) == [pins |-> pins, python |-> python, allow |-> allow]

MCManifests ==
  {Manifest(p, Text(<<3, 12, 1>>), TRUE) :
     p \in {a :> 1, a :> 1 @@ b :> 1, a :> 1 @@ A :> 2, a :> 1 @@ c :> 3, b :> 1 @@ c :> 1}}
    \cup {Manifest(a :> 1, v, FALSE) :
            v \in {Text(<<3, 13>>), [numbers |-> <<3, 13, 0>>, suffix |-> TRUE]}}

Version(minor, patch) == [major |-> 3, minor |-> minor, patch |-> patch]
MCInstalled == {{}, {Version(12, 4), Version(12, 7), Version(13, 2)}}
MCOtherPythons == {Version(12, 1), Version(13, 0)}
=============================================================================
