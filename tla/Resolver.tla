------------------------------ MODULE Resolver ------------------------------
(***************************************************************************)
(* What a launch of an application chooses: an interpreter                 *)
(* (HandleLaunchRequest), the packages its pinned dependencies lead to     *)
(* (resolver.go), and the wheels of those that are missing                 *)
(* (PackageStore.EnsurePackage). LaunchSession has the dialogs, answers    *)
(* and records of the launch; StagedInstall has how a wheel gets onto the  *)
(* disk. Here is which ones, and in which order they are looked at: the    *)
(* pinned dependencies are a Go map, walked in any order.                  *)
(*                                                                         *)
(* Every request to PyPI may fail. Meanwhile other launches may install    *)
(* packages, for interpreters of their own.                                *)
(***************************************************************************)
EXTENDS Versions, Wheels, FiniteSets

CONSTANTS
  Names,       \* normalized package names
  Spellings,   \* names as a manifest may write them
  NormOf,      \* NormalizePackageName of each
  Worlds,      \* what PyPI has: release -> its Requires-Dist lines, package ->
               \* latest version, release -> offered wheels
  Manifests,   \* pinned dependencies, Python, allow_compatible
  Installed,   \* sets of runtimes there may be at first
  OtherPythons, \* Python versions that other launches install for
  MaxOthers    \* bound: packages installed by other launches

NoVersion == 0
Releases == Names \X (Nat \ {NoVersion})

(* A line of Requires-Dist: the package, what follows the "==" its          *)
(* constraint starts with, and what stands around them: nothing, an extra,  *)
(* a platform that is not Windows, or extras of the package in brackets.    *)
(* Versions are compared as strings: "1.*", "1.0,<2" and, for 1.0, "1.0.0"  *)
(* are versions no package has.                                             *)
Lines == [name : Names, strict : Nat, form : {"plain", "extra", "posix", "bracket"}]

ASSUME ResolverAssumption ==
  /\ IsFiniteSet(Names)
  /\ NormOf \in [Spellings -> Names]
  /\ \A w \in Worlds :
       /\ DOMAIN w.requires \subseteq Releases
       /\ \A r \in DOMAIN w.requires : w.requires[r] \in Seq(Lines)
       /\ w.latest \in [Names -> Nat \ {NoVersion}]
       /\ DOMAIN w.wheels = DOMAIN w.requires
       /\ \A r \in DOMAIN w.wheels : w.wheels[r] \subseteq WheelTags
  /\ \A m \in Manifests :
       /\ DOMAIN m.pins \subseteq Spellings /\ IsFiniteSet(DOMAIN m.pins)
       /\ \A s \in DOMAIN m.pins : m.pins[s] \in Nat \ {NoVersion}
       /\ m.python \in Texts /\ Valid(m.python)
       /\ m.allow \in BOOLEAN
  /\ \A S \in Installed : S \subseteq [major : Nat, minor : Nat, patch : Nat]
  /\ MaxOthers \in Nat

VARIABLES
  world, manifest, \* what this launch meets; they do not change
  runtimes,  \* versions of the installed runtimes
  runtime,   \* the version of the selected one, in a set; empty if to be installed
  phase,
  plan,      \* AllPackages: name -> version
  queue,     \* releases to visit
  visited,   \* names
  curr,      \* the release being visited
  lines,     \* its lines not read yet
  missing,   \* MissingPackages not installed yet
  uncounted, \* names of the plan the last loop has not come to
  pool,      \* release -> its wheel
  others,    \* packages installed by other launches
  first,     \* history: name -> the package whose line brought it into the plan
  skipped,   \* history: visited names whose metadata could not be had
  fresh      \* history: releases this launch has installed

walk == <<plan, queue, visited, curr, lines, first, skipped>>
install == <<missing, uncounted, pool, others, fresh>>
vars == <<world, manifest, runtimes, runtime, phase, walk, install>>

Done == {"ready", "declined", "badVersion", "noMetadata", "conflict", "noWheel"}
Phases == Done \cup {"find", "ask", "pin", "take", "fetch", "lines", "count", "install"}

Requested == Parse(manifest.python)
Pinned == {NormOf[s] : s \in DOMAIN manifest.pins}
Exists(r) == r \in DOMAIN world.requires
InPool(r) == r \in DOMAIN pool
(* Accepted by ParseRequiresDist: the name in front of a bracket does not  *)
(* match its expression, so that such a line is passed over, too.          *)
Accepted(line) == line.form = "plain"
Put(f, x, y) == [z \in DOMAIN f \cup {x} |-> IF z = x THEN y ELSE f[z]]

TypeOK ==
  /\ phase \in Phases
  /\ runtime \subseteq runtimes /\ Cardinality(runtime) <= 1
  /\ \A n \in DOMAIN plan : <<n, plan[n]>> \in Releases
  /\ \A i \in DOMAIN queue : queue[i] \in Releases
  /\ visited \subseteq DOMAIN plan
  /\ curr \in Releases \cup {<<>>}
  /\ \A i \in DOMAIN lines : lines[i] \in Lines
  /\ missing \subseteq {<<n, plan[n]>> : n \in DOMAIN plan}
  /\ uncounted \subseteq DOMAIN plan
  /\ \A r \in DOMAIN pool : pool[r] \in world.wheels[r]
  /\ others \in 0..MaxOthers
  /\ skipped \subseteq visited
  /\ fresh \subseteq DOMAIN pool

Init ==
  /\ world \in Worlds
  /\ manifest \in Manifests
  /\ runtimes \in Installed
  /\ runtime = {}
  /\ phase = "find"
  /\ plan = <<>>
  /\ queue = <<>>
  /\ visited = {}
  /\ curr = <<>>
  /\ lines = <<>>
  /\ missing = {}
  /\ uncounted = {}
  /\ pool = <<>>
  /\ others = 0
  /\ first = <<>>
  /\ skipped = {}
  /\ fresh = {}

Go(p) == phase' = p

-----------------------------------------------------------------------------
(* The interpreter. *)

BadVersion ==
  /\ phase = "find" /\ ~Parses(manifest.python)
  /\ Go("badVersion")
  /\ UNCHANGED <<world, manifest, runtimes, runtime, walk, install>>

(* The exact version; else, if the manifest allows it or the user is asked *)
(* and agrees, the best compatible one; else one to be installed.          *)
FindRuntime ==
  /\ phase = "find" /\ Parses(manifest.python)
  /\ LET exact == Find(runtimes, Requested, FALSE)
         compatible == Find(runtimes, Requested, TRUE)
     IN  \/ /\ exact # {}
            /\ \E v \in exact : runtime' = {v}
            /\ Go("pin")
         \/ /\ exact = {} /\ compatible # {}
            /\ \E v \in compatible : runtime' = {v}
            /\ Go(IF manifest.allow THEN "pin" ELSE "ask")
         \/ /\ compatible = {}
            /\ UNCHANGED runtime
            /\ Go("pin")
  /\ UNCHANGED <<world, manifest, runtimes, walk, install>>

AskPythonRuntime ==
  /\ phase = "ask"
  /\ \/ Go("pin") /\ UNCHANGED runtime
     \/ Go("pin") /\ runtime' = {}
     \/ Go("declined") /\ runtime' = {}
  /\ UNCHANGED <<world, manifest, runtimes, walk, install>>

-----------------------------------------------------------------------------
(* Resolve. *)

Orders(S) == {q \in [1..Cardinality(S) -> S] : \A s \in S : \E i \in DOMAIN q : q[i] = s}

(* Variant: the queue keeps the names as they are spelled. *)
Pin_NotNormalized ==
  /\ phase = "pin"
  /\ \E last \in [Pinned -> DOMAIN manifest.pins] :
       /\ \A n \in Pinned : NormOf[last[n]] = n
       /\ plan' = [n \in Pinned |-> manifest.pins[last[n]]]
  /\ \E order \in Orders(DOMAIN manifest.pins) :
       queue' = [i \in DOMAIN order |-> <<order[i], manifest.pins[order[i]]>>]
  /\ Go("take")
  /\ UNCHANGED <<world, manifest, runtimes, runtime, visited, curr, lines, first,
                 skipped, install>>

(* The map of pins is walked twice, in two orders: for a name it spells    *)
(* twice the plan keeps the version it came to last, the queue has both.   *)
Pin ==
  /\ phase = "pin"
  /\ \E last \in [Pinned -> DOMAIN manifest.pins] :
       /\ \A n \in Pinned : NormOf[last[n]] = n
       /\ plan' = [n \in Pinned |-> manifest.pins[last[n]]]
  /\ \E order \in Orders(DOMAIN manifest.pins) :
       queue' = [i \in DOMAIN order |-> <<NormOf[order[i]], manifest.pins[order[i]]>>]
  /\ Go("take")
  /\ UNCHANGED <<world, manifest, runtimes, runtime, visited, curr, lines, first,
                 skipped, install>>

Take ==
  /\ phase = "take" /\ queue # <<>>
  /\ queue' = Tail(queue)
  /\ IF Head(queue)[1] \in visited
     THEN UNCHANGED <<phase, visited, curr>>
     ELSE /\ visited' = visited \cup {Head(queue)[1]}
          /\ curr' = Head(queue)
          /\ Go("fetch")
  /\ UNCHANGED <<world, manifest, runtimes, runtime, plan, lines, first, skipped,
                 install>>

Fetch ==
  /\ phase = "fetch" /\ Exists(curr)
  /\ lines' = world.requires[curr]
  /\ Go("lines")
  /\ UNCHANGED <<world, manifest, runtimes, runtime, plan, queue, visited, curr,
                 first, skipped, install>>

(* Variant: a failed request is repeated. *)
FetchFails_Retries ==
  /\ phase = "fetch"
  /\ UNCHANGED vars

(* Offline, or not on PyPI: its requirements stay unknown if it is installed. *)
FetchFails ==
  /\ phase = "fetch"
  /\ IF InPool(curr)
     THEN Go("take") /\ skipped' = skipped \cup {curr[1]}
     ELSE Go("noMetadata") /\ UNCHANGED skipped
  /\ UNCHANGED <<world, manifest, runtimes, runtime, plan, queue, visited, curr,
                 lines, first, install>>

EndOfLines ==
  /\ phase = "lines" /\ lines = <<>>
  /\ Go("take")
  /\ UNCHANGED <<world, manifest, runtimes, runtime, walk, install>>

PassOver ==
  /\ phase = "lines" /\ lines # <<>> /\ ~Accepted(Head(lines))
  /\ lines' = Tail(lines)
  /\ UNCHANGED <<world, manifest, runtimes, runtime, phase, plan, queue, visited,
                 curr, first, skipped, install>>

Reading(line) == phase = "lines" /\ lines # <<>> /\ line = Head(lines) /\ Accepted(line)
Conflicts(line) == line.strict # NoVersion /\ line.strict # plan[line.name]

(* Variant: the version is not compared. *)
Known_NoConflict(line) ==
  /\ Reading(line) /\ line.name \in DOMAIN plan
  /\ lines' = Tail(lines)
  /\ UNCHANGED <<world, manifest, runtimes, runtime, phase, plan, queue, visited,
                 curr, first, skipped, install>>

(* Variant: any strict requirement of a planned package is a conflict. *)
Known_AllConflict(line) ==
  /\ Reading(line) /\ line.name \in DOMAIN plan
  /\ lines' = Tail(lines)
  /\ Go(IF line.strict # NoVersion THEN "conflict" ELSE "lines")
  /\ UNCHANGED <<world, manifest, runtimes, runtime, plan, queue, visited,
                 curr, first, skipped, install>>

(* In the plan: only a strict requirement is compared, as a string. *)
Known(line) ==
  /\ Reading(line) /\ line.name \in DOMAIN plan
  /\ lines' = Tail(lines)
  /\ Go(IF Conflicts(line) THEN "conflict" ELSE "lines")
  /\ UNCHANGED <<world, manifest, runtimes, runtime, plan, queue, visited,
                 curr, first, skipped, install>>

(* Variant: what is added to the plan is not visited. *)
Add_NotQueued(line) ==
  /\ Reading(line) /\ line.name \notin DOMAIN plan
  /\ lines' = Tail(lines)
  /\ plan' = Put(plan, line.name, world.latest[line.name])
  /\ first' = Put(first, line.name, curr[1])
  /\ UNCHANGED <<world, manifest, runtimes, runtime, phase, queue, visited, curr,
                 skipped, install>>

(* Not in the plan: its latest version is taken, whatever the constraint. *)
Add(line) ==
  /\ Reading(line) /\ line.name \notin DOMAIN plan
  /\ lines' = Tail(lines)
  /\ plan' = Put(plan, line.name, world.latest[line.name])
  /\ queue' = Append(queue, <<line.name, world.latest[line.name]>>)
  /\ first' = Put(first, line.name, curr[1])
  /\ UNCHANGED <<world, manifest, runtimes, runtime, phase, visited, curr, skipped,
                 install>>

AddFails(line) ==
  /\ Reading(line) /\ line.name \notin DOMAIN plan
  /\ Go("noMetadata")
  /\ UNCHANGED <<world, manifest, runtimes, runtime, walk, install>>

EndOfQueue ==
  /\ phase = "take" /\ queue = <<>>
  /\ uncounted' = DOMAIN plan
  /\ Go("count")
  /\ UNCHANGED <<world, manifest, runtimes, runtime, walk, missing, pool, others,
                 fresh>>

(* Variant: a package in any version will do. *)
Count_ByName(n) ==
  /\ phase = "count" /\ n \in uncounted
  /\ uncounted' = uncounted \ {n}
  /\ missing' = IF \E r \in DOMAIN pool : r[1] = n
                THEN missing ELSE missing \cup {<<n, plan[n]>>}
  /\ UNCHANGED <<world, manifest, runtimes, runtime, phase, walk, pool, others, fresh>>

Count(n) ==
  /\ phase = "count" /\ n \in uncounted
  /\ uncounted' = uncounted \ {n}
  /\ missing' = IF InPool(<<n, plan[n]>>) THEN missing ELSE missing \cup {<<n, plan[n]>>}
  /\ UNCHANGED <<world, manifest, runtimes, runtime, phase, walk, pool, others, fresh>>

(* The plan is returned; the runtime is installed first, if it has to be. *)
Counted ==
  /\ phase = "count" /\ uncounted = {}
  /\ runtime' = IF runtime = {} THEN {Requested} ELSE runtime
  /\ runtimes' = runtimes \cup runtime'
  /\ Go("install")
  /\ UNCHANGED <<world, manifest, walk, install>>

-----------------------------------------------------------------------------
(* EnsurePackage, for each missing package. The wheel is chosen for the    *)
(* Python of the manifest, not for the selected runtime.                   *)

Ensure(r) ==
  /\ phase = "install" /\ r \in missing
  /\ missing' = missing \ {r}
  /\ \/ InPool(r) /\ UNCHANGED <<pool, fresh>>
     \/ /\ ~InPool(r) /\ Exists(r)
        /\ \E w \in SelectBestWheel(world.wheels[r], Requested) :
             pool' = Put(pool, r, w)
        /\ fresh' = fresh \cup {r}
  /\ UNCHANGED <<world, manifest, runtimes, runtime, phase, walk, uncounted, others>>

(* PyPI does not answer, no wheel fits, or its download fails. *)
EnsureFails(r) ==
  /\ phase = "install" /\ r \in missing /\ ~InPool(r)
  /\ Go("noWheel")
  /\ UNCHANGED <<world, manifest, runtimes, runtime, walk, install>>

Ready ==
  /\ phase = "install" /\ missing = {}
  /\ Go("ready")
  /\ UNCHANGED <<world, manifest, runtimes, runtime, walk, install>>

(* Another launch, of an application for Python v, installs r. *)
OtherInstalls(r, v) ==
  /\ phase \notin Done /\ others < MaxOthers
  /\ Exists(r) /\ ~InPool(r)
  /\ \E w \in SelectBestWheel(world.wheels[r], v) : pool' = Put(pool, r, w)
  /\ others' = others + 1
  /\ UNCHANGED <<world, manifest, runtimes, runtime, phase, walk, missing, uncounted, fresh>>

Walk ==
  \/ Pin
  \/ Take
  \/ Fetch
  \/ FetchFails
  \/ EndOfLines
  \/ PassOver
  \/ lines # <<>> /\ (Known(Head(lines)) \/ Add(Head(lines)) \/ AddFails(Head(lines)))
  \/ EndOfQueue

Step ==
  \/ BadVersion
  \/ FindRuntime
  \/ AskPythonRuntime
  \/ Walk
  \/ \E n \in uncounted : Count(n)
  \/ Counted
  \/ \E r \in missing : Ensure(r) \/ EnsureFails(r)
  \/ Ready

Next ==
  \/ Step
  \/ \E r \in DOMAIN world.requires, v \in OtherPythons : OtherInstalls(r, v)

(* A request to PyPI ends within thirty seconds, a dialog with an answer. *)
Spec == Init /\ [][Next]_vars /\ WF_vars(Step)

-----------------------------------------------------------------------------
(* The reference: the pins, and the latest version of whatever they lead to. *)

VersionOf(n) == IF n \in Pinned THEN plan[n] ELSE world.latest[n]
LinesOf(n) ==
  LET r == <<n, VersionOf(n)>>
  IN  IF n \in skipped \/ ~Exists(r) THEN {}
      ELSE {line \in {world.requires[r][i] : i \in DOMAIN world.requires[r]} : Accepted(line)}
(* What the pins lead to in i steps; in as many as there are packages, all. *)
ReachIn[i \in 0..Cardinality(Names)] ==
  IF i = 0 THEN Pinned
  ELSE ReachIn[i - 1] \cup
         {line.name : line \in UNION {LinesOf(n) : n \in ReachIn[i - 1]}}
Reach == ReachIn[Cardinality(Names)]

SpelledTwice == Cardinality(Pinned) # Cardinality(DOMAIN manifest.pins)
Resolved == phase \in {"count", "install", "ready"}

(* In whatever order Go walks the map and its queue, a plan is the pinned  *)
(* packages and the latest versions of everything they lead to, but for    *)
(* what is behind an installed package whose metadata could not be had;    *)
(* provided no package is pinned in two spellings.                         *)
PlanIsReference ==
  Resolved /\ ~SpelledTwice => plan = [n \in Reach |-> VersionOf(n)]

(* A plan breaks a strict requirement only if it is the requirement that   *)
(* brought the package in: every later one has been compared.              *)
StrictUnlessFirst ==
  Resolved /\ ~SpelledTwice =>
    \A n \in visited : \A line \in LinesOf(n) :
      \/ line.strict \in {NoVersion, plan[line.name]}
      \/ line.name \in DOMAIN first /\ first[line.name] = n

(* Pins and latest versions that meet every strict requirement, string by  *)
(* string, are never reported as a conflict, in no order of the walk.      *)
NoFalseConflict ==
  phase = "conflict" /\ ~SpelledTwice =>
    \E n \in Reach : \E line \in LinesOf(n) :
      line.strict \notin {NoVersion, VersionOf(line.name)}

(* When the application starts, every package of its plan is in the pool,  *)
(* in that version, whatever others installed meanwhile.                   *)
PlanIsInstalled ==
  phase = "ready" => \A n \in DOMAIN plan : InPool(<<n, plan[n]>>)

(* What a launch installs the interpreter it selected can load, though it  *)
(* was chosen for the one the manifest names, of Python 3; but for what    *)
(* the check of a wheel does not look at (Wheels).                         *)
FreshWheelsLoad ==
  phase = "ready" =>
    \A r \in fresh, v \in runtime : v.major = 3 => LoadableAsRead(pool[r], v)

(* Every launch comes to a result: cycles of requirements, names spelled   *)
(* twice and failing requests do not keep it.                              *)
Terminates == <>(phase \in Done)

(* packages_test.go: "Python 3.13 native wheel should NOT be selected for  *)
(* Python 3.12". So what an application starts with, its interpreter loads. *)
StartsLoadable ==
  phase = "ready" =>
    \A n \in DOMAIN plan, v \in runtime :
      InPool(<<n, plan[n]>>) => LoadableAsRead(pool[<<n, plan[n]>>], v)
=============================================================================
