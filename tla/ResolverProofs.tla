--------------------------- MODULE ResolverProofs ---------------------------
(***************************************************************************)
(* Proofs about Resolver: in whatever order the pins and the queue are     *)
(* walked, a plan contains the pins and whatever its packages require, a   *)
(* strict requirement is broken only by the line that brings its package   *)
(* in, and what a launch installs for its plan is there and loads.         *)
(***************************************************************************)
EXTENDS Resolver, ChoiceProofs

Versioned == Nat \ {NoVersion}
Walking == {"take", "fetch", "lines"}
Counting == {"count", "install", "ready"}

(* What TypeOK leaves open. *)
ShapeInv ==
  /\ world \in Worlds /\ manifest \in Manifests
  /\ runtimes \subseteq VersionSet
  /\ plan \in [DOMAIN plan -> Versioned]
  /\ DOMAIN plan \subseteq Names
  /\ queue \in Seq(Releases)
  /\ lines \in Seq(Lines)
  /\ DOMAIN pool \subseteq DOMAIN world.requires

(* The selected runtime is of the minor version the manifest names. *)
RuntimeInv ==
  \A v \in runtime : v.major = Requested.major /\ v.minor = Requested.minor

(* What is empty when. *)
PhaseInv ==
  /\ phase \in {"find", "ask", "pin"} => plan = <<>> /\ queue = <<>>
  /\ phase \in {"find", "ask", "pin"} \cup Walking =>
       missing = {} /\ uncounted = {} /\ fresh = {}
  /\ phase \in {"fetch", "lines"} => curr \in Releases /\ curr[1] \in visited \ skipped
  /\ phase \in {"install", "ready"} => uncounted = {}
  /\ phase = "ready" => missing = {}

(* The plan has the pins, and of every other package the latest version.   *)
PlanInv ==
  phase \in Walking \cup Counting \cup {"conflict"} =>
    Pinned \subseteq DOMAIN plan /\ \A n \in DOMAIN plan : plan[n] = VersionOf(n)

(* What is planned has been visited or is in the queue, in its version if  *)
(* no name is pinned in two spellings.                                     *)
QueueInv ==
  /\ phase \in Walking =>
       /\ \A i \in 1..Len(queue) :
            /\ queue[i][1] \in DOMAIN plan
            /\ ~SpelledTwice => queue[i][2] = plan[queue[i][1]]
       /\ \A n \in DOMAIN plan \ visited : \E i \in 1..Len(queue) : queue[i][1] = n
  /\ phase \in {"fetch", "lines"} /\ ~SpelledTwice => curr[2] = plan[curr[1]]
  /\ phase \in Counting => DOMAIN plan \subseteq visited

(* A line of package n has been read, and met. *)
Met(n, line) ==
  /\ line.name \in DOMAIN plan
  /\ \/ line.strict \in {NoVersion, plan[line.name]}
     \/ line.name \in DOMAIN first /\ first[line.name] = n

(* It is still to be read. *)
Ahead(n, line) ==
  /\ n = curr[1]
  /\ \/ phase = "fetch"
     \/ phase = "lines" /\ \E i \in 1..Len(lines) : lines[i] = line

(* Every line of a visited package has been met, or is still to be read.   *)
LinesInv ==
  phase \in Walking \cup Counting /\ ~SpelledTwice =>
    \A n \in visited : \A line \in LinesOf(n) : Met(n, line) \/ Ahead(n, line)

(* What is still to be read are lines of the release that is visited.      *)
AheadInv ==
  phase = "lines" =>
    /\ Exists(curr)
    /\ \A i \in 1..Len(lines) :
         \E j \in DOMAIN world.requires[curr] : world.requires[curr][j] = lines[i]

(* The lines of package n could be had. *)
Fetched(n) == n \in visited \ skipped /\ ~(phase = "fetch" /\ n = curr[1])

(* C has the pins, and what the lines had so far of its packages name.     *)
ClosedSoFar(C) ==
  /\ Pinned \subseteq C
  /\ \A n \in C : Fetched(n) => \A line \in LinesOf(n) : line.name \in C

(* What is planned is in every such set: nothing else has been added.      *)
ReachedInv ==
  phase \in Walking \cup Counting \cup {"conflict"} /\ ~SpelledTwice =>
    \A C \in SUBSET Names : ClosedSoFar(C) => DOMAIN plan \subseteq C

(* A conflict is between a line of a planned package and the reference.    *)
ConflictInv ==
  phase = "conflict" /\ ~SpelledTwice =>
    \E n \in DOMAIN plan : \E line \in LinesOf(n) :
      line.strict \notin {NoVersion, VersionOf(line.name)}

(* A package of the plan is not counted yet, missing, or in the pool. *)
InstallInv ==
  phase \in Counting =>
    \A n \in DOMAIN plan :
      n \in uncounted \/ <<n, plan[n]>> \in missing \/ InPool(<<n, plan[n]>>)

(* What the launch installed passed the check of its wheel. *)
WheelInv ==
  \A r \in fresh : /\ r \in DOMAIN pool
                   /\ IsCompatibleWindowsX64(pool[r], Requested)

IInv ==
  /\ TypeOK
  /\ ShapeInv
  /\ RuntimeInv
  /\ PhaseInv
  /\ PlanInv
  /\ QueueInv
  /\ LinesInv
  /\ AheadInv
  /\ ReachedInv
  /\ ConflictInv
  /\ InstallInv
  /\ WheelInv

(* A finished walk has left nothing out: every line that counts of every   *)
(* package of the plan names a package of the plan, which has its pinned   *)
(* or its latest version.                                                  *)
PlanIsClosed ==
  Resolved /\ ~SpelledTwice =>
    /\ Pinned \subseteq DOMAIN plan
    /\ \A n \in DOMAIN plan :
         /\ plan[n] = VersionOf(n)
         /\ \A line \in LinesOf(n) : line.name \in DOMAIN plan

-----------------------------------------------------------------------------
(* What PyPI and the manifest are does not change.                         *)

(* The types of what a launch meets. *)
LEMMA WorldTypes ==
  ASSUME ShapeInv
  PROVE  /\ Requested \in VersionSet
         /\ DOMAIN world.requires \subseteq Releases
         /\ \A r \in DOMAIN world.requires : world.requires[r] \in Seq(Lines)
         /\ world.latest \in [Names -> Versioned]
         /\ DOMAIN world.wheels = DOMAIN world.requires
         /\ \A r \in DOMAIN world.wheels : world.wheels[r] \subseteq WheelTags
         /\ IsFiniteSet(DOMAIN manifest.pins)
         /\ \A s \in DOMAIN manifest.pins : NormOf[s] \in Names /\ manifest.pins[s] \in Versioned
         /\ Pinned \subseteq Names
<1>1. world \in Worlds /\ manifest \in Manifests
  BY DEF ShapeInv
<1>2. manifest.python \in Texts /\ Valid(manifest.python)
  BY <1>1, ResolverAssumption
<1>3. Requested \in VersionSet
  BY <1>2, ParseType DEF Requested
<1>4. /\ DOMAIN world.requires \subseteq Releases
      /\ \A r \in DOMAIN world.requires : world.requires[r] \in Seq(Lines)
      /\ world.latest \in [Names -> Versioned]
      /\ DOMAIN world.wheels = DOMAIN world.requires
      /\ \A r \in DOMAIN world.wheels : world.wheels[r] \subseteq WheelTags
  BY <1>1, ResolverAssumption DEF Versioned
<1>5. /\ IsFiniteSet(DOMAIN manifest.pins)
      /\ \A s \in DOMAIN manifest.pins : NormOf[s] \in Names /\ manifest.pins[s] \in Versioned
  BY <1>1, ResolverAssumption DEF Versioned
<1>6. QED
  BY <1>3, <1>4, <1>5 DEF Pinned

(* No step changes them, or what is derived from them. *)
LEMMA StepConstants ==
  ASSUME [Next]_vars
  PROVE  /\ world' = world /\ manifest' = manifest
         /\ Pinned' = Pinned /\ Requested' = Requested
         /\ SpelledTwice' <=> SpelledTwice
<1>1. world' = world /\ manifest' = manifest
  BY DEF vars, Next, Step, Walk, BadVersion, FindRuntime, AskPythonRuntime, Pin, Take, Fetch,
     FetchFails, EndOfLines, PassOver, Known, Add, AddFails, EndOfQueue, Count, Counted,
     Ensure, EnsureFails, Ready, OtherInstalls
<1>2. QED
  BY <1>1 DEF Pinned, Requested, SpelledTwice

-----------------------------------------------------------------------------
(* The phases of a launch.                                                 *)

Finding == BadVersion \/ FindRuntime \/ AskPythonRuntime
Reads(line) == Known(line) \/ Add(line) \/ AddFails(line)
Installing ==
  \/ \E n \in uncounted : Count(n)
  \/ Counted
  \/ \E r \in missing : Ensure(r) \/ EnsureFails(r)
  \/ Ready
Others == \E r \in DOMAIN world.requires, v \in OtherPythons : OtherInstalls(r, v)

(* Finding a runtime and installing do not touch the walk, and finding and *)
(* walking do not touch what is missing and what is in the pool.           *)
LEMMA StepFrame ==
  ASSUME Next
  PROVE  \/ Finding /\ UNCHANGED <<walk, install>>
         \/ Walk /\ ~EndOfQueue /\ UNCHANGED <<runtimes, runtime, install>>
         \/ EndOfQueue
         \/ Installing /\ UNCHANGED walk
         \/ Others /\ UNCHANGED <<runtimes, runtime, phase, walk>>
<1>1. CASE Finding
  BY <1>1 DEF Finding, BadVersion, FindRuntime, AskPythonRuntime
<1>2. CASE Walk
  BY <1>2 DEF Walk, Pin, Take, Fetch, FetchFails, EndOfLines, PassOver, Known, Add, AddFails,
     install
<1>3. CASE Installing
  BY <1>3 DEF Installing, Count, Counted, Ensure, EnsureFails, Ready
<1>4. CASE Others
  BY <1>4 DEF Others, OtherInstalls
<1>5. QED
  BY <1>1, <1>2, <1>3, <1>4 DEF Next, Step, Finding, Installing, Others

-----------------------------------------------------------------------------
(* Types and phases.                                                       *)

(* A runtime that is found is an installed one of the minor version asked  *)
(* for; there is one at most.                                              *)
LEMMA FindingTypes ==
  ASSUME TypeOK, ShapeInv, RuntimeInv, PhaseInv, Finding, UNCHANGED <<walk, install>>
  PROVE  TypeOK' /\ ShapeInv' /\ RuntimeInv' /\ PhaseInv'
<1>1. /\ runtimes' = runtimes /\ world' = world /\ manifest' = manifest
      /\ Requested' = Requested
      /\ phase' \in {"badVersion", "pin", "ask", "declined"}
      /\ phase \in {"find", "ask"}
  BY DEF Finding, BadVersion, FindRuntime, AskPythonRuntime, Go, Requested
<1>2. \/ runtime' = runtime \/ runtime' = {}
      \/ \E v \in runtimes :
           runtime' = {v} /\ v.major = Requested.major /\ v.minor = Requested.minor
  <2>1. CASE FindRuntime
    <3>1. Requested \in VersionSet /\ runtimes \in SUBSET VersionSet
      BY WorldTypes DEF ShapeInv
    <3>2. \A allow \in BOOLEAN : \A v \in Find(runtimes, Requested, allow) :
            v \in runtimes /\ v.major = Requested.major /\ v.minor = Requested.minor
      BY <3>1, FindFits DEF IsCompatible
    <3>3. QED
      BY <2>1, <3>2 DEF FindRuntime
  <2>2. CASE BadVersion \/ AskPythonRuntime
    BY <2>2 DEF BadVersion, AskPythonRuntime
  <2>3. QED
    BY <2>1, <2>2 DEF Finding
<1>3. runtime' \subseteq runtimes' /\ Cardinality(runtime') <= 1 /\ RuntimeInv'
  <2>1. runtime \subseteq runtimes /\ Cardinality(runtime) <= 1
    BY DEF TypeOK
  <2>2. CASE \E v : runtime' = {v}
    <3>1. PICK v : runtime' = {v}
      BY <2>2
    <3>2. Cardinality(runtime') = 1
      BY <3>1, FS_Singleton
    <3>3. QED
      BY <1>1, <1>2, <2>1, <2>2, <3>2 DEF RuntimeInv
  <2>3. CASE runtime' = {}
    <3>1. Cardinality(runtime') = 0
      BY <2>3, FS_EmptySet
    <3>2. QED
      BY <2>3, <3>1 DEF RuntimeInv
  <2>4. CASE runtime' = runtime
    BY <1>1, <2>1, <2>4 DEF RuntimeInv
  <2>5. QED
    BY <1>2, <2>2, <2>3, <2>4
<1>4. TypeOK'
  BY <1>1, <1>3 DEF TypeOK, Phases, Done, walk, install
<1>5. ShapeInv'
  BY <1>1 DEF ShapeInv, walk, install
<1>6. PhaseInv'
  BY <1>1 DEF PhaseInv, Walking, walk, install
<1>7. QED
  BY <1>3, <1>4, <1>5, <1>6

(* The pins become a plan and a queue of releases. *)
LEMMA PinTypes ==
  ASSUME ShapeInv, Pin
  PROVE  /\ plan' \in [Pinned -> Versioned] /\ DOMAIN plan' = Pinned /\ Pinned \subseteq Names
         /\ queue' \in Seq(Releases)
<1>1. Pinned \subseteq Names
  BY WorldTypes
<1>2. PICK last \in [Pinned -> DOMAIN manifest.pins] :
        plan' = [n \in Pinned |-> manifest.pins[last[n]]]
  BY DEF Pin
<1>3. PICK order \in Orders(DOMAIN manifest.pins) :
        queue' = [i \in DOMAIN order |-> <<NormOf[order[i]], manifest.pins[order[i]]>>]
  BY DEF Pin
<1>4. Cardinality(DOMAIN manifest.pins) \in Nat
  BY WorldTypes, FS_CardinalityType
<1>5. order \in [1..Cardinality(DOMAIN manifest.pins) -> DOMAIN manifest.pins]
  BY <1>3 DEF Orders
<1>6. \A s \in DOMAIN manifest.pins : <<NormOf[s], manifest.pins[s]>> \in Releases
  BY WorldTypes DEF Releases, Versioned
<1>7. queue' \in [1..Cardinality(DOMAIN manifest.pins) -> Releases]
  BY <1>3, <1>5, <1>6
<1>8. queue' \in Seq(Releases)
  BY <1>4, <1>7
<1>9. plan' \in [Pinned -> Versioned] /\ DOMAIN plan' = Pinned
  BY <1>2, WorldTypes
<1>10. QED
  BY <1>1, <1>8, <1>9

(* A package that a line adds comes in its latest version. *)
LEMMA AddTypes ==
  ASSUME ShapeInv, lines # <<>>, Add(Head(lines))
  PROVE  /\ DOMAIN plan' = DOMAIN plan \cup {Head(lines).name}
         /\ \A n \in DOMAIN plan : plan'[n] = plan[n]
         /\ plan'[Head(lines).name] = world.latest[Head(lines).name]
         /\ Head(lines).name \in Names \ DOMAIN plan
         /\ plan' \in [DOMAIN plan' -> Versioned]
         /\ queue' = Append(queue, <<Head(lines).name, plan'[Head(lines).name]>>)
         /\ queue' \in Seq(Releases)
<1>1. Head(lines) \in Lines
  BY DEF ShapeInv
<1>2. Head(lines).name \in Names /\ world.latest[Head(lines).name] \in Versioned
  BY <1>1, WorldTypes DEF Lines
<1>3. <<Head(lines).name, world.latest[Head(lines).name]>> \in Releases
  BY <1>2 DEF Releases, Versioned
<1>4. QED
  BY <1>2, <1>3 DEF Add, Put, ShapeInv

(* The plan and the queue hold releases, the lines are those of PyPI.      *)
LEMMA WalkShape ==
  ASSUME ShapeInv, Walk, ~EndOfQueue, UNCHANGED <<runtimes, runtime, install>>
  PROVE  ShapeInv'
<1> USE DEF ShapeInv, install
<1>1. CASE Pin
  BY <1>1, PinTypes DEF Pin
<1>2. CASE Take
  BY <1>2 DEF Take
<1>3. CASE Fetch
  BY <1>3, WorldTypes DEF Fetch, Exists
<1>4. CASE FetchFails \/ EndOfLines \/ AddFails(Head(lines))
  BY <1>4 DEF FetchFails, EndOfLines, AddFails, walk
<1>5. CASE lines # <<>> /\ (PassOver \/ Known(Head(lines)))
  BY <1>5 DEF PassOver, Known
<1>6. CASE lines # <<>> /\ Add(Head(lines))
  <2>1. lines' = Tail(lines) /\ world' = world /\ manifest' = manifest
    BY <1>6 DEF Add
  <2>2. DOMAIN plan' \subseteq Names
    BY <1>6, AddTypes
  <2>3. QED
    BY <1>6, <2>1, <2>2, AddTypes
<1>7. QED
  BY <1>1, <1>2, <1>3, <1>4, <1>5, <1>6 DEF Walk, PassOver

(* While the plan grows nothing is missing or installed yet. *)
LEMMA WalkTypes ==
  ASSUME TypeOK, ShapeInv, RuntimeInv, PhaseInv, QueueInv, Walk, ~EndOfQueue,
         UNCHANGED <<runtimes, runtime, install>>
  PROVE  TypeOK' /\ RuntimeInv' /\ PhaseInv'
<1>1. missing = {} /\ uncounted = {} /\ fresh = {} /\ phase \in {"pin"} \cup Walking
  <2>1. phase \in {"pin"} \cup Walking
    BY DEF Walking, Walk, EndOfQueue, Pin, Take, Fetch, FetchFails, EndOfLines, PassOver,
       Known, Add, AddFails, Reading
  <2>2. QED
    BY <2>1 DEF PhaseInv
<1>2. ShapeInv' /\ world' = world /\ manifest' = manifest
  <2>1. world' = world /\ manifest' = manifest
    BY DEF Walk, EndOfQueue, Pin, Take, Fetch, FetchFails, EndOfLines, PassOver,
       Known, Add, AddFails
  <2>2. QED
    BY <2>1, WalkShape
<1>3. phase' \in Walking \cup {"conflict", "noMetadata"}
  BY <1>1 DEF Walking, Walk, EndOfQueue, Pin, Take, Fetch, FetchFails, EndOfLines, PassOver,
     Known, Add, AddFails, Go, Reading
<1>4. visited' \subseteq DOMAIN plan' /\ skipped' \subseteq visited'
  <2>1. CASE Pin
    BY <2>1 DEF Pin, PhaseInv, TypeOK
  <2>2. CASE Take
    <3>1. Head(queue)[1] \in DOMAIN plan
      BY <2>2 DEF Take, QueueInv, Walking, ShapeInv
    <3>2. QED
      BY <2>2, <3>1 DEF Take, TypeOK
  <2>3. CASE Fetch \/ FetchFails \/ EndOfLines \/ PassOver
    BY <2>3 DEF Fetch, FetchFails, EndOfLines, PassOver, PhaseInv, TypeOK, walk
  <2>4. CASE lines # <<>> /\ (Known(Head(lines)) \/ AddFails(Head(lines)))
    BY <2>4 DEF Known, AddFails, TypeOK, walk
  <2>5. CASE lines # <<>> /\ Add(Head(lines))
    BY <2>5, AddTypes DEF Add, TypeOK
  <2>6. QED
    BY <2>1, <2>2, <2>3, <2>4, <2>5 DEF Walk
<1>5. curr' \in Releases \cup {<<>>}
  BY DEF TypeOK, ShapeInv, Walk, EndOfQueue, Pin, Take, Fetch, FetchFails, EndOfLines,
     PassOver, Known, Add, AddFails, walk
<1>6. TypeOK'
  <2>1. phase' \in Phases
    BY <1>3 DEF Walking, Phases, Done
  <2>2. (\A n \in DOMAIN plan' : <<n, plan'[n]>> \in Releases)
        /\ (\A i \in DOMAIN queue' : queue'[i] \in Releases)
        /\ (\A i \in DOMAIN lines' : lines'[i] \in Lines)
    BY <1>2 DEF ShapeInv, Releases, Versioned
  <2>3. QED
    BY <1>1, <1>2, <1>4, <1>5, <2>1, <2>2 DEF TypeOK, install
<1>7. PhaseInv'
  <2>1. phase' \in {"fetch", "lines"} =>
          curr' \in Releases /\ curr'[1] \in visited' \ skipped'
    BY <1>1 DEF PhaseInv, TypeOK, ShapeInv, Walking, Walk, EndOfQueue, Pin, Take, Fetch, FetchFails,
       EndOfLines, PassOver, Known, Add, AddFails, Go, Reading, walk
  <2>2. QED
    BY <1>1, <1>3, <2>1 DEF PhaseInv, Walking, install
<1>8. QED
  BY <1>2, <1>6, <1>7 DEF RuntimeInv, Requested

(* A walk that is finished leaves the whole plan to be counted. *)
LEMMA EndOfQueueTypes ==
  ASSUME TypeOK, ShapeInv, RuntimeInv, PhaseInv, EndOfQueue
  PROVE  TypeOK' /\ ShapeInv' /\ RuntimeInv' /\ PhaseInv'
<1>1. missing = {} /\ fresh = {}
  BY DEF EndOfQueue, PhaseInv, Walking
<1>2. TypeOK'
  BY <1>1 DEF EndOfQueue, TypeOK, Phases, Go, walk
<1>3. ShapeInv' /\ RuntimeInv'
  BY DEF EndOfQueue, ShapeInv, RuntimeInv, Requested, walk
<1>4. PhaseInv'
  BY DEF EndOfQueue, PhaseInv, Walking, Go, walk
<1>5. QED
  BY <1>2, <1>3, <1>4

(* A wheel put into the pool is one that PyPI offers, and passed the check *)
(* for the Python version it was chosen for; nothing else changes there.   *)
LEMMA PutWheel ==
  ASSUME TypeOK, ShapeInv, NEW r, ~InPool(r), Exists(r), NEW v,
         NEW w \in SelectBestWheel(world.wheels[r], v), pool' = Put(pool, r, w),
         world' = world
  PROVE  /\ DOMAIN pool' = DOMAIN pool \cup {r}
         /\ \A q \in DOMAIN pool : pool'[q] = pool[q]
         /\ \A q \in DOMAIN pool' : pool'[q] \in world'.wheels[q]
         /\ DOMAIN pool' \subseteq DOMAIN world'.requires
         /\ IsCompatibleWindowsX64(pool'[r], v)
<1>1. w \in world.wheels[r] /\ IsCompatibleWindowsX64(w, v)
  BY SelectFits
<1>2. pool'[r] = w /\ DOMAIN pool' = DOMAIN pool \cup {r}
  BY DEF Put
<1>3. \A q \in DOMAIN pool : pool'[q] = pool[q]
  BY DEF Put, InPool
<1>4. QED
  BY <1>1, <1>2, <1>3 DEF TypeOK, ShapeInv, Exists

(* What is missing is counted, then installed; what a launch installs has  *)
(* passed the check of its wheel.                                          *)
LEMMA InstallingTypes ==
  ASSUME TypeOK, ShapeInv, RuntimeInv, PhaseInv, WheelInv, Installing, UNCHANGED walk
  PROVE  TypeOK' /\ ShapeInv' /\ RuntimeInv' /\ PhaseInv' /\ WheelInv'
<1> USE DEF walk
<1>1. CASE \E n \in uncounted : Count(n)
  <2>1. TypeOK' /\ WheelInv'
    BY <1>1 DEF Count, TypeOK, WheelInv, Requested
  <2>2. ShapeInv' /\ RuntimeInv' /\ PhaseInv'
    BY <1>1 DEF Count, ShapeInv, RuntimeInv, PhaseInv, Walking, Requested
  <2>3. QED
    BY <2>1, <2>2
<1>2. CASE Counted
  <2>1. runtime' = runtime \/ runtime' = {Requested}
    BY <1>2 DEF Counted
  <2>2. Cardinality(runtime') <= 1
    <3>1. CASE runtime' = {Requested}
      <4>1. Cardinality(runtime') = 1
        BY <3>1, FS_Singleton
      <4>2. QED
        BY <4>1
    <3>2. CASE runtime' = runtime
      BY <3>2 DEF TypeOK
    <3>3. QED
      BY <2>1, <3>1, <3>2
  <2>3. TypeOK' /\ WheelInv'
    BY <1>2, <2>2 DEF Counted, TypeOK, WheelInv, Requested, Phases, Done, Go, install
  <2>4. ShapeInv'
    <3>1. runtime \subseteq runtimes
      BY DEF TypeOK
    <3>2. runtimes' \subseteq VersionSet
      BY <2>1, <3>1, <1>2, WorldTypes DEF Counted, ShapeInv
    <3>3. QED
      BY <1>2, <3>2 DEF Counted, ShapeInv, install
  <2>5. RuntimeInv' /\ PhaseInv'
    BY <1>2 DEF Counted, RuntimeInv, PhaseInv, Walking, Requested, Go, install
  <2>6. QED
    BY <2>3, <2>4, <2>5
<1>3. CASE \E r \in missing : Ensure(r)
  <2>1. PICK r \in missing : Ensure(r)
    BY <1>3
  <2>2. /\ \A q \in DOMAIN pool : q \in DOMAIN pool' /\ pool'[q] = pool[q]
        /\ \A q \in DOMAIN pool' : pool'[q] \in world'.wheels[q]
        /\ DOMAIN pool' \subseteq DOMAIN world'.requires
        /\ fresh' \subseteq DOMAIN pool'
        /\ \A q \in fresh' \ fresh : IsCompatibleWindowsX64(pool'[q], Requested)
    <3>1. CASE InPool(r)
      BY <2>1, <3>1 DEF Ensure, TypeOK, ShapeInv
    <3>2. CASE ~InPool(r)
      <4>1. PICK w \in SelectBestWheel(world.wheels[r], Requested) :
              pool' = Put(pool, r, w)
        BY <2>1, <3>2 DEF Ensure
      <4>2. Exists(r) /\ world' = world /\ fresh' = fresh \cup {r}
        BY <2>1, <3>2 DEF Ensure
      <4>3. QED
        BY <3>2, <4>1, <4>2, PutWheel DEF TypeOK
    <3>3. QED
      BY <3>1, <3>2
  <2>3. TypeOK' /\ WheelInv'
    BY <2>1, <2>2 DEF Ensure, TypeOK, WheelInv, Requested
  <2>4. ShapeInv' /\ RuntimeInv' /\ PhaseInv'
    BY <2>1, <2>2 DEF Ensure, ShapeInv, RuntimeInv, PhaseInv, Walking, Requested
  <2>5. QED
    BY <2>3, <2>4
<1>4. CASE Ready \/ \E r \in missing : EnsureFails(r)
  <2>1. TypeOK' /\ WheelInv'
    BY <1>4 DEF Ready, EnsureFails, TypeOK, WheelInv, Requested, Phases, Done, Go, install
  <2>2. ShapeInv' /\ RuntimeInv' /\ PhaseInv'
    BY <1>4 DEF Ready, EnsureFails, ShapeInv, RuntimeInv, PhaseInv, Walking, Requested, Go,
       install
  <2>3. QED
    BY <2>1, <2>2
<1>5. QED
  BY <1>1, <1>2, <1>3, <1>4 DEF Installing

(* Another launch adds a wheel to the pool, and nothing else. *)
LEMMA OthersTypes ==
  ASSUME TypeOK, ShapeInv, RuntimeInv, PhaseInv, WheelInv, Others,
         UNCHANGED <<runtimes, runtime, phase, walk>>
  PROVE  /\ TypeOK' /\ ShapeInv' /\ RuntimeInv' /\ PhaseInv' /\ WheelInv'
         /\ DOMAIN pool \subseteq DOMAIN pool'
         /\ missing' = missing /\ uncounted' = uncounted
<1>1. PICK r \in DOMAIN world.requires, v \in OtherPythons : OtherInstalls(r, v)
  BY DEF Others
<1>2. PICK w \in SelectBestWheel(world.wheels[r], v) : pool' = Put(pool, r, w)
  BY <1>1 DEF OtherInstalls
<1>3. /\ world' = world /\ manifest' = manifest /\ Exists(r) /\ ~InPool(r)
      /\ missing' = missing /\ uncounted' = uncounted /\ fresh' = fresh
      /\ others' = others + 1 /\ others < MaxOthers
  BY <1>1 DEF OtherInstalls
<1>4. /\ DOMAIN pool' = DOMAIN pool \cup {r}
      /\ \A q \in DOMAIN pool : pool'[q] = pool[q]
      /\ \A q \in DOMAIN pool' : pool'[q] \in world'.wheels[q]
      /\ DOMAIN pool' \subseteq DOMAIN world'.requires
  BY <1>2, <1>3, PutWheel
<1>5. others' \in 0..MaxOthers
  BY <1>3, ResolverAssumption DEF TypeOK
<1>6. TypeOK'
  BY <1>3, <1>4, <1>5 DEF TypeOK, walk
<1>7. ShapeInv' /\ RuntimeInv' /\ PhaseInv' /\ WheelInv'
  BY <1>3, <1>4 DEF ShapeInv, RuntimeInv, PhaseInv, WheelInv, Requested, walk
<1>8. QED
  BY <1>3, <1>4, <1>6, <1>7

-----------------------------------------------------------------------------
(* The plan and the queue.                                                 *)

(* As long as no name is pinned in two spellings, two pins never have the  *)
(* same normalized name.                                                   *)
LEMMA OneSpelling ==
  ASSUME ShapeInv, ~SpelledTwice,
         NEW s \in DOMAIN manifest.pins, NEW t \in DOMAIN manifest.pins, NormOf[s] = NormOf[t]
  PROVE  s = t
<1> DEFINE Pins == DOMAIN manifest.pins
           norm == [u \in Pins |-> NormOf[u]]
<1>1. IsFiniteSet(Pins) /\ Cardinality(Pins) = Cardinality(Pinned)
  BY WorldTypes DEF SpelledTwice
<1>2. norm \in Surjection(Pins, Pinned)
  BY DEF Surjection, Pinned
<1>3. norm \in Injection(Pins, Pinned)
  <2> HIDE DEF Pins, norm
  <2>1. QED
    BY <1>1, <1>2, FS_SurjSameCardinalityImpliesInj
<1>4. norm[s] = norm[t]
  OBVIOUS
<1>5. QED
  <2> HIDE DEF norm
  <2>1. QED
    BY <1>3, <1>4 DEF Injection, IsInjective

(* A step that leaves the plan alone leaves its versions alone; one that   *)
(* gives up no more than some metadata adds no lines to be met.            *)
LEMMA LinesStay ==
  ASSUME world' = world, skipped \subseteq skipped', NEW n, VersionOf(n)' = VersionOf(n)
  PROVE  /\ LinesOf(n)' \subseteq LinesOf(n)
         /\ n \in skipped' => LinesOf(n)' = {}
BY DEF LinesOf, Exists, Accepted

(* The lines of a release that is fetched are its lines at PyPI.           *)
LEMMA LinesFetched ==
  ASSUME NEW n, NEW line \in LinesOf(n)
  PROVE  /\ Accepted(line)
         /\ \E i \in DOMAIN world.requires[<<n, VersionOf(n)>>] :
              world.requires[<<n, VersionOf(n)>>][i] = line
BY DEF LinesOf

(* The pins become the plan, and all of them are in the queue. *)
LEMMA PinKeeps ==
  ASSUME TypeOK, ShapeInv, PhaseInv, Pin
  PROVE  PlanInv' /\ QueueInv' /\ LinesInv' /\ InstallInv'
<1>1. /\ plan = <<>> /\ visited = {} /\ visited' = {} /\ phase' = "take"
      /\ world' = world /\ manifest' = manifest
      /\ Pinned' = Pinned /\ (SpelledTwice' <=> SpelledTwice)
  BY DEF PhaseInv, Pin, Go, TypeOK, Pinned, SpelledTwice
<1>2. DOMAIN plan' = Pinned /\ queue' \in Seq(Releases)
  BY PinTypes
<1>3. PICK last \in [Pinned -> DOMAIN manifest.pins] :
        /\ \A n \in Pinned : NormOf[last[n]] = n
        /\ plan' = [n \in Pinned |-> manifest.pins[last[n]]]
  BY DEF Pin
<1>4. PICK order \in Orders(DOMAIN manifest.pins) :
        queue' = [i \in DOMAIN order |-> <<NormOf[order[i]], manifest.pins[order[i]]>>]
  BY DEF Pin
<1>5. /\ DOMAIN queue' = DOMAIN order
      /\ \A i \in DOMAIN order : order[i] \in DOMAIN manifest.pins
      /\ \A s \in DOMAIN manifest.pins : \E i \in DOMAIN order : order[i] = s
  BY <1>4 DEF Orders
<1>6. DOMAIN queue' = 1..Len(queue')
  BY <1>2
<1>7. \A i \in 1..Len(queue') :
        /\ queue'[i][1] \in Pinned
        /\ ~SpelledTwice => queue'[i][2] = plan'[queue'[i][1]]
  <2> TAKE i \in 1..Len(queue')
  <2>1. /\ queue'[i] = <<NormOf[order[i]], manifest.pins[order[i]]>>
        /\ order[i] \in DOMAIN manifest.pins
    BY <1>4, <1>5, <1>6
  <2>2. NormOf[order[i]] \in Pinned
    BY <2>1 DEF Pinned
  <2>3. ASSUME ~SpelledTwice
        PROVE  last[NormOf[order[i]]] = order[i]
    BY <1>3, <2>1, <2>2, <2>3, OneSpelling
  <2>4. QED
    BY <1>3, <2>1, <2>2, <2>3
<1>8. \A n \in Pinned : \E i \in 1..Len(queue') : queue'[i][1] = n
  <2> TAKE n \in Pinned
  <2>1. PICK s \in DOMAIN manifest.pins : NormOf[s] = n
    BY DEF Pinned
  <2>2. PICK i \in DOMAIN order : order[i] = s
    BY <1>5
  <2>3. QED
    BY <1>4, <1>5, <1>6, <2>1, <2>2
<1>9. PlanInv'
  BY <1>1, <1>2 DEF PlanInv, VersionOf
<1>10. QueueInv'
  BY <1>1, <1>2, <1>7, <1>8 DEF QueueInv, Counting
<1>11. LinesInv' /\ InstallInv'
  BY <1>1 DEF LinesInv, InstallInv, Counting
<1>12. QED
  BY <1>9, <1>10, <1>11

(* Taking a release off the queue: its package is visited, or was before.  *)
LEMMA TakeKeeps ==
  ASSUME TypeOK, ShapeInv, PlanInv, QueueInv, LinesInv, Take,
         Pinned' = Pinned, SpelledTwice' <=> SpelledTwice
  PROVE  PlanInv' /\ QueueInv' /\ LinesInv' /\ InstallInv'
<1>1. /\ phase = "take" /\ queue # <<>> /\ queue' = Tail(queue)
      /\ plan' = plan /\ world' = world /\ skipped' = skipped /\ first' = first
      /\ phase' \in {"take", "fetch"}
  BY DEF Take, Go
<1>2. \A n : VersionOf(n)' = VersionOf(n)
  BY <1>1 DEF VersionOf
<1>3. PlanInv'
  BY <1>1, <1>2 DEF PlanInv, Walking
<1>4. /\ Len(queue) \in Nat \ {0} /\ Len(queue') = Len(queue) - 1
      /\ \A i \in 1..Len(queue') : queue'[i] = queue[i + 1]
      /\ Head(queue) = queue[1]
  BY <1>1 DEF ShapeInv
<1>5. /\ \A i \in 1..Len(queue) :
           /\ queue[i][1] \in DOMAIN plan
           /\ ~SpelledTwice => queue[i][2] = plan[queue[i][1]]
      /\ \A n \in DOMAIN plan \ visited : \E i \in 1..Len(queue) : queue[i][1] = n
  BY <1>1 DEF QueueInv, Walking
<1>6. visited' = visited \cup {Head(queue)[1]}
  BY <1>1 DEF Take
<1>7. QueueInv'
  <2>1. \A i \in 1..Len(queue') :
          /\ queue'[i][1] \in DOMAIN plan'
          /\ ~SpelledTwice' => queue'[i][2] = plan'[queue'[i][1]]
    <3> TAKE i \in 1..Len(queue')
    <3>1. i + 1 \in 1..Len(queue) /\ queue'[i] = queue[i + 1]
      BY <1>4
    <3>2. QED
      BY <1>1, <1>5, <3>1
  <2>2. \A n \in DOMAIN plan' \ visited' : \E i \in 1..Len(queue') : queue'[i][1] = n
    <3> TAKE n \in DOMAIN plan' \ visited'
    <3>1. PICK i \in 1..Len(queue) : queue[i][1] = n
      BY <1>1, <1>5, <1>6
    <3>2. i # 1
      BY <1>4, <1>6, <3>1
    <3>3. i - 1 \in 1..Len(queue') /\ queue'[i - 1] = queue[i]
      BY <1>4, <3>2
    <3>4. QED
      BY <3>1, <3>3
  <2>3. phase' \in {"fetch", "lines"} /\ ~SpelledTwice' => curr'[2] = plan'[curr'[1]]
    BY <1>1, <1>4, <1>5 DEF Take
  <2>4. QED
    BY <1>1, <2>1, <2>2, <2>3 DEF QueueInv, Counting
<1>8. LinesInv'
  <2> SUFFICES ASSUME ~SpelledTwice', NEW n \in visited', NEW line \in LinesOf(n)'
               PROVE  Met(n, line)' \/ Ahead(n, line)'
    BY DEF LinesInv
  <2>1. CASE n \in visited
    <3>1. line \in LinesOf(n)
      BY <1>1, <1>2, LinesStay
    <3>2. ~Ahead(n, line)
      BY <1>1 DEF Ahead
    <3>3. QED
      BY <1>1, <2>1, <3>1, <3>2 DEF LinesInv, Walking, Met
  <2>2. CASE n \notin visited
    BY <1>6, <2>2 DEF Take, Ahead, Go
  <2>3. QED
    BY <2>1, <2>2
<1>9. InstallInv'
  BY <1>1 DEF InstallInv, Counting
<1>10. QED
  BY <1>3, <1>7, <1>8, <1>9

(* The metadata of the release that is visited: its lines are to be read,  *)
(* or the package is left without any, or the walk ends.                   *)
LEMMA FetchKeeps ==
  ASSUME TypeOK, ShapeInv, PhaseInv, PlanInv, QueueInv, LinesInv, Fetch \/ FetchFails,
         Pinned' = Pinned, SpelledTwice' <=> SpelledTwice
  PROVE  PlanInv' /\ QueueInv' /\ LinesInv' /\ InstallInv'
<1>1. /\ phase = "fetch" /\ plan' = plan /\ queue' = queue /\ visited' = visited
      /\ curr' = curr /\ first' = first /\ world' = world /\ skipped \subseteq skipped'
      /\ phase' \in {"lines", "take", "noMetadata"}
  BY DEF Fetch, FetchFails, Go
<1>2. \A n : VersionOf(n)' = VersionOf(n)
  BY <1>1 DEF VersionOf
<1>3. PlanInv'
  BY <1>1, <1>2 DEF PlanInv, Walking
<1>4. QueueInv'
  BY <1>1 DEF QueueInv, Walking, Counting
<1>5. curr[1] \in visited /\ curr = <<curr[1], curr[2]>> /\ visited \subseteq DOMAIN plan
  BY <1>1 DEF PhaseInv, Releases, TypeOK
<1>6. LinesInv'
  <2> SUFFICES ASSUME ~SpelledTwice', phase' # "noMetadata",
                      NEW n \in visited', NEW line \in LinesOf(n)'
               PROVE  Met(n, line)' \/ Ahead(n, line)'
    BY DEF LinesInv, Walking, Counting
  <2>1. line \in LinesOf(n) /\ n \notin skipped'
    BY <1>1, <1>2, LinesStay
  <2>2. CASE n # curr[1]
    <3>1. ~Ahead(n, line)
      BY <2>2 DEF Ahead
    <3>2. Met(n, line)
      BY <1>1, <2>1, <3>1 DEF LinesInv, Walking
    <3>3. QED
      BY <1>1, <3>2 DEF Met
  <2>3. CASE n = curr[1]
    <3>1. Fetch
      BY <2>1, <2>3 DEF FetchFails, Go
    <3>2. VersionOf(n) = curr[2]
      BY <1>1, <1>5, <2>3 DEF PlanInv, QueueInv, Walking
    <3>3. PICK i \in DOMAIN world.requires[curr] : world.requires[curr][i] = line
      BY <1>5, <2>1, <2>3, <3>2, LinesFetched
    <3>4. lines' = world.requires[curr] /\ lines' \in Seq(Lines)
      BY <3>1, WorldTypes DEF Fetch, Exists
    <3>5. i \in 1..Len(lines') /\ lines'[i] = line
      BY <3>3, <3>4
    <3>6. QED
      BY <1>1, <2>3, <3>1, <3>5 DEF Ahead, Fetch, Go
  <2>4. QED
    BY <2>2, <2>3
<1>7. InstallInv'
  BY <1>1 DEF InstallInv, Counting
<1>8. QED
  BY <1>3, <1>4, <1>6, <1>7

(* Lines that are read without adding to the plan: one that does not       *)
(* count, one of a package in the plan, one that fails, and the last.      *)
LEMMA ReadKeeps ==
  ASSUME TypeOK, ShapeInv, PlanInv, QueueInv, LinesInv,
         \/ EndOfLines
         \/ PassOver
         \/ lines # <<>> /\ (Known(Head(lines)) \/ AddFails(Head(lines))),
         Pinned' = Pinned, SpelledTwice' <=> SpelledTwice
  PROVE  PlanInv' /\ QueueInv' /\ LinesInv' /\ InstallInv'
<1>1. /\ phase = "lines" /\ plan' = plan /\ queue' = queue /\ visited' = visited
      /\ curr' = curr /\ first' = first /\ world' = world /\ skipped' = skipped
      /\ phase' \in {"lines", "take", "conflict", "noMetadata"}
  BY DEF EndOfLines, PassOver, Known, AddFails, Reading, Go, walk
<1>2. \A n : VersionOf(n)' = VersionOf(n)
  BY <1>1 DEF VersionOf
<1>3. PlanInv'
  BY <1>1, <1>2 DEF PlanInv, Walking
<1>4. QueueInv'
  BY <1>1 DEF QueueInv, Walking, Counting
<1>5. LinesInv'
  <2> SUFFICES ASSUME ~SpelledTwice', phase' \in {"lines", "take"},
                      NEW n \in visited', NEW line \in LinesOf(n)'
               PROVE  Met(n, line)' \/ Ahead(n, line)'
    BY <1>1 DEF LinesInv, Walking, Counting
  <2>1. line \in LinesOf(n) /\ Accepted(line)
    BY <1>1, <1>2, LinesStay, LinesFetched
  <2>2. Met(n, line) \/ Ahead(n, line)
    BY <1>1, <2>1 DEF LinesInv, Walking
  <2>3. CASE Met(n, line)
    BY <1>1, <2>3 DEF Met
  <2>4. CASE Ahead(n, line)
    <3>1. n = curr[1]
      BY <2>4 DEF Ahead
    <3>2. PICK i \in 1..Len(lines) : lines[i] = line
      BY <1>1, <2>4 DEF Ahead
    <3>3. lines # <<>> /\ Len(lines) \in Nat \ {0} /\ Head(lines) = lines[1]
      BY <3>2 DEF ShapeInv
    <3>4. lines' = Tail(lines) /\ phase' = "lines"
      BY <3>3, <1>1 DEF EndOfLines, PassOver, Known, AddFails, Go
    <3>5. CASE i = 1
      <4>1. Known(line) /\ ~Conflicts(line)
        BY <2>1, <3>2, <3>3, <3>5 DEF EndOfLines, PassOver, Known, AddFails, Go
      <4>2. Met(n, line)
        BY <4>1 DEF Known, Conflicts, Met
      <4>3. QED
        BY <1>1, <4>2 DEF Met
    <3>6. CASE i # 1
      <4>1. i - 1 \in 1..Len(lines') /\ lines'[i - 1] = line
        BY <3>2, <3>3, <3>4, <3>6 DEF ShapeInv
      <4>2. QED
        BY <1>1, <3>1, <3>4, <4>1 DEF Ahead
    <3>7. QED
      BY <3>5, <3>6
  <2>5. QED
    BY <2>2, <2>3, <2>4
<1>6. InstallInv'
  BY <1>1 DEF InstallInv, Counting
<1>7. QED
  BY <1>3, <1>4, <1>5, <1>6

(* A line that brings its package into the plan, and into the queue.       *)
LEMMA AddKeeps ==
  ASSUME TypeOK, ShapeInv, PhaseInv, PlanInv, QueueInv, LinesInv, lines # <<>>, Add(Head(lines)),
         Pinned' = Pinned, SpelledTwice' <=> SpelledTwice
  PROVE  PlanInv' /\ QueueInv' /\ LinesInv' /\ InstallInv'
<1>0. PICK new : new = Head(lines).name
  OBVIOUS
<1>1. /\ phase = "lines" /\ phase' = "lines" /\ lines' = Tail(lines)
      /\ visited' = visited /\ curr' = curr /\ world' = world /\ skipped' = skipped
      /\ first' = Put(first, new, curr[1])
  BY <1>0 DEF Add, Reading
<1>2. /\ DOMAIN plan' = DOMAIN plan \cup {new} /\ new \notin DOMAIN plan
      /\ \A n \in DOMAIN plan : plan'[n] = plan[n]
      /\ plan'[new] = world.latest[new]
      /\ queue' = Append(queue, <<new, plan'[new]>>)
  BY <1>0, AddTypes
<1>3. /\ Pinned \subseteq DOMAIN plan
      /\ \A n \in DOMAIN plan : plan[n] = VersionOf(n)
  BY <1>1 DEF PlanInv, Walking
<1>4. \A n \in DOMAIN plan : VersionOf(n)' = VersionOf(n)
  BY <1>1, <1>2, <1>3 DEF VersionOf
<1>5. PlanInv'
  <2>1. VersionOf(new)' = plan'[new]
    BY <1>1, <1>2, <1>3 DEF VersionOf
  <2>2. QED
    BY <1>2, <1>3, <1>4, <2>1 DEF PlanInv
<1>6. /\ Len(queue) \in Nat /\ Len(queue') = Len(queue) + 1
      /\ \A i \in 1..Len(queue) : queue'[i] = queue[i]
      /\ queue'[Len(queue')] = <<new, plan'[new]>>
  BY <1>2 DEF ShapeInv
<1>7. /\ \A i \in 1..Len(queue) :
           /\ queue[i][1] \in DOMAIN plan
           /\ ~SpelledTwice => queue[i][2] = plan[queue[i][1]]
      /\ \A n \in DOMAIN plan \ visited : \E i \in 1..Len(queue) : queue[i][1] = n
      /\ ~SpelledTwice => curr[2] = plan[curr[1]]
  BY <1>1 DEF QueueInv, Walking
<1>8. QueueInv'
  <2>1. \A i \in 1..Len(queue') :
          /\ queue'[i][1] \in DOMAIN plan'
          /\ ~SpelledTwice' => queue'[i][2] = plan'[queue'[i][1]]
    <3> TAKE i \in 1..Len(queue')
    <3>1. CASE i \in 1..Len(queue)
      BY <1>2, <1>6, <1>7, <3>1
    <3>2. CASE i = Len(queue')
      BY <1>2, <1>6, <3>2
    <3>3. QED
      BY <1>6, <3>1, <3>2
  <2>2. \A n \in DOMAIN plan' \ visited' : \E i \in 1..Len(queue') : queue'[i][1] = n
    <3> TAKE n \in DOMAIN plan' \ visited'
    <3>1. CASE n = new
      <4>1. Len(queue') \in 1..Len(queue') /\ queue'[Len(queue')][1] = n
        BY <1>6, <3>1
      <4>2. QED
        BY <4>1
    <3>2. CASE n # new
      <4>1. PICK i \in 1..Len(queue) : queue[i][1] = n
        BY <1>1, <1>2, <1>7, <3>2
      <4>2. i \in 1..Len(queue') /\ queue'[i][1] = n
        BY <1>6, <4>1
      <4>3. QED
        BY <4>2
    <3>3. QED
      BY <3>1, <3>2
  <2>3. ~SpelledTwice' => curr'[2] = plan'[curr'[1]]
    <3>1. curr[1] \in DOMAIN plan
      BY <1>1 DEF PhaseInv, TypeOK
    <3>2. QED
      BY <1>1, <1>2, <1>7, <3>1
  <2>4. QED
    BY <1>1, <2>1, <2>2, <2>3 DEF QueueInv, Counting
<1>9. LinesInv'
  <2> SUFFICES ASSUME ~SpelledTwice', NEW n \in visited', NEW line \in LinesOf(n)'
               PROVE  Met(n, line)' \/ Ahead(n, line)'
    BY DEF LinesInv
  <2>1. n \in DOMAIN plan
    BY <1>1 DEF TypeOK
  <2>2. line \in LinesOf(n)
    BY <1>1, <1>4, <2>1, LinesStay
  <2>3. Met(n, line) \/ Ahead(n, line)
    BY <1>1, <2>2 DEF LinesInv, Walking
  <2>4. CASE Met(n, line)
    BY <1>1, <1>2, <2>4 DEF Met, Put
  <2>5. CASE Ahead(n, line)
    <3>1. n = curr[1]
      BY <2>5 DEF Ahead
    <3>2. PICK i \in 1..Len(lines) : lines[i] = line
      BY <1>1, <2>5 DEF Ahead
    <3>3. CASE i = 1
      <4>1. line.name = new
        BY <1>0, <3>2, <3>3 DEF ShapeInv
      <4>2. QED
        BY <1>1, <1>2, <3>1, <4>1 DEF Met, Put
    <3>4. CASE i # 1
      <4>1. i - 1 \in 1..Len(lines') /\ lines'[i - 1] = line
        BY <1>1, <3>2, <3>4 DEF ShapeInv
      <4>2. QED
        BY <1>1, <3>1, <4>1 DEF Ahead
    <3>5. QED
      BY <3>3, <3>4
  <2>6. QED
    BY <2>3, <2>4, <2>5
<1>10. InstallInv'
  BY <1>1 DEF InstallInv, Counting
<1>11. QED
  BY <1>5, <1>8, <1>9, <1>10

(* With nothing left in the queue, all that is planned has been visited.   *)
LEMMA EndOfQueueKeeps ==
  ASSUME PlanInv, QueueInv, LinesInv, ShapeInv, EndOfQueue,
         Pinned' = Pinned, SpelledTwice' <=> SpelledTwice
  PROVE  PlanInv' /\ QueueInv' /\ LinesInv' /\ InstallInv'
<1>1. /\ phase = "take" /\ queue = <<>> /\ phase' = "count" /\ uncounted' = DOMAIN plan
      /\ plan' = plan /\ queue' = queue /\ visited' = visited
      /\ first' = first /\ world' = world /\ skipped' = skipped
  BY DEF EndOfQueue, Go, walk
<1>2. \A n : VersionOf(n)' = VersionOf(n)
  BY <1>1 DEF VersionOf
<1>3. PlanInv'
  BY <1>1, <1>2 DEF PlanInv, Walking
<1>4. DOMAIN plan \subseteq visited
  <2>1. 1..Len(queue) = {}
    BY <1>1
  <2>2. QED
    BY <1>1, <2>1 DEF QueueInv, Walking
<1>5. QueueInv'
  BY <1>1, <1>4 DEF QueueInv, Walking
<1>6. LinesInv'
  <2> SUFFICES ASSUME ~SpelledTwice', NEW n \in visited', NEW line \in LinesOf(n)'
               PROVE  Met(n, line)'
    BY DEF LinesInv
  <2>1. line \in LinesOf(n) /\ ~Ahead(n, line)
    BY <1>1, <1>2, LinesStay DEF Ahead
  <2>2. QED
    BY <1>1, <2>1 DEF LinesInv, Walking, Met
<1>7. InstallInv'
  BY <1>1 DEF InstallInv
<1>8. QED
  BY <1>3, <1>5, <1>6, <1>7

(* What follows the walk leaves its result alone.                          *)
LEMMA ResultStays ==
  ASSUME PlanInv, QueueInv, LinesInv, UNCHANGED walk, world' = world,
         Pinned' = Pinned, SpelledTwice' <=> SpelledTwice,
         \/ phase' = phase
         \/ phase \in Counting /\ phase' \in Counting \cup {"noWheel"}
  PROVE  PlanInv' /\ QueueInv' /\ LinesInv'
<1>1. /\ plan' = plan /\ queue' = queue /\ visited' = visited /\ curr' = curr
      /\ lines' = lines /\ first' = first /\ skipped' = skipped
  BY DEF walk
<1>2. \A n : VersionOf(n)' = VersionOf(n)
  BY <1>1 DEF VersionOf
<1>3. PlanInv'
  BY <1>1, <1>2 DEF PlanInv, Walking, Counting
<1>4. QueueInv'
  BY <1>1 DEF QueueInv, Walking, Counting
<1>5. LinesInv'
  <2> SUFFICES ASSUME ~SpelledTwice', phase' \in Walking \cup Counting,
                      NEW n \in visited', NEW line \in LinesOf(n)'
               PROVE  Met(n, line)' \/ Ahead(n, line)'
    BY DEF LinesInv
  <2>1. line \in LinesOf(n)
    BY <1>1, <1>2, LinesStay
  <2>2. Met(n, line) \/ Ahead(n, line)
    BY <1>1, <2>1 DEF LinesInv, Walking, Counting
  <2>3. QED
    BY <1>1, <2>2 DEF Met, Ahead, Counting
<1>6. QED
  BY <1>3, <1>4, <1>5

(* A package is taken off the list of the uncounted for the list of the    *)
(* missing, and off that for the pool, and never lost in between.          *)
LEMMA InstallingKeeps ==
  ASSUME TypeOK, PhaseInv, InstallInv, Installing, UNCHANGED walk
  PROVE  InstallInv' /\ phase \in Counting /\ phase' \in Counting \cup {"noWheel"}
<1>1. plan' = plan
  BY DEF walk
<1>2. CASE \E n \in uncounted : Count(n)
  BY <1>1, <1>2 DEF Count, InstallInv, Counting, InPool
<1>3. CASE Counted
  BY <1>1, <1>3 DEF Counted, InstallInv, Counting, InPool, Go, install
<1>4. CASE \E r \in missing : Ensure(r)
  <2>1. PICK r \in missing : Ensure(r)
    BY <1>4
  <2>2. /\ phase = "install" /\ phase' = phase /\ missing' = missing \ {r}
        /\ uncounted' = uncounted
    BY <2>1 DEF Ensure
  <2>3. DOMAIN pool' = DOMAIN pool \cup {r}
    BY <2>1 DEF Ensure, InPool, Put
  <2>4. QED
    BY <1>1, <2>2, <2>3 DEF InstallInv, Counting, InPool
<1>5. CASE Ready \/ \E r \in missing : EnsureFails(r)
  BY <1>1, <1>5 DEF Ready, EnsureFails, InstallInv, Counting, InPool, Go, install
<1>6. QED
  BY <1>2, <1>3, <1>4, <1>5 DEF Installing

-----------------------------------------------------------------------------
(* The reference: what is reached is the least set with the pins and with  *)
(* whatever the lines of its packages name.                                *)

(* A set that has the pins and what the lines of its packages name. *)
ClosedUnderLines(C) ==
  /\ Pinned \subseteq C
  /\ \A n \in C : \A line \in LinesOf(n) : line.name \in C

(* The lines of packages name packages. *)
LEMMA LineNames ==
  ASSUME ShapeInv, NEW n, NEW line \in LinesOf(n)
  PROVE  line.name \in Names
<1>1. Exists(<<n, VersionOf(n)>>)
  BY DEF LinesOf
<1>2. world.requires[<<n, VersionOf(n)>>] \in Seq(Lines)
  BY <1>1, WorldTypes DEF Exists
<1>3. PICK i \in DOMAIN world.requires[<<n, VersionOf(n)>>] :
        world.requires[<<n, VersionOf(n)>>][i] = line
  BY LinesFetched
<1>4. line \in Lines
  BY <1>2, <1>3
<1>5. QED
  BY <1>4 DEF Lines

(* ReachIn is what its definition says, for there is such a function.      *)
LEMMA ReachInStep ==
  ASSUME ShapeInv
  PROVE  /\ Cardinality(Names) \in Nat
         /\ ReachIn \in [0..Cardinality(Names) -> SUBSET Names]
         /\ ReachIn[0] = Pinned
         /\ \A i \in 1..Cardinality(Names) :
              ReachIn[i] = ReachIn[i - 1] \cup
                {line.name : line \in UNION {LinesOf(n) : n \in ReachIn[i - 1]}}
<1> DEFINE N == Cardinality(Names)
           named(A) == {line.name : line \in UNION {LinesOf(n) : n \in A}}
           grow == [A \in SUBSET Names |-> named(A)]
<1>1. N \in Nat
  BY ResolverAssumption, FS_CardinalityType
<1>2. \A A : named(A) \subseteq Names
  BY LineNames
<1>3. PICK chain \in [0..N -> SUBSET Names] :
        IsChain(chain, N, Pinned, grow)
  <2>1. grow \in [SUBSET Names -> SUBSET Names]
    BY <1>2
  <2>2. Pinned \in SUBSET Names
    BY WorldTypes
  <2> HIDE DEF N, named, grow
  <2>3. QED
    BY <1>1, <2>1, <2>2, ChainExists
<1>4. chain = [i \in 0..N |-> IF i = 0 THEN Pinned ELSE chain[i - 1] \cup named(chain[i - 1])]
  <2>1. \A i \in 1..N : grow[chain[i - 1]] = named(chain[i - 1])
    <3> HIDE DEF named
    <3>1. \A i \in 1..N : chain[i - 1] \in SUBSET Names
      BY <1>1
    <3>2. QED
      BY <3>1
  <2> HIDE DEF named, grow, N
  <2>2. \A i \in 0..N :
          chain[i] = IF i = 0 THEN Pinned ELSE chain[i - 1] \cup named(chain[i - 1])
    <3> TAKE i \in 0..N
    <3>1. i # 0 => i \in 1..N
      BY <1>1
    <3>2. QED
      BY <1>3, <2>1, <3>1 DEF IsChain
  <2>3. QED
    BY <2>2
<1>5. ReachIn = [i \in 0..N |->
                   IF i = 0 THEN Pinned ELSE ReachIn[i - 1] \cup named(ReachIn[i - 1])]
  BY <1>4 DEF ReachIn
<1> HIDE DEF named, grow, N
<1>6. \A i \in 0..N : ReachIn[i] \in SUBSET Names
  <2> DEFINE Bad == {i \in 0..N : ReachIn[i] \notin SUBSET Names}
  <2>1. SUFFICES ASSUME Bad # {}
                 PROVE  FALSE
    OBVIOUS
  <2>2. PICK i \in Bad : \A j \in Bad : i <= j
    <3>1. Bad \in SUBSET Nat
      BY <1>1
    <3> HIDE DEF Bad
    <3>2. QED
      BY <2>1, <3>1, LeastExists
  <2>3. i \in 0..N /\ ReachIn[i] \notin SUBSET Names
    OBVIOUS
  <2>4. i # 0
    BY <1>1, <1>5, <2>3, WorldTypes
  <2>5. i - 1 \in 0..N /\ ~(i <= i - 1)
    BY <1>1, <2>3, <2>4
  <2>6. i - 1 \notin Bad
    BY <2>2, <2>5
  <2>7. ReachIn[i] = ReachIn[i - 1] \cup named(ReachIn[i - 1])
    BY <1>5, <2>3, <2>4
  <2>8. QED
    BY <1>2, <2>3, <2>5, <2>6, <2>7
<1>7. ReachIn[0] = Pinned
  BY <1>1, <1>5
<1>8. \A i \in 1..N : ReachIn[i] = ReachIn[i - 1] \cup named(ReachIn[i - 1])
  <2> TAKE i \in 1..N
  <2>1. i \in 0..N /\ i # 0
    BY <1>1
  <2>2. QED
    BY <1>5, <2>1
<1>9. ReachIn \in [0..N -> SUBSET Names]
  BY <1>5, <1>6
<1>10. QED
  BY <1>1, <1>7, <1>8, <1>9 DEF named, N

(* What is reached has the pins and what the lines of its packages name,   *)
(* and every set that has them has all that is reached.                    *)
LEMMA ReachIsLeast ==
  ASSUME ShapeInv
  PROVE  /\ ClosedUnderLines(Reach)
         /\ \A C : ClosedUnderLines(C) => Reach \subseteq C
         /\ Reach \subseteq Names
<1> DEFINE N == Cardinality(Names)
           named(A) == {line.name : line \in UNION {LinesOf(n) : n \in A}}
           grow == [A \in SUBSET Names |-> named(A)]
<1>1. /\ N \in Nat /\ ReachIn \in [0..N -> SUBSET Names] /\ ReachIn[0] = Pinned
      /\ \A i \in 1..N : ReachIn[i] = ReachIn[i - 1] \cup named(ReachIn[i - 1])
  BY ReachInStep
<1>2. Reach = ReachIn[N] /\ Reach \in SUBSET Names
  BY <1>1 DEF Reach
<1>3. \A n \in Reach : \A line \in LinesOf(n) : line.name \in Reach
  <2>1. grow \in [SUBSET Names -> SUBSET Names]
    BY LineNames
  <2>2. \A i \in 1..N : ReachIn[i] = ReachIn[i - 1] \cup grow[ReachIn[i - 1]]
    <3>1. \A i \in 1..N : ReachIn[i - 1] \in SUBSET Names
      BY <1>1
    <3> HIDE DEF named
    <3>2. QED
      BY <1>1, <3>1
  <2>3. grow[Reach] \subseteq Reach
    <3>1. IsChain(ReachIn, N, Pinned, grow)
      BY <1>1, <2>2 DEF IsChain
    <3> HIDE DEF grow
    <3>2. QED
      BY <1>1, <1>2, <2>1, <3>1, ResolverAssumption, ChainCloses
  <2>4. named(Reach) \subseteq Reach
    <3> HIDE DEF named
    <3>1. QED
      BY <1>2, <2>3
  <2>5. QED
    BY <2>4
<1>4. ASSUME NEW C, Pinned \subseteq C,
             \A n \in C : \A line \in LinesOf(n) : line.name \in C
      PROVE  \A i \in 0..N : ReachIn[i] \subseteq C
  <2> DEFINE Bad == {i \in 0..N : ~(ReachIn[i] \subseteq C)}
  <2>1. SUFFICES ASSUME Bad # {}
                 PROVE  FALSE
    OBVIOUS
  <2>2. PICK i \in Bad : \A j \in Bad : i <= j
    <3>1. Bad \in SUBSET Nat
      BY <1>1
    <3> HIDE DEF Bad
    <3>2. QED
      BY <2>1, <3>1, LeastExists
  <2>3. i \in 0..N /\ ~(ReachIn[i] \subseteq C)
    OBVIOUS
  <2>4. i # 0
    BY <1>1, <1>4, <2>3
  <2>5. i \in 1..N /\ i - 1 \in 0..N /\ ~(i <= i - 1)
    BY <1>1, <2>3, <2>4
  <2>6. ReachIn[i - 1] \subseteq C
    BY <2>2, <2>5
  <2>7. named(ReachIn[i - 1]) \subseteq C
    BY <1>4, <2>6
  <2> HIDE DEF named
  <2>8. QED
    BY <1>1, <2>3, <2>5, <2>6, <2>7
<1>5. Pinned \subseteq Reach
  <2>1. \A C : TRUE
    OBVIOUS
  <2> DEFINE Bad == {i \in 0..N : ~(Pinned \subseteq ReachIn[i])}
  <2>2. SUFFICES ASSUME Bad # {}
                 PROVE  FALSE
    BY <1>1, <1>2
  <2>3. PICK i \in Bad : \A j \in Bad : i <= j
    <3>1. Bad \in SUBSET Nat
      BY <1>1
    <3> HIDE DEF Bad
    <3>2. QED
      BY <2>2, <3>1, LeastExists
  <2>4. i \in 0..N /\ ~(Pinned \subseteq ReachIn[i])
    OBVIOUS
  <2>5. i # 0
    BY <1>1, <2>4
  <2>6. i \in 1..N /\ i - 1 \in 0..N /\ ~(i <= i - 1)
    BY <1>1, <2>4, <2>5
  <2>7. Pinned \subseteq ReachIn[i - 1]
    BY <2>3, <2>6
  <2> HIDE DEF named
  <2>8. QED
    BY <1>1, <2>4, <2>6, <2>7
<1>6. QED
  BY <1>1, <1>2, <1>3, <1>4, <1>5 DEF ClosedUnderLines

-----------------------------------------------------------------------------
(* What is planned is reached.                                             *)

(* While nothing is added to the plan, and no metadata that could be had   *)
(* is given up, what is planned stays reached.                             *)
LEMMA ReachedStays ==
  ASSUME ReachedInv, phase \in Walking \cup Counting \cup {"conflict"}, world' = world,
         plan' = plan, Pinned' = Pinned, SpelledTwice' <=> SpelledTwice,
         \A n : Fetched(n) => Fetched(n)'
  PROVE  ReachedInv'
<1> SUFFICES ASSUME ~SpelledTwice', NEW C \in SUBSET Names, ClosedSoFar(C)'
             PROVE  DOMAIN plan \subseteq C
  BY DEF ReachedInv
<1>1. \A n : VersionOf(n)' = VersionOf(n)
  BY DEF VersionOf
<1>2. ASSUME NEW n, Fetched(n)
      PROVE  LinesOf(n) \subseteq LinesOf(n)'
  <2>1. n \notin skipped'
    BY <1>2 DEF Fetched
  <2>2. QED
    BY <1>1, <2>1 DEF LinesOf, Exists, Accepted
<1>3. ClosedSoFar(C)
  BY <1>2 DEF ClosedSoFar
<1>4. QED
  BY <1>3 DEF ReachedInv

(* Before there is a plan there is nothing to be reached. *)
LEMMA NoPlanNoReach ==
  ASSUME phase' \notin Walking \cup Counting \cup {"conflict"}
  PROVE  AheadInv' /\ ReachedInv' /\ ConflictInv'
BY DEF AheadInv, ReachedInv, ConflictInv, Walking

(* The pins are in every set that has them. *)
LEMMA PinReaches ==
  ASSUME ShapeInv, Pin
  PROVE  AheadInv' /\ ReachedInv' /\ ConflictInv'
<1>1. phase' = "take"
  BY DEF Pin, Go
<1>2. DOMAIN plan' = Pinned'
  <2>1. manifest' = manifest
    BY DEF Pin
  <2>2. QED
    BY <2>1, PinTypes DEF Pinned
<1>3. ReachedInv'
  BY <1>2 DEF ReachedInv, ClosedSoFar
<1>4. QED
  BY <1>1, <1>3 DEF AheadInv, ConflictInv

(* Until a line adds to the plan it is reached as it was; the lines that    *)
(* are fetched are those of the release that is visited.                    *)
LEMMA TakeReaches ==
  ASSUME TypeOK, ShapeInv, PhaseInv, ReachedInv,
         Take \/ Fetch \/ FetchFails \/ EndOfLines \/ EndOfQueue,
         Pinned' = Pinned, SpelledTwice' <=> SpelledTwice
  PROVE  AheadInv' /\ ReachedInv' /\ ConflictInv'
<1>1. /\ phase \in Walking /\ plan' = plan /\ world' = world
      /\ phase' \in Walking \cup {"noMetadata", "count"}
  BY DEF Walking, Take, Fetch, FetchFails, EndOfLines, EndOfQueue, Go, walk
<1>2. AheadInv'
  <2>1. CASE Fetch
    BY <2>1, WorldTypes DEF AheadInv, Fetch, Go, Exists
  <2>2. CASE ~Fetch
    BY <2>2 DEF AheadInv, Take, FetchFails, EndOfLines, EndOfQueue, Go
  <2>3. QED
    BY <2>1, <2>2
<1>3. ConflictInv'
  BY <1>1 DEF ConflictInv, Walking
<1>4. CASE phase' = "noMetadata"
  BY <1>4, NoPlanNoReach DEF Walking, Counting
<1>5. CASE phase' # "noMetadata"
  <2>1. \A n : Fetched(n) => Fetched(n)'
    BY <1>5 DEF Fetched, TypeOK, Take, Fetch, FetchFails, EndOfLines, EndOfQueue, Go, walk
  <2>2. ReachedInv'
    BY <1>1, <2>1, ReachedStays
  <2>3. QED
    BY <1>2, <1>3, <2>2
<1>6. QED
  BY <1>4, <1>5

(* The line that is read is one of the lines of the release that is visited. *)
LEMMA HeadIsLine ==
  ASSUME TypeOK, ShapeInv, PhaseInv, PlanInv, QueueInv, AheadInv, ~SpelledTwice,
         phase = "lines", lines # <<>>, Accepted(Head(lines))
  PROVE  /\ curr[1] \in DOMAIN plan /\ Fetched(curr[1])
         /\ Head(lines) \in LinesOf(curr[1])
<1>1. curr[1] \in visited \ skipped /\ curr = <<curr[1], curr[2]>>
  BY DEF PhaseInv, Releases
<1>2. curr[1] \in DOMAIN plan /\ Fetched(curr[1])
  BY <1>1 DEF TypeOK, Fetched
<1>3. VersionOf(curr[1]) = curr[2]
  BY <1>2 DEF PlanInv, QueueInv, Walking
<1>4. 1 \in 1..Len(lines) /\ Head(lines) = lines[1]
  BY DEF ShapeInv
<1>5. PICK j \in DOMAIN world.requires[curr] : world.requires[curr][j] = Head(lines)
  BY <1>4 DEF AheadInv
<1>6. Head(lines) \in LinesOf(curr[1])
  BY <1>1, <1>3, <1>5 DEF LinesOf, AheadInv
<1>7. QED
  BY <1>2, <1>6

(* So what it adds is reached, and what it conflicts with is in the        *)
(* reference.                                                              *)
LEMMA ReadReaches ==
  ASSUME TypeOK, ShapeInv, PhaseInv, PlanInv, QueueInv, AheadInv, ReachedInv,
         lines # <<>>,
         \/ PassOver
         \/ Known(Head(lines))
         \/ Add(Head(lines))
         \/ AddFails(Head(lines)),
         Pinned' = Pinned, SpelledTwice' <=> SpelledTwice
  PROVE  AheadInv' /\ ReachedInv' /\ ConflictInv'
<1>1. /\ phase = "lines" /\ world' = world /\ skipped' = skipped /\ curr' = curr
      /\ visited' = visited /\ phase' \in {"lines", "conflict", "noMetadata"}
      /\ lines' = Tail(lines) \/ phase' = "noMetadata"
  BY DEF PassOver, Known, Add, AddFails, Reading, Go, walk
<1>2. AheadInv'
  <2> SUFFICES ASSUME phase' = "lines", NEW i \in 1..Len(lines')
               PROVE  \E j \in DOMAIN world.requires[curr] :
                        world.requires[curr][j] = lines'[i]
    BY <1>1 DEF AheadInv, Exists
  <2>1. i + 1 \in 1..Len(lines) /\ lines'[i] = lines[i + 1]
    BY <1>1 DEF ShapeInv
  <2>2. QED
    BY <1>1, <2>1 DEF AheadInv
<1>3. CASE AddFails(Head(lines))
  BY <1>3, NoPlanNoReach DEF AddFails, Go, Walking, Counting
<1>4. CASE PassOver \/ Known(Head(lines))
  <2>1. plan' = plan /\ \A n : Fetched(n) => Fetched(n)'
    BY <1>1, <1>4 DEF PassOver, Known, Fetched
  <2>2. ReachedInv'
    BY <1>1, <2>1, ReachedStays DEF Walking
  <2>3. ConflictInv'
    <3> SUFFICES ASSUME phase' = "conflict", ~SpelledTwice'
                 PROVE  \E n \in DOMAIN plan : \E line \in LinesOf(n)' :
                          line.strict \notin {NoVersion, VersionOf(line.name)'}
      BY <2>1 DEF ConflictInv
    <3>1. Known(Head(lines)) /\ Conflicts(Head(lines))
      BY <1>1, <1>4 DEF PassOver, Known, Go
    <3>2. PICK n, line : n = curr[1] /\ line = Head(lines)
      OBVIOUS
    <3>3. n \in DOMAIN plan /\ line \in LinesOf(n)
      BY <1>1, <3>1, <3>2, HeadIsLine DEF Known, Reading
    <3>4. \A m : VersionOf(m)' = VersionOf(m)
      BY <1>1, <2>1 DEF VersionOf
    <3>5. LinesOf(n)' = LinesOf(n)
      BY <1>1, <3>4 DEF LinesOf, Exists, Accepted
    <3>6. line.strict \notin {NoVersion, VersionOf(line.name)}
      BY <1>1, <3>1, <3>2 DEF Known, Conflicts, PlanInv, Walking
    <3>7. QED
      BY <3>3, <3>4, <3>5, <3>6
  <2>4. QED
    BY <1>2, <2>2, <2>3
<1>5. CASE Add(Head(lines))
  <2>1. PICK new : new = Head(lines).name
    OBVIOUS
  <2>2. /\ DOMAIN plan' = DOMAIN plan \cup {new}
        /\ \A n \in DOMAIN plan : plan'[n] = plan[n]
        /\ phase' = "lines"
    BY <1>5, <2>1, AddTypes DEF Add, Reading
  <2>3. ReachedInv'
    <3> SUFFICES ASSUME ~SpelledTwice', NEW C \in SUBSET Names, ClosedSoFar(C)'
                 PROVE  DOMAIN plan \cup {new} \subseteq C
      BY <2>2 DEF ReachedInv
    <3>1. \A n : Fetched(n)' <=> Fetched(n)
      BY <1>1, <2>2 DEF Fetched
    <3>2. Pinned \subseteq DOMAIN plan
      BY <1>1 DEF PlanInv, Walking
    <3>3. \A n : VersionOf(n)' = VersionOf(n)
      BY <1>1, <2>2, <3>2 DEF VersionOf
    <3>4. \A n : LinesOf(n)' = LinesOf(n)
      BY <1>1, <3>3 DEF LinesOf, Exists, Accepted
    <3>5. ClosedSoFar(C)
      BY <3>1, <3>4 DEF ClosedSoFar
    <3>6. DOMAIN plan \subseteq C
      BY <1>1, <3>5 DEF ReachedInv, Walking
    <3>7. /\ curr[1] \in DOMAIN plan /\ Fetched(curr[1])
          /\ Head(lines) \in LinesOf(curr[1])
      BY <1>1, <1>5, HeadIsLine DEF Add, Reading
    <3>8. new \in C
      BY <2>1, <3>5, <3>6, <3>7 DEF ClosedSoFar
    <3>9. QED
      BY <3>6, <3>8
  <2>4. ConflictInv'
    BY <2>2 DEF ConflictInv
  <2>5. QED
    BY <1>2, <2>3, <2>4
<1>6. QED
  BY <1>3, <1>4, <1>5

(* What follows the walk changes nothing of it. *)
LEMMA ReachedKept ==
  ASSUME AheadInv, ReachedInv, ConflictInv, UNCHANGED walk, world' = world,
         Pinned' = Pinned, SpelledTwice' <=> SpelledTwice,
         \/ phase' = phase
         \/ phase \in Counting /\ phase' \in Counting \cup {"noWheel"}
  PROVE  AheadInv' /\ ReachedInv' /\ ConflictInv'
<1>1. /\ plan' = plan /\ visited' = visited /\ curr' = curr /\ lines' = lines
      /\ skipped' = skipped
  BY DEF walk
<1>2. \A n : VersionOf(n)' = VersionOf(n) /\ LinesOf(n)' = LinesOf(n)
  <2>1. \A n : VersionOf(n)' = VersionOf(n)
    BY <1>1 DEF VersionOf
  <2>2. QED
    BY <1>1, <2>1 DEF LinesOf, Exists, Accepted
<1>3. AheadInv'
  BY <1>1 DEF AheadInv, Exists, Counting
<1>4. ConflictInv'
  BY <1>1, <1>2 DEF ConflictInv, Counting
<1>5. \A n : Fetched(n) => Fetched(n)'
  BY <1>1 DEF Fetched, Counting
<1>6. CASE phase \in Walking \cup Counting \cup {"conflict"}
  BY <1>1, <1>3, <1>4, <1>5, <1>6, ReachedStays
<1>7. CASE phase \notin Walking \cup Counting \cup {"conflict"}
  BY <1>7, NoPlanNoReach DEF Counting
<1>8. QED
  BY <1>6, <1>7

-----------------------------------------------------------------------------
(* The inductive invariant.                                                *)

(* It holds when a launch begins: nothing is planned, missing or fresh.    *)
LEMMA InitIInv ==
  ASSUME Init
  PROVE  IInv
<1> USE DEF Init
<1>1. Cardinality(runtime) = 0
  BY FS_EmptySet
<1>2. TypeOK
  BY <1>1, ResolverAssumption DEF TypeOK, Phases
<1>3. ShapeInv
  BY ResolverAssumption DEF ShapeInv, VersionSet
<1>4. RuntimeInv /\ PhaseInv /\ WheelInv
  BY DEF RuntimeInv, PhaseInv, WheelInv, Walking
<1>5. PlanInv /\ QueueInv /\ LinesInv /\ InstallInv
  BY DEF PlanInv, QueueInv, LinesInv, InstallInv, Walking, Counting
<1>6. AheadInv /\ ReachedInv /\ ConflictInv
  BY DEF AheadInv, ReachedInv, ConflictInv, Walking, Counting
<1>7. QED
  BY <1>2, <1>3, <1>4, <1>5, <1>6 DEF IInv

(* Every step preserves it. *)
LEMMA NextIInv ==
  ASSUME IInv, Next
  PROVE  IInv'
<1> USE DEF IInv
<1>1. /\ world' = world /\ manifest' = manifest
      /\ Pinned' = Pinned /\ Requested' = Requested
      /\ SpelledTwice' <=> SpelledTwice
  BY StepConstants
<1>2. CASE Finding /\ UNCHANGED <<walk, install>>
  <2>1. phase' \in {"badVersion", "pin", "ask", "declined"}
    BY <1>2 DEF Finding, BadVersion, FindRuntime, AskPythonRuntime, Go
  <2>2. PlanInv' /\ QueueInv' /\ LinesInv' /\ InstallInv'
    BY <2>1 DEF PlanInv, QueueInv, LinesInv, InstallInv, Walking, Counting
  <2>3. WheelInv'
    BY <1>1, <1>2 DEF WheelInv, install
  <2>4. AheadInv' /\ ReachedInv' /\ ConflictInv'
    BY <2>1, NoPlanNoReach DEF Walking, Counting
  <2>5. QED
    BY <1>2, <2>2, <2>3, <2>4, FindingTypes
<1>3. CASE Walk /\ ~EndOfQueue /\ UNCHANGED <<runtimes, runtime, install>>
  <2>1. PlanInv' /\ QueueInv' /\ LinesInv' /\ InstallInv'
    <3>1. CASE Pin
      BY <3>1, PinKeeps
    <3>2. CASE Take
      BY <1>1, <3>2, TakeKeeps
    <3>3. CASE Fetch \/ FetchFails
      BY <1>1, <3>3, FetchKeeps
    <3>4. CASE \/ EndOfLines
               \/ PassOver
               \/ lines # <<>> /\ (Known(Head(lines)) \/ AddFails(Head(lines)))
      BY <1>1, <3>4, ReadKeeps
    <3>5. CASE lines # <<>> /\ Add(Head(lines))
      BY <1>1, <3>5, AddKeeps
    <3>6. \/ Pin
          \/ Take
          \/ Fetch \/ FetchFails
          \/ EndOfLines
          \/ PassOver
          \/ lines # <<>> /\ (Known(Head(lines)) \/ AddFails(Head(lines)))
          \/ lines # <<>> /\ Add(Head(lines))
      BY <1>3 DEF Walk
    <3>7. QED
      BY <3>1, <3>2, <3>3, <3>4, <3>5, <3>6
  <2>2. WheelInv'
    BY <1>1, <1>3 DEF WheelInv, install
  <2>3. AheadInv' /\ ReachedInv' /\ ConflictInv'
    <3>1. CASE Pin
      BY <3>1, PinReaches
    <3>2. CASE Take \/ Fetch \/ FetchFails \/ EndOfLines
      BY <1>1, <3>2, TakeReaches
    <3>3. CASE /\ lines # <<>>
               /\ \/ PassOver
                  \/ Known(Head(lines))
                  \/ Add(Head(lines))
                  \/ AddFails(Head(lines))
      BY <1>1, <3>3, ReadReaches
    <3>4. PassOver => lines # <<>>
      BY DEF PassOver
    <3>5. QED
      BY <1>3, <3>1, <3>2, <3>3, <3>4 DEF Walk
  <2>4. QED
    BY <1>3, <2>1, <2>2, <2>3, WalkShape, WalkTypes
<1>4. CASE EndOfQueue
  <2>1. WheelInv'
    BY <1>1, <1>4 DEF WheelInv, EndOfQueue
  <2>2. AheadInv' /\ ReachedInv' /\ ConflictInv'
    BY <1>1, <1>4, TakeReaches
  <2>3. QED
    BY <1>1, <1>4, <2>1, <2>2, EndOfQueueTypes, EndOfQueueKeeps
<1>5. CASE Installing /\ UNCHANGED walk
  BY <1>1, <1>5, InstallingTypes, InstallingKeeps, ResultStays, ReachedKept
<1>6. CASE Others /\ UNCHANGED <<runtimes, runtime, phase, walk>>
  <2>1. /\ TypeOK' /\ ShapeInv' /\ RuntimeInv' /\ PhaseInv' /\ WheelInv'
        /\ DOMAIN pool \subseteq DOMAIN pool'
        /\ missing' = missing /\ uncounted' = uncounted
    BY <1>6, OthersTypes
  <2>2. InstallInv'
    BY <1>6, <2>1 DEF InstallInv, InPool, walk
  <2>3. UNCHANGED walk /\ phase' = phase
    BY <1>6
  <2>4. /\ PlanInv' /\ QueueInv' /\ LinesInv'
        /\ AheadInv' /\ ReachedInv' /\ ConflictInv'
    BY <1>1, <2>3, ResultStays, ReachedKept
  <2>5. QED
    BY <2>1, <2>2, <2>4
<1>7. QED
  BY <1>2, <1>3, <1>4, <1>5, <1>6, StepFrame

(* So does a step in which the launch does nothing. *)
LEMMA StutterIInv ==
  ASSUME IInv, UNCHANGED vars
  PROVE  IInv'
<1> USE DEF IInv, vars
<1>1. /\ Pinned' = Pinned /\ Requested' = Requested
      /\ SpelledTwice' <=> SpelledTwice
  BY StepConstants
<1>2. TypeOK' /\ ShapeInv' /\ WheelInv'
  BY <1>1 DEF TypeOK, ShapeInv, WheelInv, walk, install
<1>3. RuntimeInv' /\ PhaseInv' /\ InstallInv'
  BY <1>1 DEF RuntimeInv, PhaseInv, InstallInv, InPool, walk, install
<1>4. /\ PlanInv' /\ QueueInv' /\ LinesInv'
      /\ AheadInv' /\ ReachedInv' /\ ConflictInv'
  <2>1. UNCHANGED walk /\ phase' = phase /\ world' = world
    OBVIOUS
  <2>2. QED
    BY <1>1, <2>1, ResultStays, ReachedKept
<1>5. QED
  BY <1>2, <1>3, <1>4

-----------------------------------------------------------------------------
(* Theorems.                                                               *)

(* The inductive invariant holds in every state of every launch.           *)
THEOREM Invariance == Spec => []IInv
<1>1. Init => IInv
  BY InitIInv
<1>2. IInv /\ [Next]_vars => IInv'
  BY NextIInv, StutterIInv
<1>3. QED
  BY <1>1, <1>2, PTL DEF Spec

(* Types: at most one runtime is selected, and an installed one; what is   *)
(* visited and counted is planned, and what is in the pool is offered by   *)
(* PyPI.                                                                   *)
THEOREM TypeCorrect == Spec => []TypeOK
<1>1. IInv => TypeOK
  BY DEF IInv
<1>2. QED
  BY <1>1, Invariance, PTL

(* For every world, manifest, pool and order of the walk: an application   *)
(* starts with every package of its plan in the pool, in that version.     *)
THEOREM PlanIsThere == Spec => []PlanIsInstalled
<1>1. IInv => PlanIsInstalled
  BY DEF IInv, PlanIsInstalled, InstallInv, PhaseInv, Counting
<1>2. QED
  BY <1>1, Invariance, PTL

(* A plan that was returned breaks a strict requirement only by the line   *)
(* that brought the package in.                                            *)
THEOREM StrictRequirementsMet == Spec => []StrictUnlessFirst
<1>1. IInv => StrictUnlessFirst
  BY DEF IInv, StrictUnlessFirst, Resolved, LinesInv, Counting, Met, Ahead
<1>2. QED
  BY <1>1, Invariance, PTL

(* Nothing that the packages of a returned plan require is missing from it, *)
(* and its versions are the pinned and the latest ones.                     *)
LEMMA ClosedInv ==
  ASSUME IInv
  PROVE  PlanIsClosed
<1>1. SUFFICES ASSUME Resolved, ~SpelledTwice
               PROVE  /\ Pinned \subseteq DOMAIN plan
                      /\ \A n \in DOMAIN plan :
                           /\ plan[n] = VersionOf(n)
                           /\ \A line \in LinesOf(n) : line.name \in DOMAIN plan
  BY DEF PlanIsClosed
<1>2. phase \in Counting
  BY <1>1 DEF Resolved, Counting
<1>3. /\ Pinned \subseteq DOMAIN plan
      /\ \A n \in DOMAIN plan : plan[n] = VersionOf(n)
  BY <1>2 DEF IInv, PlanInv
<1>4. DOMAIN plan \subseteq visited
  BY <1>2 DEF IInv, QueueInv
<1>5. \A n \in visited : \A line \in LinesOf(n) : Met(n, line)
  BY <1>1, <1>2 DEF IInv, LinesInv, Ahead, Counting
<1>6. QED
  BY <1>3, <1>4, <1>5 DEF Met

(* What a launch installs, the interpreter it selected can load, but for   *)
(* what the check of a wheel does not look at.                             *)
THEOREM FreshWheelsAreLoadable == Spec => []FreshWheelsLoad
<1>1. ASSUME IInv
      PROVE  FreshWheelsLoad
  <2>1. SUFFICES ASSUME NEW r \in fresh, NEW v \in runtime, v.major = 3
                 PROVE  LoadableAsRead(pool[r], v)
    BY DEF FreshWheelsLoad
  <2>2. r \in DOMAIN pool /\ IsCompatibleWindowsX64(pool[r], Requested)
    BY <1>1 DEF IInv, WheelInv
  <2>3. pool[r] \in WheelTags
    <3>1. pool[r] \in world.wheels[r] /\ r \in DOMAIN world.wheels
      BY <1>1, <2>2, WorldTypes DEF IInv, TypeOK, ShapeInv
    <3>2. QED
      BY <1>1, <3>1, WorldTypes DEF IInv
  <2>4. v.major = Requested.major /\ v.minor = Requested.minor /\ v \in VersionSet
    BY <1>1 DEF IInv, RuntimeInv, TypeOK, ShapeInv
  <2>5. IsCompatibleWindowsX64(pool[r], v)
    BY <2>2, <2>4 DEF IsCompatibleWindowsX64, Exact, Expected
  <2>6. QED
    BY <2>1, <2>3, <2>4, <2>5, CompatibleIsLoadable
<1>2. QED
  BY <1>1, Invariance, PTL

(* In whatever order the pins and the queue are walked, the plan is the    *)
(* pins and the latest versions of everything they lead to, but for what   *)
(* is behind an installed package whose metadata could not be had.         *)
THEOREM PlanIsTheReference == Spec => []PlanIsReference
<1>1. ASSUME IInv
      PROVE  PlanIsReference
  <2>1. SUFFICES ASSUME Resolved, ~SpelledTwice
                 PROVE  plan = [n \in Reach |-> VersionOf(n)]
    BY DEF PlanIsReference
  <2>2. phase \in Counting
    BY <2>1 DEF Resolved, Counting
  <2>3. /\ ClosedUnderLines(Reach) /\ Reach \in SUBSET Names
        /\ ClosedUnderLines(DOMAIN plan) => Reach \subseteq DOMAIN plan
    BY <1>1, ReachIsLeast DEF IInv
  <2>4. PlanIsClosed
    BY <1>1, ClosedInv
  <2>5. Reach \subseteq DOMAIN plan
    BY <2>1, <2>3, <2>4 DEF PlanIsClosed, ClosedUnderLines
  <2>6. ClosedSoFar(Reach)
    BY <2>3 DEF ClosedSoFar, ClosedUnderLines
  <2>7. DOMAIN plan \subseteq Reach
    BY <1>1, <2>1, <2>2, <2>3, <2>6 DEF IInv, ReachedInv
  <2>8. \A n \in DOMAIN plan : plan[n] = VersionOf(n)
    BY <2>1, <2>4 DEF PlanIsClosed
  <2>9. plan \in [DOMAIN plan -> Versioned]
    BY <1>1 DEF IInv, ShapeInv
  <2>10. QED
    BY <2>5, <2>7, <2>8, <2>9
<1>2. QED
  BY <1>1, Invariance, PTL

(* Pins and latest versions that meet every strict requirement are never   *)
(* reported as a conflict, in no order of the walk.                        *)
THEOREM ConflictsAreReal == Spec => []NoFalseConflict
<1>1. ASSUME IInv
      PROVE  NoFalseConflict
  <2>1. SUFFICES ASSUME phase = "conflict", ~SpelledTwice
                 PROVE  \E n \in Reach : \E line \in LinesOf(n) :
                          line.strict \notin {NoVersion, VersionOf(line.name)}
    BY DEF NoFalseConflict
  <2>2. ClosedUnderLines(Reach) /\ Reach \in SUBSET Names
    BY <1>1, ReachIsLeast DEF IInv
  <2>3. ClosedSoFar(Reach)
    BY <2>2 DEF ClosedSoFar, ClosedUnderLines
  <2>4. DOMAIN plan \subseteq Reach
    BY <1>1, <2>1, <2>2, <2>3 DEF IInv, ReachedInv
  <2>5. QED
    BY <1>1, <2>1, <2>4 DEF IInv, ConflictInv
<1>2. QED
  BY <1>1, Invariance, PTL
=============================================================================
