# Hrunner: specifications, model checking and proofs

Hrunner gives Windows machines shared Python runtimes and packages. A built application is a small
executable (the *launcher*, `cmd/hlauncher`) with a payload; it finds or starts the *server* (`hrunner
--pipe-server`, `cmd/hrunner`), sends it its manifest over a named pipe, and runs Python with the
paths it gets back. The server installs what is missing into stores that all applications share. A
*manager* (a window, or a command such as `hrunner clean`) shows the stores and removes from them.

This directory models the parts of that program in which order, concurrency, failure and shared
state decide, checks them with TLC, and proves with TLAPS every safety property the passing runs
check: for any number of clients, launchers, processes, packages and failures. Liveness stays with TLC.

## Inventory

| Component | State it keeps | Operations | Talks to | Hard because |
|---|---|---|---|---|
| IPC server `pkg/protocol/server.go` | listener, two atomic counters, idle timer, closed flag, context, shutdown channel, wait group | accept, handle a connection, Add/DoneOperation, checkIdle, timer callback, Close, WaitShutdown | launchers (pipe), the launch handler (callback) | goroutines without a common lock; a timer that races its own cancellation |
| Launch orchestration `cmd/hrunner/main.go` | one handler's local state per request | HandleLaunchRequest; the commands clean, remove, install | all stores, dialogs, launcher | many early returns; several requests at once; crash in the middle |
| Launcher `cmd/hlauncher/main.go` | the answer it waits for; its payload on disk | unpack, probe, spawn, dial, send, receive loop, run | server | fails in a dozen places; shares the pipe's name and the payload directory with other launchers |
| Registry `pkg/registry` | records in memory, `registry.json` | Register, UpdateState, UpdateLastLaunched, Remove, save | server and manager processes, each with a copy | lost updates; a save in several system calls, each of which can fail, under one temporary name |
| Storage `pkg/storage` | none (computes) | reference counts, CleanUnusedPackages, RemoveApplicationAndCleanup | registry copy, pool on disk | two sources of different age |
| Package store `pkg/packages/store.go` | the pool directory | EnsurePackage, InstallWheel, ListAllPackages, RemovePackageVersion | disk, PyPI client | partial directories after a crash or a file in use |
| PyPI client, wheels `pkg/packages/pypi.go`, `wheel.go` | wheel cache | FetchMetadata, DownloadWheel, SelectBestWheel | network, disk | shared temporary files; wheels without a hash; tags matched as substrings |
| Resolver `pkg/resolver` | none (computes) | Resolve | PyPI, pool | order of a Go map; offline shortcuts |
| Runtime store, versions `pkg/runtime` | runtime directories, a lock | Find, DownloadAndInstall; ParseVersion, Compare | network, disk | lock held through downloads; archives nobody publishes a hash of |
| Builder, manifest `pkg/builder`, `pkg/manifest` | output file | Build, ParseRequirementsTxt, Validate | disk | partial output |
| Manager window, dialogs, rendering `pkg/ui` | page, scroll, hit areas | click, render, dialogs | storage, registry | lists that change under a drawn frame |

What makes each correct: the server serves every accepted client to its end, ends exactly when it is
closed and drained, never panics, and ends when it is idle; a launcher is always answered and starts
only what is completely installed; records in the registry tell the truth after crashes and failed
saves; a deletion never takes a package that a recorded application needs. PROJECT.json lists every
hazard at its line with the properties that cover it.

## Modules

| Module | Models | Form |
|---|---|---|
| `ServerLifecycle` | what the server promises its process: listening, closed, exited, and the live sessions | abstract specification |
| `PipeServer` | `server.go`, one step per atomic operation, critical section or channel operation | detailed specification; refines `ServerLifecycle` |
| `LaunchSession` | `HandleLaunchRequest` and the launcher's receive loop, several requests at once | specification |
| `LauncherStartup` | how launchers unpack, find, spawn and reach a server; the pipe's name between processes | specification |
| `SharedStore` | the registry file and the package pool between processes | specification |
| `PoolPromise` | what the stores promise of an item: it appears whole, in one step, and stays | abstract specification |
| `StagedInstall` | EnsurePackage, DownloadWheel, InstallWheel, DownloadAndInstall, with caches, temporary files, staging and locks | detailed specification; refines `PoolPromise` |
| `Versions`, `Wheels` | Python versions and the choice of a runtime; wheel tags and the choice of a wheel | operators |
| `Resolver` | the choices of a launch: interpreter, traversal of the requirements, wheels | specification over `Versions` and `Wheels` |
| `MC*` | finite instances | constants for TLC |
| `PipeServerProofs`, `LaunchSessionProofs`, `LauncherStartupProofs`, `SharedStoreProofs`, `StagedInstallProofs`, `ResolverProofs` | theorems about the module of that name | proofs |
| `ChoiceProofs` | theorems about the operators of `Versions` and `Wheels` | proofs |
| `FiniteOrders` | lemmas about finite orders and chains of sets that those proofs need | proofs |

Definitions named `X_Y` next to a definition `X`, with a comment that begins "Variant", are `X` with
a plausible bug; PROJECT.json's `mutants` says which property finds each. They are part of no
specification.

### PipeServer

`sess[c]` is the program counter of a connection: accepted, counted, timer stopped (`acceptLoop`,
lines 173-194), then `handleClient` from `reading` to `wgDone`. A launch request is
`AddOp` ... `DoneOp`, the bracket of HandleLaunchRequest; what happens between is `LaunchSession`. The
deferred function of `handleClient` is `Uncount`, the three steps of `checkIdle`, `WgDone`.
`helper[h]` is a goroutine that runs a timer callback or a `Close`. `stopIdleTimer` and
`resetIdleTimer` are atomic, as they are under `idleMu`. A timer that has fired is `"off"`: stopping
it does not stop its callback, exactly as `time.Timer.Stop`. `main` is WaitShutdown. Every action
carries `Running`, as the end of `main` ends all goroutines.

`DoneOp` keeps the clamp of DoneOperation (a negative count is set to zero) in one step with the
decrement: `CountersAgree` shows, and `CountersPositive` proves, that the count is never negative
there, so the separate store never runs.

Abstracted: message contents; `Accept` errors other than a closed listener (acceptLoop would return
and leave the process to its idle timer).

### ServerLifecycle

`phase` is listening, closed, exited; `live` the sessions. `PipeServer` implements it with
`live = {c : sess[c] # "none"}` and `phase` read off `listener` and `main`. What it forbids: a session
that begins after the close, an exit before the close, an exit while a session runs.

### LaunchSession

`handler[l]` is the place in HandleLaunchRequest for the launcher `l`, in the order of the code:
exact runtime, compatible runtime, question to the user, resolve, register, confirm, install Python
under the store's write lock, install packages one after the other, mark ready, completion dialog,
LaunchReady, response. `python`, `plan` and `missing` are its local variables `selectedRuntime`,
`plan.AllPackages`, `plan.MissingPackages`. The user's answers and the network's are choices. `Plans`
are the results Resolve can return: `Requires` says what the metadata of each package asks for, every
request for metadata may fail by itself, and an installed package whose metadata cannot be had stays in
the plan while its requirements are not looked at (`Leads(a, S)`, for any set `S` of installed
packages). `inbox[l]` is the pipe in the direction of the launcher, in order; a crash of the server
breaks it. `Respond` sends the response; `"finished"` marks a handler that returned after "Finish".

Abstracted: progress messages (the launcher skips them), times and sizes. Packages stand for a name
with a version. An update of the registry succeeds here and the pool only grows; saves that fail,
removals and deletions are in `SharedStore`.

### SharedStore

`file` and `tmpFile` are `registry.json` and `registry.json.tmp`; `mem[x]` the copy of process `x`,
read at its start and never again. A change is `SaveThen`, followed by the system calls of
`saveLocked`: `OpenTmp` (truncates), `WriteTmp`, `Rename`, and its fallback `RemoveFile`,
`RenameAgain`. Each of them can fail: `OpenTmpFails` (nothing is changed), `WriteTmpFails` (the
temporary file stays half written), the second alternative of `Rename`, that of `RemoveFile` (its
error is ignored), `RenameAgainFails` (`registry.json` may be gone by now). `SaveError` is what the
callers make of an error: a process that is starting ends, a removal deletes nothing, all others
ignore it and go on with the change in memory. On Windows a file that another process has open, as
os.WriteFile opens it, cannot be renamed (`RenamePossible`): such a failure needs no fault of the
system.

`Servers` serve launches one at a time, with or without a runtime to install; `Managers` launch, remove,
clean and install. Deleting a directory is two steps, between which it is `"partial"` and counts as
installed, as in IsPackageInstalled; the deletion can also stop, at its first file (`DeleteBlocked`) or
a later one (`DeleteStops`), and both callers of RemovePackageVersion go on to the next package.

`faults` counts deaths and failing calls. `overlapped`, `unsaved` (processes whose last save failed),
`halved` (packages whose deletion broke off) and `misled` (packages that a process deleted when its
last save had failed) are history variables that make the exceptions of the properties exact.

Abstracted: the states discovered, installing and broken are one, `"registered"`; Deps is fixed per
application (that a launch can rewrite it is `LaunchSession`'s subject); an installation is one step,
for InstallWheel renames a finished directory into the pool; reading the registry is one step.

### LauncherStartup

`pc[l]` is the place of launcher `l` in `main`: unpack the payload, probe (IsServerRunning), look for
hrunner.exe and spawn it, wait in the loop of fifty probes, dial, wait for the answer, run. A server
process is what `ServerLifecycle` says of it, with the two steps by which a timer's callback closes it:
`Decide` (it reads the counters) and `Close`. The pipe's instances are abstracted to what go-winio
tells a caller: a first instance is created only if no instance of the name exists (`Listen`,
`ListenFails`), and a session that outlives its server's listener is such an instance (`Lingering`); a
dialling client gets an accepting instance, waits while there is one that is busy, and fails if there
is none. A connection's kind says which call made it: the first probe, the wait loop's, or Dial; the
first two are hung up at once and still pass through the server's accept loop.

A process that was spawned may fail before it listens (`StartFails`: NewHrunnerCore reads the registry,
which may be torn), or find the name taken (`ListenFails`). Hrunner may be installed and yet not start
(`SpawnFails`).

All launchers of an application rewrite its payload directory in place. `broken[a]` are the launchers
that broke off unpacking, because a file could not be written (`UnpackFails`) or because they were
killed, and left a half file that is still there; `later[l]` are those of them that broke off after `l`
had begun. A launcher that gets through has rewritten every file that was half when it began; of those
broken since, it may have rewritten any (`Unpacked` chooses). `met` is a history variable, what a
launcher met since its last successful probe: a server between its decision and its end, one that was
killed, or one it spawned that failed as it started.

**Timing assumptions.** The idle timeout of five seconds does not run out between two adjacent prompt
steps of a launcher, after its accepted probe and before its dial, or between a wait-loop probe and the
next (`Soon`); it may run out at any other moment, in particular just as a first connection comes in. A
server that listens takes a connection within the five seconds of the wait loop or of Dial: both fail
only when no process listens (`WaitEnds`, `DialFails`). How long a process takes to *start* is not
assumed: the wait may end while the spawned process is still starting.

`Life(p)` reads `ServerLifecycle` off process `p`, as `PipeServer` reads it off one server.
`KeepsLifecycle` says that every process, from its listening to its end, takes only steps of it unless
it is killed: the servers that launchers are shown to work with promise what `PipeServer` keeps. It is
proved for every instance (`ServersKeepTheirPromise`); no run lists it.

Abstracted: what the server does between request and answer (`LaunchSession`), file contents, and the
text of the messages with which a launcher fails.

### StagedInstall and PoolPromise

A request installs one item, a package version or a runtime, in a process. `cache[i]` and `tmp[i]` are
the item's file in the cache directory and its `<file>.tmp`, as rows of chunks that are `"good"`,
`"bad"` (damaged, as the checksums of a zip archive reveal), `"hole"` (what a truncation by another
writer leaves) or, for the last one, `"other"`: an archive in order, but another than the one asked
for, such as a runtime without python.exe. `pool[i]` is the item's directory. The steps are those of the
code: look into the pool without the lock (packages) or with it (runtimes), look into the cache, hash a
cached wheel or open a cached archive, request, truncate, receive chunk by chunk at the request's own
offset, verify (DownloadWheel compares the hash of what it received, downloadFile opens what is in the
file), remove the old file, rename, remove the temporary file on the way out, lock, look again, extract
into a staging directory, remove the target, rename. On Windows an open file can be neither removed nor
renamed: `Writing`, `Reading`. A crash kills a process with its requests; its locks go, the files stay.

A wheel in `Unhashed` is one that PyPI lists without a SHA-256: it is taken from the cache if its size
is right, and from the network as it comes (`LookInCache`, `Accepted`). Nobody publishes a hash of a
runtime that the code looks at: an archive that opens is accepted. One that opens but cannot be
extracted is discarded (`BadArchive`); one that can be extracted but has no python.exe fails the request
and stays in the cache (`Extract`, runtime.go:188-192).

`disturbed`, `raced`, `contested` are history variables that make the exceptions of the properties
exact: a request that met a fault of its own or another request for its item; an item that two
requests were at; one that two *processes* were at, which no lock covers. `PoolPromise` is the
abstract specification: an item goes from absent to whole in one step and stays, unless it was
contested; an item that is `unsure` (unhashed, or a wheel whose temporary file two requests shared) may
be another than the one asked for, but is complete and appears in one step all the same.

Abstracted: which wheel is chosen (`Resolver`). The staging directory has a name of its own for each
call (the time is in it), so that no later call meets a dead call's directory: it stays as litter, and
`staging[r]` is that of the present call. An archive that is accepted for a runtime and has a python.exe
is taken for the runtime that was asked for.

### Versions, Wheels, Resolver

`Versions` has what Validate accepts against what ParseVersion accepts, IsCompatible, Compare and Find.
`Wheels` has IsCompatibleWindowsX64, WheelScore and SelectBestWheel (its sort is not stable, so any
wheel of the highest score may be taken). A wheel's three tags are rows or sets of tags, as a file name
may join several with dots; a tag is its letters, the number after them, and what follows the number.
`Contains` is strings.Contains on that: it finds `cp31` in `cp312` and `cp313` in `cp313t`, and in any
tag of a joined one. Against the choice stands `Loadable`, the meaning of the tags (PEP 425, PEP 384)
for the usual build of CPython; `Overlooked` lists, for one combination of a wheel's tags, what the
check lets pass all the same.

`Resolver` walks HandleLaunchRequest's choices in order: interpreter, Resolve line by
line with its queue, the count of what is missing, EnsurePackage for each of it. The pinned
dependencies are a Go map, iterated twice: `Pin` chooses two orders. Every request may fail; other
launches may install for Python versions of their own. `world` is PyPI: releases with their lines,
latest versions and offered wheels. `first`, `skipped` and `fresh` are history variables.

Abstracted: version strings are compared and never parsed by Resolve, so they are numbers here. That
includes what follows the `==` of a requirement: `==1.*`, `==1.0,<2` and, against `1.0`, `==1.0.0` are
strings that no planned version equals, so the code reports a conflict, and so does the reference of
`NoFalseConflict`, which compares as the code does. The property is about the order of the walk, not
about PEP 440. Markers are kept as far as ParseRequiresDist tells them apart.

## Runs

| Run | Instance | Shows |
|---|---|---|
| `server_live` | 2 clients, 2 helpers; 69 858 states | counters, wait group, single signal, drained exit; a closing server exits; a countdown leads to the exit; refinement of `ServerLifecycle` with its fairness |
| `server_lost_timer` | the same | **violation**: an idle server may stay for ever |
| `launch_serving` | 2 launchers, 2 applications, a chain of 3 packages that the one enters at its head and the other in its middle, 2 runtimes, 1 crash; 298 026 states | what runs is complete, records tell the truth, every request is answered except after "Finish", in front of an open dialog, or behind a runtime download that does not end |
| `launch_finish` | the same, no crash | **violation**: after "Finish" the launcher waits for ever |
| `launch_offline` | the same, no crash | **violation**: an offline relaunch runs without installed requirements |
| `launcher_start` | 2 launchers of one application, 2 processes, 1 kill; 433 902 states | one process holds the pipe; a launcher fails for one of four causes; what runs keeps its server, and has whole files but for later unpackings; a launcher settles unless its server does not answer |
| `store_shared` | 1 server, 1 manager, 2 applications that share one of 2 packages; 3 faults in histories of one process at a time, none in those with overlap; 4 161 452 states | without overlap: saves are durable or known to have failed, no torn file, ready applications complete, only unreferenced packages deleted; with or without: half a package is being deleted, or its deletion broke off |
| `store_stale_clean` | the same, no fault | **violation**: an old manager cleans a new application's packages away |
| `store_registry_vanish` | the same, no fault | **violation**: two concurrent saves lose or tear `registry.json` |
| `install_pool` | 2 requests in a server or beside it, 1 wheel with a hash, 1 without, 1 runtime, files of 2 chunks, 1 crash; 673 507 states | items appear complete and at once (refinement of `PoolPromise`); a request alone succeeds, but for the left-over files that the property names; caches are verified; requests end unless a runtime's download stalls |
| `resolver_plan` | 3 packages; 36 graphs of requirements and 10 offers of wheels, 7 manifests, 2 sets of runtimes, 1 foreign installation; 169 267 states | the plan is the reference closure in every order; conflicts are real (string by string) and complete but for the introducing line; what is installed loads but for what the check overlooks; every launch ends |
| `resolver_pool` | the same | **violation**: an application starts with a wheel that was chosen for another Python version |

**Bounds.** Two clients let one be accepted while the other works or leaves, which is every pair of
races on the counters; two helpers let a callback overlap a `Close` (the interest of a third is one
more caller stopped by the guard, and the proofs cover any number of both). Two launchers are enough
for every pairwise interference of requests, and they choose their applications freely, so both the
same and different ones occur; runtimes start as any subset. On a chain of three packages a plan can
be the whole closure, the pins alone, or something in between. One crash suffices there as a second one starts from a state
with no process memory, i.e. from a disk the first one could have left.

In `SharedStore` the two packages are one that is shared and one that is not. In histories in which one
process runs after the other, three faults let a save fail with its fallback and the process that goes
on meet another. In those in which processes overlap there are none (`MaxSharedFaults`): one
takes the run from 4 to more than 24 million states. What faults do to overlapping processes is covered by the theorems,
in which both bounds are arbitrary; only `PartialIsAttended` claims something of such histories.

In `LauncherStartup` a second process is what a launcher spawns while the first lingers; launchers
start again and again, so that one kill is met in every state. A launcher that breaks off unpacking
needs no kill. In `StagedInstall` two chunks are the least with which a file can be half written,
overwritten at another offset, or falsified at its end (the archive's directory) or before it; both
requests may be for the same item or not, in one process or two, and retry for ever. In `Resolver`
three packages allow a cycle, a diamond and a chain; package `a` has a second spelling; pins include a
version that is not on PyPI. `MaxCrashes`, `MaxFaults`, `MaxSharedFaults`, `MaxKills` and `MaxOthers`
are the only counter bounds.

**Fairness.** `PipeServer`: weak fairness for every goroutine's own steps (the Go scheduler runs what
can run; an armed timer fires), and strong fairness for a client's hanging up, because a handler leaves
its read to work and comes back to it. That includes the end of a session's work: a runtime download
that stalls for ever keeps a closed server from exiting, and `ClosedServerExits` is about servers whose
dialogs are answered and whose downloads end. Nothing is assumed of clients' connecting or asking.

`LaunchSession`: strong fairness for a handler's own steps (`HandlerRuns`), as `sync.RWMutex` does not
starve a waiter, and weak fairness for the launcher's reads. The download of a runtime
(`http.DefaultClient` has no timeout) and the answers to dialogs are *not* assumed to come:
`AnsweredUnlessFinished` excepts, as `HeldUp`, a launcher whose dialog is open and one that waits
while some handler downloads a runtime. Launching, ending and killing programs is never assumed.

`LauncherStartup`: weak fairness for the processes' steps (starting or failing to, accepting, closing,
exiting), and strong fairness for what a launcher does by itself (`Proceeds`), which retries a busy pipe
every ten milliseconds. A server's answer, the ends of sessions and of programs, the answer to the
dialog of a missing Hrunner and closing for idleness are not assumed, so that `Settles` excepts a
launcher in a session whose server does not answer (as after "Finish") and one in front of that dialog.

`StagedInstall`: weak fairness for local steps, strong for locks, weak for the
network of *wheels* only, whose HTTP client has a timeout; runtimes are downloaded through
http.DefaultClient, which has none, so their requests are only shown to end unless a download stalls.
`Resolver`: weak fairness of its steps; a request to PyPI ends within thirty seconds. `SharedStore` has
no liveness: its processes start and end as users like.

**Deadlock** is checked in every run but the two of `Resolver`, whose launch ends; a server that has
exited and a session in which everybody is done are explicit stuttering steps (`Terminated`,
`AllOver`).

## What the violations mean

Six runs state what a document, a comment or a test says and find the code doing otherwise;
PROJECT.json's `findings` quotes the lines. In short: (1) `checkIdle` is not atomic, so the last
countdown can be cancelled; (2) "Finish" sends no message that ends the launcher's wait; (3) `Resolve`
without network returns a plan without transitive requirements, and the record is overwritten with it;
(4) reference counts come from a registry copy as old as the process; (5) the temporary file of the
registry is shared between processes; (6) the pool knows a package by name and version only, so a
wheel for one Python version serves applications of every other.

Divergences that the modelling met and that appear as exceptions in properties, or not at all:

- A launch request registers its application anew as `discovered`, although docs/architecture.md:107
  lets only a removal leave Ready (`Register` of `LaunchSession`).
- docs/faq.md says that an application wakes Hrunner if it is not running. A session of a closed
  server holds the pipe's name, the spawned server cannot listen, and the launcher times out:
  `FailsOnlyForCause` says exactly when a launcher fails.
- The launcher of a second instance rewrites the payload under the first, and leaves half files there if
  it fails or is killed: `RunsOnWholeFiles`.
- registry.go:122 calls the save atomic. Its fallback removes the file first; if the second rename then
  fails, `registry.json` is gone until the process saves again, and most callers ignore the error:
  `Durable` and `FileSound`, with the exceptions they name.
- A deletion that stops half way leaves a directory that counts as installed, and the next package is
  gone on with: `PartialIsAttended` excepts it until a deletion of that package is completed.
- docs/faq.md:66 says that downloads are verified with SHA-256 before they are committed, and that
  corrupted files are detected and discarded. A wheel that PyPI lists without a hash is not verified, and
  a runtime archive only opened. A damaged wheel of that kind, and a runtime archive without python.exe,
  are kept in the cache and fail every later request for them: the exceptions of `SoloSucceeds`.
- A strict requirement is not compared when its line is the one that introduces the package, which
  is then taken in its latest version: `StrictUnlessFirst`. Whether Resolve succeeds can therefore
  depend on the order of a map.
- A name that a manifest pins in two spellings is walked in one version and planned in the other:
  excluded by `SpelledTwice`.
- A requirement with extras in brackets is passed over (`Accepted`). What follows a `==` is compared as
  a string: `==1.*` and `==1.0,<2` conflict with every planned version, `==1.0.0` with `1.0`. These are
  conflicts for `NoFalseConflict` as well.
- Tags are matched as substrings. A free-threaded wheel (`cp313-cp313t-win_amd64`) is taken for the usual
  interpreter and scores 100, although the comment at wheel.go:87 means `cp313-cp313-win_amd64`; a wheel
  for `py313` passes for every Python 3; an abi3 wheel is taken whatever minimum it states; of a generic
  wheel (`py3`) for any platform the ABI tag is not looked at (wheel.go:60). All are cases of
  `Overlooked`, and excepted in `FreshWheelsLoad`.
- Validate accepts a pre-release Python version that ParseVersion rejects at the launch (`BadVersion`).
- The manager's `maxScrollY` shrinks as the page is scrolled; see the hazard at manager_native.go:644.

## Proofs

Each proof module proves an inductive invariant, `IInv`, of its specification (`Invariance`), and from
it every invariant, action property and refinement that the passing runs check. The `IInv` were
checked by TLC over the states of the runs before they were proved.

**Assumptions.** All constants are arbitrary but for the assumptions named in the modules, which TLC
evaluates in the runs: the clients of a server are finitely many, as are a launch's Python versions
and the package names and pins of a resolution (they are counted, or a best one is chosen); there is
an application and a process to speak of; a wheel is no runtime; and in `StagedInstall` at most one
process is a *server*. The last is what the pipe's name is for: `OneHolder` shows that all sessions
belong to one process. Managers beside it, which also install packages, are any number.

**PipeServer.** `WgAgrees` needs that at most one connection is being admitted and that acceptLoop has
not returned while one is (`AdmitInv`): otherwise `wg` could be zero with a handler about to be added.
`SignalledOnce` needs that only one goroutine is past the guard of `Close` and that nothing is torn
down before the guard is taken (`CloseInv`). `CountersAgree` needs to know where in the deferred
function a handler is (`SessInv`). `ExitDrained` needs that `wg` was zero when `main` returned and
that no admission can follow (`MainInv`, `AdmitInv`). The counters are compared with cardinalities:
`CardinalityChange` says what adding or removing one element does, `SessionMove` applies it to the
three sets that one session's step can change, `CountersMove` concludes for the counters. `Refinement`
maps each action to `Join`, `Leave`, `StopListening`, `Exit` or a stutter; `ExitProcess` maps to
`Exit` because of `WgZeroDrained`.

**LauncherStartup.** `FailsOnlyForCause` needs what a launcher that met nothing relies on at each
place (`WindowInv`): after it spawned, that its process is still starting, or one listens; after its
probe, that the pipe is there; after its dial, that its connection is or will be accepted. All of it
rests on the timing assumptions and on `OneHolder`: the pipe that is dialled is the one that was
found. `TypeOK` needs that a closed listener has no connection left to accept (`ClosedInv`), so that a
process leaves none behind. `RunsOnWholeFiles` needs who can have left a payload half written, and
when (`PayloadInv`). `ServersKeepTheirPromise` is described above.

**LaunchSession.** `RunsComplete` speaks of the launcher, which acts on a message it reads later. So
`PromiseInv` says what holds from the sending of LaunchReady, through its time in the pipe, to the
program's run; it rests on what a handler knows at each place: that its runtime is in the store
(`PythonInv`), that what its plan no longer misses is in the pool (`PlanInv`), and that a request
precedes its handler (`RequestInv`). `ReadyIsEarned` is read off the same knowledge.
`InstallingIsAttended` is inductive with them.

**SharedStore.** As long as processes do not overlap there is one at a time (`AloneInv`), it finds in
the temporary file what it put there, and in registry.json, outside of its saves, what it has in
memory, unless its last save failed (`SaveInv`): `Durable` and `FileSound`. `ReadyHasPackagesAlone` and
`DeletesOnlyUnreferenced` need what the process knows of the pool in the middle of its operation, that
is across the system calls of a save (`KnowledgeInv`): what records it holds for ready, what is left of
its list of work, what no record needs. After a failed save its memory is ahead of the file, and what it
deletes on that ground is remembered as `misled`. `PartialIsAttended` holds however processes overlap,
for the set of those that are deleting and of the deletions that broke off.

**StagedInstall.** The core is mutual exclusion across processes that share a disk but no lock.
`HistoryInv` says what the history variables know of two requests for one item, `LockInv` that a
store's lock has one holder in each process. From both, whoever holds the lock of an uncontested
item's store found, and keeps, its place in the pool empty until it commits a complete directory
(`PoolInv`); this gives `DoneIsWhole`, and `Refinement`: `Commit` is `PoolPromise`'s one step or a
contested one, and everything else stutters. `CacheIsVerified` needs that what was received, and
verified, is what the file holds (`LoopInv`, `FileInv`), which is so only where nobody else truncated
it (`Sole`), and where there is a hash. `UndisturbedInv` carries `SoloSucceeds`: what a request that met
nothing knows of the cached file at each place, and which of the left-over files can still fail it.

**Versions and Wheels** (`ChoiceProofs`). `Compare` is a total order on versions. `Find` returns an
installed compatible runtime that no other is later than, unless the exact one is there, and returns
one if there is one; `SelectBestWheel` returns a wheel if a compatible one is offered. A wheel that
passes IsCompatibleWindowsX64, with whatever tags a file name can spell, can be loaded by the
interpreter it was checked for, or a combination of its tags is `Overlooked` (`CompatibleIsLoadable`):
the list of what the check does not look at is complete.

**Resolver.** `PlanIsReference` compares a walk over a queue in an arbitrary order with a set defined
by a recursive function, `Reach`. The walk's invariants say: the pins are planned and what else is
planned has its latest version (`PlanInv`); what is planned is visited or queued in that version
(`QueueInv`); every line of a visited package is met or still to be read (`LinesInv`, `AheadInv`); and
what is planned is in *every* set that has the pins and is closed under the lines had so far
(`ReachedInv`). At the end of the walk the plan is such a set itself, hence the least one. That
`Reach` is one too needs two facts about the function: it exists (`ChainExists`), and it is closed
after as many steps as there are names, by counting (`ChainCloses`). Both are inductions over the
naturals, for which `LeastExists` finds the least counterexample, as the library's induction theorems
cannot be applied. `ConflictInv` gives `NoFalseConflict`, `Met` in `LinesInv` gives
`StrictUnlessFirst`, `InstallInv` gives `PlanIsInstalled`, and `WheelInv` with `CompatibleIsLoadable`
gives `FreshWheelsLoad`.

**Model-checked only**: liveness, as fairness is out of the prover's reach (`ClosedServerExits`,
`CountdownExits` and the fairness of `ImplementsLifecycle`; `AnsweredUnlessFinished`; `Settles`;
`WheelsEnd`, `RuntimesEndUnlessStalled`; `Terminates`), and the six violations, which are single
behaviours.

## Not modelled

- *Rendering and Win32 calls*: pure I/O; the user's answers are choices. The manager's window is
  modelled by what its buttons do to the stores (`SharedStore`); its pages, scrolling and hit areas are
  the arithmetic of single functions in one thread.
- *The builder*: a sequential tool that writes one file; a failure leaves a partial output, which the
  hazards name. A directory named `venv` or `.venv` is skipped even if it is the project itself.
- *BuildBootstrapScript*: writes a Python program as text.
- *Sizes*: byte counts and sums of the stores decide nothing; so do progress messages.
- *Ping, SendLaunchRequest and RequestShutdown of the client*: one write and one read each, used by
  tools and tests only.

## Plan

Every safety property that a run checks is proved; what remains is to join the proofs together:

1. `Resolver` to `LaunchSession`: that what Resolve returns is one of the `Plans` there (what the pins
   lead to, the requirements of some installed packages left out).
2. `LaunchSession` to `PipeServer`: that the operations `AddOp` ... `DoneOp` of a session bracket a
   handler, so that a server does not end between LaunchReady and the response.
3. `StagedInstall` to `SharedStore`: that an installation is the one step it is taken for there
   (`Refinement` for items that are not contested).
