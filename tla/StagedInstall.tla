--------------------------- MODULE StagedInstall ---------------------------
(***************************************************************************)
(* How a package version and a Python runtime get into the pool: download  *)
(* into <file>.tmp, verify, rename it into the cache, extract into a       *)
(* staging directory, rename that into the pool. Packages: EnsurePackage   *)
(* (pkg/packages/store.go) and DownloadWheel (pkg/packages/pypi.go), where *)
(* only the extraction holds the store's lock. Runtimes: DownloadAndInstall*)
(* (pkg/runtime/runtime.go), which holds the lock of its store throughout. *)
(* A lock is a process's own; the disk is shared.                          *)
(*                                                                         *)
(* A file is the row of its chunks. A chunk is as it was published, or     *)
(* damaged, which the checksums in a zip archive reveal; the last chunk,   *)
(* which holds the archive's directory, may also be that of an archive in  *)
(* order but other than the one asked for: of a runtime, one without       *)
(* python.exe. Files are opened as Go opens them on Windows: any number of *)
(* readers and writers, but what is open can be neither removed nor        *)
(* renamed, nor replaced by a rename.                                      *)
(***************************************************************************)
EXTENDS Naturals, FiniteSets

CONSTANTS
  Requests,          \* concurrent calls
  Processes,
  Wheels, Runtimes,  \* items, by kind; each has one file and one directory
  Unhashed,          \* wheels that PyPI publishes without a SHA-256
  Servers,           \* the processes that install runtimes
  Size,              \* chunks of a file
  MaxCrashes         \* bound: how many processes die

Items == Wheels \cup Runtimes

(* One process at a time holds the pipe and serves launches (OneHolder of  *)
(* LauncherStartup); only HandleLaunchRequest installs runtimes.           *)
ASSUME InstallAssumption ==
  /\ Wheels \cap Runtimes = {} /\ Unhashed \subseteq Wheels
  /\ Processes # {} /\ Servers \subseteq Processes
  /\ \A x, y \in Servers : x = y
  /\ Size \in Nat \ {0}
  /\ MaxCrashes \in Nat

VARIABLES
  cache,     \* the file of each item in the cache directory
  tmp,       \* its <file>.tmp
  pool,      \* its directory in the pool
  staging,   \* what is in the staging directory of each request's call
  pc,        \* where each request stands
  item,      \* what it installs; a retry installs the same
  proc,      \* the process it runs in, this time
  offset,    \* chunks it has written
  clean,     \* were all the bytes it received right?
  crashes,   \* processes that died so far
  disturbed, \* history: requests that met a fault or another request for their item
  raced,     \* history: items that two requests have been at, at the same time
  contested  \* history: items that two processes have been at, at the same time

files == <<cache, tmp>>
work == <<item, proc, offset, clean>>
history == <<disturbed, raced, contested>>
vars == <<cache, tmp, pool, staging, pc, item, proc, offset, clean,
          crashes, disturbed, raced, contested>>

Chunks == 1..Size
Missing == << >>
Blank == [k \in Chunks |-> "hole"]
Contents == {"good", "bad", "other"}
Files == [Chunks -> {"hole"} \cup Contents] \cup {Missing}
FullSize(f) == f # Missing /\ f[Size] # "hole"
Whole(f) == f # Missing /\ \A k \in Chunks : f[k] = "good"
(* zip.OpenReader reads the directory at the end of the archive. *)
Openable(f) == f # Missing /\ f[Size] \in {"good", "other"}
(* Every file of the archive has its own checksum. *)
Extractable(f) == Openable(f) /\ \A k \in Chunks \ {Size} : f[k] = "good"

Ended == {"idle", "done", "failed"}
TmpStates == {"write", "replace", "rename", "drop", "sweep"}
StagingStates == {"stage", "extract", "clear", "clearing", "commit"}
PcStates == Ended \cup {"look", "cache", "hash", "get", "lock"}
              \cup TmpStates \cup StagingStates

IsWheel(r) == item[r] \in Wheels
At(r, l) == pc[r] = l
Go(r, l) == pc' = [pc EXCEPT ![r] = l]

TypeOK ==
  /\ cache \in [Items -> Files]
  /\ tmp \in [Items -> Files]
  /\ pool \in [Items -> {"absent", "whole", "other", "partial"}]
  /\ staging \in [Requests -> {"none", "partial", "whole", "other"}]
  /\ pc \in [Requests -> PcStates]
  /\ item \in [Requests -> Items]
  /\ proc \in [Requests -> Processes]
  /\ offset \in [Requests -> 0..Size]
  /\ clean \in [Requests -> BOOLEAN]
  /\ crashes \in 0..MaxCrashes
  /\ disturbed \subseteq Requests
  /\ raced \subseteq Items
  /\ contested \subseteq Items

(* Empty stores. *)
Init ==
  /\ cache = [i \in Items |-> Missing]
  /\ tmp = [i \in Items |-> Missing]
  /\ pool = [i \in Items |-> "absent"]
  /\ staging = [r \in Requests |-> "none"]
  /\ pc = [r \in Requests |-> "idle"]
  /\ item \in [Requests -> Items]
  /\ proc = [r \in Requests |-> CHOOSE x \in Processes : TRUE]
  /\ offset = [r \in Requests |-> 0]
  /\ clean = [r \in Requests |-> TRUE]
  /\ crashes = 0
  /\ disturbed = {}
  /\ raced = {}
  /\ contested = {}

-----------------------------------------------------------------------------
(* Who has what open, and who holds which lock. *)

Writing(i) == \E r \in Requests : item[r] = i /\ At(r, "write")
Reading(i) == \E r \in Requests : item[r] = i /\ pc[r] \in {"hash", "extract"}
ReadByOther(r) ==
  \E o \in Requests \ {r} : item[o] = item[r] /\ pc[o] \in {"hash", "extract"}

Holds(r) ==
  \/ pc[r] \in StagingStates
  \/ ~IsWheel(r) /\ pc[r] \notin Ended \cup {"look"}
(* Variant: packages and runtimes share a lock. *)
SameStore_OneLock(r, o) == proc[r] = proc[o]

SameStore(r, o) == proc[r] = proc[o] /\ (IsWheel(r) <=> IsWheel(o))
LockFree(r) == \A o \in Requests \ {r} : SameStore(r, o) => ~Holds(o)

(* os.Remove of the cached file, by a request that has closed it. *)
Uncached(r) == IF ReadByOther(r) THEN cache ELSE [cache EXCEPT ![item[r]] = Missing]

(* The buffers of a download live as long as its loop. *)
LeaveLoop(r) ==
  /\ offset' = [offset EXCEPT ![r] = 0]
  /\ clean' = [clean EXCEPT ![r] = TRUE]
  /\ UNCHANGED <<item, proc>>

Fault(r) == disturbed' = disturbed \cup {r} /\ UNCHANGED <<raced, contested>>
Stage(r, s) == staging' = [staging EXCEPT ![r] = s]
Fail(r) == Go(r, "failed") /\ Stage(r, "none")

-----------------------------------------------------------------------------
(* A call of EnsurePackage or DownloadAndInstall, possibly a retry. *)
Begin(r, x) ==
  /\ At(r, "idle")
  /\ IsWheel(r) \/ x \in Servers
  /\ LET i == item[r]
         others == {o \in Requests \ {r} : pc[o] # "idle" /\ item[o] = i}
     IN  /\ disturbed' = IF others = {} THEN disturbed
                                        ELSE disturbed \cup others \cup {r}
         /\ raced' = IF others = {} THEN raced ELSE raced \cup {i}
         /\ contested' = IF \E o \in others : proc[o] # x
                         THEN contested \cup {i} ELSE contested
  /\ Go(r, "look")
  /\ proc' = [proc EXCEPT ![r] = x]
  /\ UNCHANGED <<files, pool, staging, item, offset, clean, crashes>>

Return(r) ==
  /\ pc[r] \in {"done", "failed"}
  /\ Go(r, "idle")
  /\ disturbed' = disturbed \ {r}
  /\ UNCHANGED <<files, pool, staging, work, crashes, raced, contested>>

(* EnsurePackage looks into the pool without the lock, then asks PyPI for  *)
(* the metadata.                                                           *)
LookForPackage(r) ==
  /\ At(r, "look") /\ IsWheel(r)
  /\ Go(r, IF pool[item[r]] = "absent" THEN "cache" ELSE "done")
  /\ UNCHANGED <<files, pool, staging, work, crashes, history>>

MetadataFails(r) ==
  /\ At(r, "look") /\ IsWheel(r) /\ pool[item[r]] = "absent"
  /\ Go(r, "failed")
  /\ Fault(r)
  /\ UNCHANGED <<files, pool, staging, work, crashes>>

(* DownloadAndInstall takes the lock, then looks for python.exe, which a   *)
(* partial directory may have or not.                                      *)
LockRuntimes(r) ==
  /\ At(r, "look") /\ ~IsWheel(r) /\ LockFree(r)
  /\ \/ pool[item[r]] # "absent" /\ Go(r, "done")
     \/ pool[item[r]] # "whole" /\ Go(r, "cache")
  /\ UNCHANGED <<files, pool, staging, work, crashes, history>>

-----------------------------------------------------------------------------
(* The cached file: a wheel of the right size is hashed, or taken as it is *)
(* if there is no hash; an archive that opens is taken as it is and one    *)
(* that does not is removed.                                               *)
LookInCache(r) ==
  /\ At(r, "cache")
  /\ IF IsWheel(r)
     THEN /\ Go(r, IF ~FullSize(cache[item[r]]) THEN "get"
                   ELSE IF item[r] \in Unhashed THEN "lock" ELSE "hash")
          /\ UNCHANGED cache
     ELSE IF Openable(cache[item[r]])
          THEN Go(r, "stage") /\ UNCHANGED cache
          ELSE Go(r, "get") /\ cache' = Uncached(r)
  /\ IF pc'[r] = "stage" THEN Stage(r, "partial") ELSE UNCHANGED staging
  /\ UNCHANGED <<tmp, pool, work, crashes, history>>

(* Variant: only the size of a cached wheel is looked at. *)
CheckHash_SizeOnly(r) ==
  /\ At(r, "hash")
  /\ Go(r, "lock")
  /\ UNCHANGED <<files, pool, staging, work, crashes, history>>

CheckHash(r) ==
  /\ At(r, "hash")
  /\ IF Whole(cache[item[r]])
     THEN Go(r, "lock") /\ UNCHANGED cache
     ELSE Go(r, "get") /\ cache' = Uncached(r)
  /\ UNCHANGED <<tmp, pool, staging, work, crashes, history>>

(* The request, then os.Create: the file is cut to nothing, whoever writes it. *)
Get(r) ==
  /\ At(r, "get")
  /\ Go(r, "write")
  /\ tmp' = [tmp EXCEPT ![item[r]] = Blank]
  /\ UNCHANGED <<cache, pool, staging, work, crashes, history>>

GetFails(r) ==
  /\ At(r, "get")
  /\ Fail(r)
  /\ Fault(r)
  /\ UNCHANGED <<files, pool, work, crashes>>

(* Variant: the loop does not stop at the end of the body. *)
Receive_PastEnd(r, content) ==
  /\ At(r, "write")
  /\ offset' = [offset EXCEPT ![r] = @ + 1]
  /\ UNCHANGED <<files, pool, staging, pc, item, proc, clean, crashes, history>>

(* A chunk arrives, as it was published or not, and is written where this  *)
(* request's handle stands.                                                *)
Receive(r, content) ==
  /\ At(r, "write") /\ offset[r] < Size
  /\ content = "other" => offset[r] + 1 = Size
  /\ tmp' = [tmp EXCEPT ![item[r]][offset[r] + 1] = content]
  /\ offset' = [offset EXCEPT ![r] = @ + 1]
  /\ IF content = "good"
     THEN UNCHANGED <<clean, history>>
     ELSE clean' = [clean EXCEPT ![r] = FALSE] /\ Fault(r)
  /\ UNCHANGED <<cache, pool, staging, pc, item, proc, crashes>>

(* The connection breaks or times out, or the disk is full. *)
Break(r) ==
  /\ At(r, "write")
  /\ Go(r, "drop")
  /\ LeaveLoop(r)
  /\ Fault(r)
  /\ UNCHANGED <<files, pool, staging, crashes>>

(* Variant: the archive is committed unverified. *)
Verify_Trusting(r) ==
  /\ At(r, "write") /\ offset[r] = Size
  /\ Go(r, "replace")
  /\ LeaveLoop(r)
  /\ UNCHANGED <<files, pool, staging, crashes, history>>

(* DownloadWheel compares the hash of what it received, if it was told     *)
(* one; downloadFile opens what is in the file.                            *)
Accepted(r) ==
  IF IsWheel(r) THEN item[r] \in Unhashed \/ clean[r] ELSE Openable(tmp[item[r]])

(* The end of the body: close, then verify. *)
Verify(r) ==
  /\ At(r, "write") /\ offset[r] = Size
  /\ Go(r, IF Accepted(r) THEN "replace" ELSE "drop")
  /\ LeaveLoop(r)
  /\ UNCHANGED <<files, pool, staging, crashes, history>>

Replace(r) ==
  /\ At(r, "replace")
  /\ Go(r, "rename")
  /\ cache' = Uncached(r)
  /\ UNCHANGED <<tmp, pool, staging, work, crashes, history>>

Rename(r) ==
  LET i == item[r]
      possible == /\ tmp[i] # Missing /\ ~Writing(i)
                  /\ cache[i] = Missing \/ ~Reading(i)
  IN  /\ At(r, "rename")
      /\ Go(r, IF possible THEN "sweep" ELSE "drop")
      /\ cache' = IF possible THEN [cache EXCEPT ![i] = tmp[i]] ELSE cache
      /\ tmp' = IF possible THEN [tmp EXCEPT ![i] = Missing] ELSE tmp
      /\ UNCHANGED <<pool, staging, work, crashes, history>>

(* The deferred removal of the temporary file, which may be another's by now. *)
Swept(r) == IF Writing(item[r]) THEN tmp ELSE [tmp EXCEPT ![item[r]] = Missing]

Sweep(r) ==
  /\ At(r, "sweep")
  /\ Go(r, IF IsWheel(r) THEN "lock" ELSE "stage")
  /\ IF IsWheel(r) THEN UNCHANGED staging ELSE Stage(r, "partial")
  /\ tmp' = Swept(r)
  /\ UNCHANGED <<cache, pool, work, crashes, history>>

(* Variant: a download that fails leaves its temporary file. *)
Drop_Leaves(r) ==
  /\ At(r, "drop")
  /\ Fail(r)
  /\ UNCHANGED <<files, pool, work, crashes, history>>

(* Variant: a download that fails is tried again at once. *)
Drop_Retries(r) ==
  /\ At(r, "drop")
  /\ Go(r, "get")
  /\ tmp' = Swept(r)
  /\ UNCHANGED <<cache, pool, staging, work, crashes, history>>

Drop(r) ==
  /\ At(r, "drop")
  /\ Fail(r)
  /\ tmp' = Swept(r)
  /\ UNCHANGED <<cache, pool, work, crashes, history>>

-----------------------------------------------------------------------------
(* Variant: the package is not looked for again under the lock. *)
LockPackages_NoRecheck(r) ==
  /\ At(r, "lock") /\ LockFree(r)
  /\ Go(r, "stage") /\ Stage(r, "partial")
  /\ UNCHANGED <<files, pool, work, crashes, history>>

(* InstallWheel: lock, look again, make the staging directory. *)
LockPackages(r) ==
  /\ At(r, "lock") /\ LockFree(r)
  /\ IF pool[item[r]] = "absent"
     THEN Go(r, "stage") /\ Stage(r, "partial")
     ELSE Go(r, "done") /\ UNCHANGED staging
  /\ UNCHANGED <<files, pool, work, crashes, history>>

(* A runtime's archive that cannot be extracted is discarded, a wheel is not. *)
BadArchive(r) ==
  /\ Fail(r)
  /\ cache' = IF IsWheel(r) THEN cache ELSE Uncached(r)

OpenArchive(r) ==
  /\ At(r, "stage")
  /\ IF Openable(cache[item[r]])
     THEN Go(r, "extract") /\ UNCHANGED <<cache, staging>>
     ELSE BadArchive(r)
  /\ UNCHANGED <<tmp, pool, work, crashes, history>>

(* Variant: the errors of copying files out of the archive are lost. *)
Extract_Unchecked(r) ==
  /\ At(r, "extract")
  /\ Go(r, "clear")
  /\ Stage(r, IF Whole(cache[item[r]]) THEN "whole" ELSE "partial")
  /\ UNCHANGED cache
  /\ UNCHANGED <<tmp, pool, work, crashes, history>>

(* A runtime that was extracted but has no python.exe fails the request;   *)
(* its archive stays in the cache.                                         *)
Extract(r) ==
  /\ At(r, "extract")
  /\ LET f == cache[item[r]] IN
       \/ /\ Extractable(f) /\ (IsWheel(r) \/ Whole(f))
          /\ Go(r, "clear")
          /\ Stage(r, IF Whole(f) THEN "whole" ELSE "other")
          /\ UNCHANGED cache
       \/ /\ Extractable(f) /\ ~IsWheel(r) /\ ~Whole(f)
          /\ Fail(r)
          /\ UNCHANGED cache
       \/ ~Extractable(f) /\ BadArchive(r)
  /\ UNCHANGED <<tmp, pool, work, crashes, history>>

ExtractBreaks(r) ==
  /\ At(r, "extract")
  /\ BadArchive(r)
  /\ Fault(r)
  /\ UNCHANGED <<tmp, pool, work, crashes>>

(* os.RemoveAll of the target, file by file; a file that a running program *)
(* has open stays, and the error is ignored.                               *)
Clear(r) ==
  /\ At(r, "clear")
  /\ IF pool[item[r]] = "absent"
     THEN Go(r, "commit") /\ UNCHANGED pool
     ELSE Go(r, "clearing") /\ pool' = [pool EXCEPT ![item[r]] = "partial"]
  /\ UNCHANGED <<files, staging, work, crashes, history>>

Cleared(r) ==
  /\ At(r, "clearing")
  /\ Go(r, "commit")
  /\ \/ pool' = [pool EXCEPT ![item[r]] = "absent"]
     \/ UNCHANGED pool
  /\ UNCHANGED <<files, staging, work, crashes, history>>

(* The rename of a directory, which replaces none. *)
Commit(r) ==
  /\ At(r, "commit")
  /\ Stage(r, "none")
  /\ IF pool[item[r]] = "absent"
     THEN Go(r, "done") /\ pool' = [pool EXCEPT ![item[r]] = staging[r]]
     ELSE Go(r, "failed") /\ UNCHANGED pool
  /\ UNCHANGED <<files, work, crashes, history>>

-----------------------------------------------------------------------------
(* A process dies with all its requests; open handles are closed, its      *)
(* temporary files stay. So do the staging directories of its calls; each  *)
(* call makes one of its own, under a name with the time in it, and no     *)
(* other call opens it: staging is that of a request's present call.       *)
Crash(x) ==
  LET dead == {r \in Requests : proc[r] = x /\ pc[r] # "idle"}
  IN  /\ crashes < MaxCrashes /\ dead # {}
      /\ crashes' = crashes + 1
      /\ pc' = [r \in Requests |-> IF r \in dead THEN "idle" ELSE pc[r]]
      /\ staging' = [r \in Requests |-> IF r \in dead THEN "none" ELSE staging[r]]
      /\ offset' = [r \in Requests |-> IF r \in dead THEN 0 ELSE offset[r]]
      /\ clean' = [r \in Requests |-> r \in dead \/ clean[r]]
      /\ disturbed' = disturbed \ dead
      /\ UNCHANGED <<files, pool, item, proc, raced, contested>>

Network(r) ==
  \/ MetadataFails(r)
  \/ Get(r)
  \/ GetFails(r)
  \/ \E content \in Contents : Receive(r, content)
  \/ Break(r)

Lock(r) == LockRuntimes(r) \/ LockPackages(r)

Local(r) ==
  \/ Return(r)
  \/ LookForPackage(r)
  \/ LookInCache(r)
  \/ CheckHash(r)
  \/ Verify(r)
  \/ Replace(r)
  \/ Rename(r)
  \/ Sweep(r)
  \/ Drop(r)
  \/ OpenArchive(r)
  \/ Extract(r)
  \/ ExtractBreaks(r)
  \/ Clear(r)
  \/ Cleared(r)
  \/ Commit(r)

Next ==
  \/ \E r \in Requests :
       \/ \E x \in Processes : Begin(r, x)
       \/ Network(r)
       \/ Lock(r)
       \/ Local(r)
  \/ \E x \in Processes : Crash(x)

(* A lock does not starve its waiters. The client for PyPI has a timeout,  *)
(* so that whatever a wheel waits for from the network comes or fails;     *)
(* http.DefaultClient, which downloads runtimes, has none.                 *)
Fairness ==
  \A r \in Requests :
    /\ WF_vars(Local(r))
    /\ SF_vars(Lock(r))
    /\ WF_vars(IsWheel(r) /\ Network(r))

Spec == Init /\ [][Next]_vars /\ Fairness

-----------------------------------------------------------------------------
(* The stores keep the promise: an item appears complete and in one step,  *)
(* whatever is in the cache and whatever fails or dies; only what two      *)
(* processes install at once is ever partial, or taken away. That it is    *)
(* what was published is promised where a hash says what was published and *)
(* no other request wrote into the file that was verified.                 *)
Unsure == Unhashed \cup (raced \cap Wheels)
Promise == INSTANCE PoolPromise WITH unsure <- Unsure
ImplementsPromise == Promise!Spec

(* Who is told that an item is there finds it whole. Two processes at it   *)
(* share it as it comes; an archive that was not hashed, or was written by *)
(* two after it was, may be another than the one asked for.                *)
DoneIsWhole ==
  \A r \in Requests :
    At(r, "done") =>
      \/ pool[item[r]] = "whole"
      \/ pool[item[r]] = "other" /\ item[r] \in Unsure
      \/ item[r] \in contested

(* A request whose own network and disk work, and that has its item to     *)
(* itself, succeeds: no torn or falsified file, and no temporary file that *)
(* earlier races, failures and crashes left stops it. The exceptions: a    *)
(* cached runtime archive that opens but cannot be extracted fails one     *)
(* request, which discards it; one without python.exe, and a damaged wheel *)
(* that has no hash, fail every request, for nothing discards them.        *)
SoloSucceeds ==
  \A r \in Requests :
    At(r, "failed") /\ r \notin disturbed =>
      LET f == cache[item[r]] IN
        IF IsWheel(r) THEN item[r] \in Unhashed /\ f # Missing /\ ~Extractable(f)
                      ELSE f = Missing \/ (Extractable(f) /\ ~Whole(f))

(* What is in the cache was verified: a wheel that has a hash is whole     *)
(* unless two requests were at it at once (the lock does not cover         *)
(* downloads), an archive opens even then.                                 *)
CacheIsVerified ==
  /\ \A i \in Wheels \ Unhashed :
       cache[i] = Missing \/ Whole(cache[i]) \/ i \in raced
  /\ \A i \in Runtimes : cache[i] = Missing \/ Openable(cache[i])

(* Only a crash leaves a temporary file or a staging directory behind: a   *)
(* failing request, or the last of several that share a file, removes it.  *)
NothingLeftBehind ==
  /\ \A r \in Requests : staging[r] # "none" => pc[r] \in StagingStates
  /\ \A i \in Items :
       tmp[i] = Missing \/ crashes > 0
         \/ \E r \in Requests : item[r] = i /\ pc[r] \in TmpStates

(* A request for a package ends, whatever the network and other requests do. *)
WheelsEnd == \A r \in Requests : []<>(pc[r] \in Ended \/ ~IsWheel(r))

(* What a request for a runtime waits for is a runtime's download. *)
Downloading == \E r \in Requests : ~IsWheel(r) /\ pc[r] \in {"get", "write"}
RuntimesEndUnlessStalled ==
  \A r \in Requests : []<>(pc[r] \in Ended) \/ <>[]Downloading
=============================================================================
