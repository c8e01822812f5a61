------------------------ MODULE StagedInstallProofs ------------------------
(***************************************************************************)
(* Proofs about StagedInstall, for any requests, processes, items and      *)
(* sizes of files, and any number of crashes.                              *)
(***************************************************************************)
EXTENDS StagedInstall, TLAPS

Rows == [Chunks -> {"hole"} \cup Contents]
Active(r) == pc[r] # "idle"

(* Nobody else has touched the files of r's item since r began: a runtime  *)
(* is downloaded under the lock, and for a package nobody else was there.  *)
Sole(r) == ~IsWheel(r) \/ item[r] \notin raced \/ r \notin disturbed

(* What the history variables say of requests for the same item.           *)
HistoryInv ==
  /\ \A r, o \in Requests :
       r # o /\ Active(r) /\ Active(o) /\ item[r] = item[o] =>
         /\ item[r] \in raced
         /\ r \in disturbed
         /\ proc[r] # proc[o] => item[r] \in contested
  /\ \A r \in Requests : Active(r) /\ ~IsWheel(r) => proc[r] \in Servers
  /\ contested \subseteq Wheels

(* No two requests of a process hold the lock of the same store. *)
LockInv ==
  \A r, o \in Requests : r # o /\ Holds(r) /\ Holds(o) => ~SameStore(r, o)

(* A download's buffers, and the file it has open. *)
LoopInv ==
  \A r \in Requests :
    /\ ~At(r, "write") => offset[r] = 0 /\ clean[r]
    /\ At(r, "write") => tmp[item[r]] \in Rows
    /\ ~clean[r] \/ At(r, "drop") => r \in disturbed

(* What was received, and what was verified, is what the file holds. *)
Verified(i, f) ==
  IF i \in Wheels THEN f # Missing /\ (i \in Unhashed \/ Whole(f)) ELSE Openable(f)
FileInv ==
  \A r \in Requests : Sole(r) =>
    /\ At(r, "write") /\ clean[r] =>
         \A k \in Chunks : k <= offset[r] => tmp[item[r]][k] = "good"
    /\ pc[r] \in {"replace", "rename"} => Verified(item[r], tmp[item[r]])

(* Whoever holds the lock of an uncontested item's store finds, and keeps, *)
(* its place in the pool empty until it commits a complete directory.      *)
Complete(d, i) == d = "whole" \/ (d = "other" /\ i \in Unsure)
PoolInv ==
  /\ \A i \in Items : /\ pool[i] = "partial" => i \in contested
                      /\ pool[i] = "other" => i \in Unsure
  /\ \A r \in Requests :
       /\ Holds(r) => pool[item[r]] = "absent" \/ item[r] \in contested
       /\ At(r, "clearing") => item[r] \in contested
       /\ pc[r] \in {"clear", "clearing", "commit"} => Complete(staging[r], item[r])

(* A request that nothing has disturbed is on its way to success. *)
Hashed(r) == IsWheel(r) /\ item[r] \notin Unhashed
Cached(r) == cache[item[r]] # Missing /\ (Hashed(r) => Whole(cache[item[r]]))
UndisturbedInv ==
  \A r \in Requests : r \notin disturbed =>
    /\ Holds(r) => pool[item[r]] = "absent" /\ ~At(r, "clearing")
    /\ IsWheel(r) /\ pc[r] \in {"sweep", "lock", "stage", "extract"} =>
         Cached(r)

IInv ==
  /\ TypeOK
  /\ HistoryInv
  /\ LockInv
  /\ LoopInv
  /\ FileInv
  /\ PoolInv
  /\ UndisturbedInv
  /\ DoneIsWhole
  /\ SoloSucceeds
  /\ CacheIsVerified
  /\ NothingLeftBehind

-----------------------------------------------------------------------------
(* One step of a request that is under way. *)
Step(r) == Network(r) \/ Lock(r) \/ Local(r)

(* Such a step moves its own request, and touches its own item's files and *)
(* directory.                                                              *)
LEMMA StepFrame ==
  ASSUME TypeOK, NEW r \in Requests, Step(r)
  PROVE  /\ UNCHANGED <<item, proc, raced, contested, crashes>>
         /\ Active(r)
         /\ \A o \in Requests : o # r =>
              /\ pc'[o] = pc[o]
              /\ staging'[o] = staging[o]
              /\ offset'[o] = offset[o]
              /\ clean'[o] = clean[o]
              /\ o \in disturbed' <=> o \in disturbed
         /\ \A i \in Items : i # item[r] =>
              /\ cache'[i] = cache[i]
              /\ tmp'[i] = tmp[i]
              /\ pool'[i] = pool[i]
         /\ Active(r)' => (r \in disturbed => r \in disturbed')
<1> USE DEF TypeOK, At, Go, Stage, Active, work, files, history
<1>1. CASE Network(r)
  BY <1>1 DEF Network, MetadataFails, Get, GetFails, Receive, Break, Fail, Fault,
              LeaveLoop
<1>2. CASE Lock(r)
  BY <1>2 DEF Lock, LockRuntimes, LockPackages
<1>3. CASE Return(r) \/ LookForPackage(r) \/ LookInCache(r) \/ CheckHash(r)
             \/ Verify(r) \/ Replace(r)
  BY <1>3 DEF Return, LookForPackage, LookInCache, CheckHash, Verify, Replace,
              LeaveLoop, Uncached
<1>4. CASE Rename(r) \/ Sweep(r) \/ Drop(r)
  BY <1>4 DEF Rename, Sweep, Drop, Swept, Fail
<1>5. CASE OpenArchive(r) \/ Extract(r) \/ ExtractBreaks(r)
  BY <1>5 DEF OpenArchive, Extract, ExtractBreaks, BadArchive, Uncached, Fail, Fault
<1>6. CASE Clear(r) \/ Cleared(r) \/ Commit(r)
  BY <1>6 DEF Clear, Cleared, Commit
<1>7. QED
  BY <1>1, <1>2, <1>3, <1>4, <1>5, <1>6 DEF Step, Local

(* Each variable stays in its type; what Receive writes goes into a row.   *)
LEMMA StepTypeOK ==
  ASSUME TypeOK, LoopInv, PoolInv, NEW r \in Requests, Step(r)
  PROVE  TypeOK'
<1>0. Blank \in Rows /\ Rows \subseteq Files /\ Missing \in Files
      /\ 0 \in 0..Size
  BY InstallAssumption DEF Blank, Rows, Files
<1>1. item[r] \in Items /\ item' = item /\ proc' = proc
      /\ raced' = raced /\ contested' = contested /\ crashes' = crashes
  BY StepFrame DEF TypeOK
<1> USE <1>0, <1>1 DEF TypeOK, At, Go, Stage, work, files, history, PcStates, Ended,
                       TmpStates, StagingStates
<1>2. ASSUME LeaveLoop(r)
      PROVE  offset' \in [Requests -> 0..Size] /\ clean' \in [Requests -> BOOLEAN]
  BY <1>2 DEF LeaveLoop
<1>3. CASE Break(r) \/ Verify(r)
  BY <1>2, <1>3 DEF Break, Verify, Fault
<1>4. CASE MetadataFails(r) \/ Get(r) \/ GetFails(r)
  BY <1>4 DEF MetadataFails, Get, GetFails, Fail, Fault
<1>5. ASSUME NEW content \in Contents, Receive(r, content)
      PROVE  TypeOK'
  <2>1. tmp[item[r]] \in Rows /\ offset[r] \in 0..Size /\ offset[r] + 1 \in 0..Size
    BY <1>5, InstallAssumption DEF Receive, LoopInv
  <2>2. [tmp[item[r]] EXCEPT ![offset[r] + 1] = content] \in Rows
    BY <2>1 DEF Rows
  <2>3. tmp' \in [Items -> Files]
    BY <1>5, <2>2 DEF Receive
  <2>4. QED
    BY <1>5, <2>1, <2>3 DEF Receive, Fault
<1>6. CASE Lock(r)
  BY <1>6 DEF Lock, LockRuntimes, LockPackages
<1>7. CASE Return(r) \/ LookForPackage(r) \/ LookInCache(r) \/ CheckHash(r)
             \/ Replace(r)
  BY <1>7 DEF Return, LookForPackage, LookInCache, CheckHash, Replace, Uncached
<1>8. CASE Rename(r) \/ Sweep(r) \/ Drop(r)
  BY <1>8 DEF Rename, Sweep, Drop, Swept, Fail
<1>9. CASE OpenArchive(r) \/ Extract(r) \/ ExtractBreaks(r)
  BY <1>9 DEF OpenArchive, Extract, ExtractBreaks, BadArchive, Uncached, Fail, Fault
<1>10. CASE Clear(r) \/ Cleared(r) \/ Commit(r)
  BY <1>10 DEF Clear, Cleared, Commit, PoolInv, Complete
<1>11. QED
  BY <1>3, <1>4, <1>5, <1>6, <1>7, <1>8, <1>9, <1>10 DEF Step, Network, Local

(* A step under way begins nothing: the history of its item stays as it is. *)
LEMMA StepHistoryInv ==
  ASSUME TypeOK, HistoryInv, NEW r \in Requests, Step(r)
  PROVE  HistoryInv'
BY StepFrame DEF HistoryInv, Active, IsWheel

(* Only Lock(r) makes r a holder, and only if nobody holds that lock. *)
LEMMA StepHolds ==
  ASSUME TypeOK, NEW r \in Requests, Step(r), ~Lock(r), Holds(r)'
  PROVE  Holds(r)
<1> USE DEF TypeOK, At, Go, Stage, Holds, IsWheel, PcStates, Ended,
            TmpStates, StagingStates, work, files, history
<1>1. CASE Network(r)
  BY <1>1 DEF Network, MetadataFails, Get, GetFails, Receive, Break, Fail, LeaveLoop
<1>2. CASE Return(r) \/ LookForPackage(r) \/ LookInCache(r) \/ CheckHash(r)
             \/ Verify(r) \/ Replace(r)
  BY <1>2 DEF Return, LookForPackage, LookInCache, CheckHash, Verify, Replace, LeaveLoop
<1>3. CASE Rename(r) \/ Sweep(r) \/ Drop(r)
  BY <1>3 DEF Rename, Sweep, Drop, Fail
<1>4. CASE OpenArchive(r) \/ Extract(r) \/ ExtractBreaks(r)
  BY <1>4 DEF OpenArchive, Extract, ExtractBreaks, BadArchive, Fail
<1>5. CASE Clear(r) \/ Cleared(r) \/ Commit(r)
  BY <1>5 DEF Clear, Cleared, Commit
<1>6. QED
  BY <1>1, <1>2, <1>3, <1>4, <1>5 DEF Step, Local

(* No step lets a second request into a store that one of the same        *)
(* process is installing into.                                             *)
LEMMA StepLockInv ==
  ASSUME TypeOK, LockInv, NEW r \in Requests, Step(r)
  PROVE  LockInv'
<1>1. \A o \in Requests : o # r => (Holds(o)' <=> Holds(o))
  BY StepFrame DEF Holds, IsWheel
<1>2. \A a, b \in Requests : SameStore(a, b)' <=> SameStore(a, b)
  BY StepFrame DEF SameStore, IsWheel
<1>3. CASE Lock(r)
  <2>1. LockFree(r)
    BY <1>3 DEF Lock, LockRuntimes, LockPackages
  <2>2. QED
    BY <1>1, <1>2, <2>1 DEF LockInv, LockFree, SameStore
<1>4. CASE ~Lock(r)
  BY <1>1, <1>2, <1>4, StepHolds DEF LockInv
<1>5. QED
  BY <1>3, <1>4

(* Of the requests for r's item, only those that have not started or have  *)
(* ended can be beside one that is at work on files nobody else touched.   *)
LEMMA SoleAtWork ==
  ASSUME TypeOK, HistoryInv, LockInv, NEW r \in Requests, NEW o \in Requests,
         o # r, item[o] = item[r], Sole(r), Active(r), IsWheel(r) \/ Holds(r)
  PROVE  pc[o] \in Ended \cup {"look"}
<1>1. CASE IsWheel(r)
  BY <1>1 DEF HistoryInv, Sole, Active, IsWheel, Ended
<1>2. CASE ~IsWheel(r)
  <2>1. SUFFICES ASSUME Holds(o) PROVE FALSE
    BY <1>2 DEF Holds, IsWheel
  <2>2. Active(o) /\ ~IsWheel(o)
    BY <1>2, <2>1 DEF Holds, Active, IsWheel, Ended, StagingStates
  <2>3. proc[o] = proc[r]
    BY <1>2, <2>2, InstallAssumption DEF HistoryInv
  <2>4. QED
    BY <1>2, <2>1, <2>2, <2>3 DEF LockInv, SameStore
<1>3. QED
  BY <1>1, <1>2

(* A request that has not started or has ended touches no file. *)
LEMMA RestingStep ==
  ASSUME TypeOK, NEW r \in Requests, Step(r), pc[r] \in Ended \cup {"look"}
  PROVE  UNCHANGED <<cache, tmp, pool, staging>>
BY DEF Ended, At, Step, Network, MetadataFails, Get, GetFails, Receive, Break, Lock,
       LockRuntimes, LockPackages, Local, Return, LookForPackage, LookInCache, CheckHash,
       Verify, Replace, Rename, Sweep, Drop, OpenArchive, Extract, ExtractBreaks, Clear,
       Cleared, Commit, files

(* A file that exists is not a missing one. *)
LEMMA RowsExist == \A f \in Rows : f # Missing
<1> SUFFICES ASSUME NEW f \in Rows PROVE f # Missing
  OBVIOUS
<1>1. Size \in DOMAIN f
  BY InstallAssumption DEF Rows, Chunks
<1>2. DOMAIN Missing = {}
  BY DEF Missing
<1>3. QED
  BY <1>1, <1>2

(* What a step may do to the file that another request writes. *)
LEMMA StepTmp ==
  ASSUME TypeOK, LoopInv, NEW r \in Requests, Step(r)
  PROVE  \/ tmp' = tmp
         \/ Get(r)
         \/ \E content \in Contents : Receive(r, content)
         \/ ~Writing(item[r]) /\ (Rename(r) \/ Sweep(r) \/ Drop(r))
<1> USE DEF Step, files
<1>1. CASE Network(r)
  BY <1>1 DEF Network, MetadataFails, GetFails, Break
<1>2. CASE Lock(r)
  BY <1>2 DEF Lock, LockRuntimes, LockPackages
<1>3. CASE Local(r)
  BY <1>3 DEF Local, Return, LookForPackage, LookInCache, CheckHash, Verify, Replace,
       Rename, Sweep, Drop, Swept, OpenArchive, Extract, ExtractBreaks, Clear, Cleared, Commit
<1>4. QED
  BY <1>1, <1>2, <1>3

(* A step keeps what a download knows of its buffers and of its open file. *)
LEMMA StepLoopInv ==
  ASSUME TypeOK, LoopInv, FileInv, HistoryInv, LockInv,
         NEW r \in Requests, Step(r)
  PROVE  LoopInv'
<1> USE DEF TypeOK, At, Go, Stage
<1>1. ASSUME NEW o \in Requests, At(o, "write")', o # r
      PROVE  tmp'[item'[o]] \in Rows
  <2>1. At(o, "write") /\ item' = item /\ tmp[item[o]] \in Rows
    BY <1>1, StepFrame DEF LoopInv
  <2>2. CASE Get(r)
    BY <2>1, <2>2 DEF Get, Blank, Rows
  <2>3. ASSUME NEW content \in Contents, Receive(r, content)
        PROVE  tmp'[item'[o]] \in Rows
    BY <2>1, <2>3 DEF Receive, Rows
  <2>4. CASE ~Writing(item[r]) /\ (Rename(r) \/ Sweep(r) \/ Drop(r))
    BY <2>1, <2>4 DEF Rename, Sweep, Drop, Swept, Writing
  <2>5. QED
    BY <2>1, <2>2, <2>3, <2>4, StepTmp
<1>2. At(r, "write")' => tmp'[item'[r]] \in Rows
  <2>1. CASE Get(r)
    BY <2>1, StepFrame DEF Get, Blank, Rows
  <2>2. ASSUME NEW content \in Contents, Receive(r, content)
        PROVE  tmp'[item'[r]] \in Rows
    <3>1. tmp[item[r]] \in Rows
      BY <2>2 DEF Receive, LoopInv
    <3>2. tmp'[item'[r]] = [tmp[item[r]] EXCEPT ![offset[r] + 1] = content]
      BY <2>2, StepFrame DEF Receive
    <3>3. QED
      BY <3>1, <3>2 DEF Rows
  <2>3. CASE ~Get(r) /\ ~\E content \in Contents : Receive(r, content)
    BY <2>3 DEF Step, Network, MetadataFails, GetFails, Break, Lock, LockRuntimes,
         LockPackages, Local, Return, LookForPackage, LookInCache, CheckHash, Verify,
         Replace, Rename, Sweep, Drop, OpenArchive, Extract, ExtractBreaks, Clear,
         Cleared, Commit, Fail, BadArchive
  <2>4. QED
    BY <2>1, <2>2, <2>3
<1>3. ~At(r, "write")' => offset'[r] = 0 /\ clean'[r]
  <2>1. CASE Network(r)
    BY <2>1 DEF Network, MetadataFails, Get, GetFails, Receive, Break, LeaveLoop, Fail,
                work, LoopInv
  <2>2. CASE Verify(r)
    BY <2>2 DEF Verify, LeaveLoop
  <2>3. CASE Lock(r) \/ (Local(r) /\ ~Verify(r))
    BY <2>3 DEF Lock, LockRuntimes, LockPackages, Local, Return, LookForPackage,
         LookInCache, CheckHash, Replace, Rename, Sweep, Drop, OpenArchive, Extract,
         ExtractBreaks, Clear, Cleared, Commit, Fail, BadArchive, work, LoopInv
  <2>4. QED
    BY <2>1, <2>2, <2>3 DEF Step
<1>4. At(r, "drop")' => r \in disturbed'
  <2>1. CASE Verify(r)
    <3> SUFFICES ASSUME At(r, "drop")', r \notin disturbed PROVE FALSE
      BY <2>1 DEF Verify, history
    <3>1. clean[r] /\ Sole(r) /\ offset[r] = Size
      BY <2>1 DEF LoopInv, Sole, Verify
    <3>2. ~IsWheel(r) /\ ~Openable(tmp[item[r]]) /\ tmp[item[r]] \in Rows
      BY <2>1, <3>1 DEF Verify, Accepted, LoopInv
    <3>3. tmp[item[r]][Size] = "good"
      BY <2>1, <3>1, InstallAssumption DEF FileInv, Verify, Chunks
    <3>4. QED
      BY <3>2, <3>3, RowsExist DEF Openable
  <2>2. CASE Rename(r)
    <3> SUFFICES ASSUME At(r, "drop")', r \notin disturbed PROVE FALSE
      BY <2>2 DEF Rename, history
    <3>1. Sole(r) /\ Active(r) /\ (IsWheel(r) \/ Holds(r))
      BY <2>2 DEF Sole, Rename, Active, Holds, Ended
    <3>2. tmp[item[r]] # Missing
      BY <2>2, <3>1 DEF FileInv, Rename, Verified, Whole, Openable
    <3>3. ~Writing(item[r]) /\ ~Reading(item[r])
      BY <2>2, <3>1, SoleAtWork DEF Writing, Reading, Rename, Ended
    <3>4. QED
      BY <2>2, <3>2, <3>3 DEF Rename
  <2>3. CASE Break(r)
    BY <2>3 DEF Break, Fault
  <2>4. CASE ~Verify(r) /\ ~Rename(r) /\ ~Break(r)
    BY <2>4 DEF Step, Network, MetadataFails, Get, GetFails, Receive, Lock, LockRuntimes,
         LockPackages, Local, Return, LookForPackage, LookInCache, CheckHash, Replace,
         Sweep, Drop, OpenArchive, Extract, ExtractBreaks, Clear, Cleared, Commit,
         Fail, BadArchive, LoopInv, history
  <2>5. QED
    BY <2>1, <2>2, <2>3, <2>4
<1>5. ~clean'[r] => r \in disturbed'
  <2>1. ASSUME NEW content \in Contents, Receive(r, content)
        PROVE  ~clean'[r] => r \in disturbed'
    BY <2>1 DEF Receive, Fault, LoopInv, history
  <2>2. CASE At(r, "write")' /\ ~\E content \in Contents : Receive(r, content)
    BY <2>2 DEF Step, Network, MetadataFails, Get, GetFails, Break, Lock, LockRuntimes,
         LockPackages, Local, Return, LookForPackage, LookInCache, CheckHash, Verify,
         Replace, Rename, Sweep, Drop, OpenArchive, Extract, ExtractBreaks, Clear,
         Cleared, Commit, Fail, BadArchive, LoopInv, work
  <2>3. QED
    BY <1>3, <2>1, <2>2
<1>6. QED
  BY <1>1, <1>2, <1>3, <1>4, <1>5, StepFrame DEF LoopInv

(* Receive writes the next chunk; Verify looks at what all of them gave. *)
LEMMA StepFileInv ==
  ASSUME TypeOK, LoopInv, FileInv, HistoryInv, LockInv,
         NEW r \in Requests, Step(r)
  PROVE  FileInv'
<1> DEFINE Held(o) ==
      /\ At(o, "write") /\ clean[o] =>
           \A k \in Chunks : k <= offset[o] => tmp[item[o]][k] = "good"
      /\ pc[o] \in {"replace", "rename"} => Verified(item[o], tmp[item[o]])
<1>1. ASSUME NEW o \in Requests, Sole(o)', o # r
      PROVE  Held(o)'
  <2>1. Sole(o) /\ Held(o) /\ item' = item /\ pc'[o] = pc[o]
        /\ offset'[o] = offset[o] /\ clean'[o] = clean[o]
    BY <1>1, StepFrame DEF Sole, IsWheel, FileInv
  <2>2. CASE item[o] = item[r] /\ pc[o] \in {"write", "replace", "rename"}
    <3>1. pc[r] \in Ended \cup {"look"}
      BY <1>1, <2>1, <2>2, SoleAtWork DEF Active, Holds, Ended
    <3>2. tmp' = tmp
      BY <3>1, RestingStep
    <3>3. QED
      BY <2>1, <3>2 DEF At, Verified, Whole, Openable
  <2>3. CASE item[o] # item[r]
    BY <2>1, <2>3, StepFrame DEF At, Verified, Whole, Openable, TypeOK
  <2>4. CASE pc[o] \notin {"write", "replace", "rename"}
    BY <2>1, <2>4 DEF At
  <2>5. QED
    BY <2>2, <2>3, <2>4
<1>2. ASSUME Sole(r)'
      PROVE  Held(r)'
  <2> SUFFICES ASSUME pc'[r] \in {"write", "replace", "rename"}
               PROVE  Held(r)'
    BY DEF At
  <2>1. Sole(r) /\ Held(r) /\ item' = item
    BY <1>2, StepFrame DEF Sole, IsWheel, Active, FileInv
  <2>2. CASE Get(r)
    BY <2>1, <2>2 DEF Get, Go, At, TypeOK, LoopInv, Chunks, work
  <2>3. ASSUME NEW content \in Contents, Receive(r, content)
        PROVE  Held(r)'
    <3>1. At(r, "write") /\ pc' = pc /\ offset'[r] = offset[r] + 1 /\ offset[r] \in 0..Size
      BY <2>3 DEF Receive, TypeOK
    <3>2. clean'[r] => clean[r] /\ content = "good"
      BY <2>3 DEF Receive, TypeOK
    <3>3. tmp[item[r]] \in Rows /\ offset[r] + 1 \in Chunks
      BY <2>3, <3>1, InstallAssumption DEF LoopInv, Receive, Chunks
    <3>4. tmp'[item'[r]] = [tmp[item[r]] EXCEPT ![offset[r] + 1] = content]
      BY <2>1, <2>3 DEF Receive, TypeOK
    <3>5. \A k \in Chunks :
             tmp'[item'[r]][k] = IF k = offset[r] + 1 THEN content ELSE tmp[item[r]][k]
      BY <3>3, <3>4 DEF Rows
    <3>6. ASSUME clean'[r], NEW k \in Chunks, k <= offset'[r]
          PROVE  tmp'[item'[r]][k] = "good"
      BY <2>1, <3>1, <3>2, <3>5, <3>6 DEF Chunks
    <3>7. QED
      BY <3>1, <3>6 DEF At
  <2>4. CASE Verify(r)
    <3>1. tmp' = tmp /\ tmp[item[r]] # Missing /\ offset[r] = Size
      BY <2>4, RowsExist DEF Verify, files, LoopInv
    <3>2. pc'[r] = "replace" /\ (Hashed(r) => clean[r])
                             /\ (~IsWheel(r) => Openable(tmp[item[r]]))
      BY <2>4 DEF Verify, Accepted, Go, TypeOK, Hashed
    <3>3. Hashed(r) => Whole(tmp[item[r]])
      BY <2>1, <2>4, <3>1, <3>2 DEF Whole, Chunks, Verify
    <3>4. QED
      BY <2>1, <3>1, <3>2, <3>3 DEF Verified, Hashed, IsWheel, Whole, Openable, At
  <2>5. CASE Replace(r)
    BY <2>1, <2>5 DEF Replace, Go, At, TypeOK, Verified, Whole, Openable
  <2>6. QED
    BY <2>2, <2>3, <2>4, <2>5
       DEF TypeOK, At, Go, Step, Network, MetadataFails, GetFails, Break, Lock, LockRuntimes,
         LockPackages, Local, Return, LookForPackage, LookInCache, CheckHash,
         Rename, Sweep, Drop, OpenArchive, Extract, ExtractBreaks, Clear,
         Cleared, Commit, Fail, BadArchive
<1>3. QED
  BY <1>1, <1>2 DEF FileInv

(* Only a holder of the lock changes the pool, and only in the last steps. *)
LEMMA StepPool ==
  ASSUME TypeOK, NEW r \in Requests, Step(r)
  PROVE  \/ pool' = pool
         \/ Holds(r) /\ (Clear(r) \/ Cleared(r) \/ Commit(r))
BY DEF Step, Network, MetadataFails, Get, GetFails, Receive, Break, Lock, LockRuntimes,
       LockPackages, Local, Return, LookForPackage, LookInCache, CheckHash, Verify,
       Replace, Rename, Sweep, Drop, OpenArchive, Extract, ExtractBreaks, Clear,
       Cleared, Commit, Holds, StagingStates, At

(* Two holders at work on one item are in two processes. *)
LEMMA HoldersContest ==
  ASSUME HistoryInv, LockInv, NEW r \in Requests, NEW o \in Requests, o # r,
         item[o] = item[r], Holds(r), Holds(o)
  PROVE  item[r] \in contested
<1>1. Active(r) /\ Active(o)
  BY DEF Holds, Active, Ended, StagingStates
<1>2. QED
  BY <1>1 DEF HistoryInv, LockInv, SameStore, IsWheel

(* A step makes a directory partial, or finds one under its lock, only if  *)
(* the item is contested.                                                  *)
LEMMA StepPoolInv ==
  ASSUME TypeOK, HistoryInv, LockInv, PoolInv, CacheIsVerified,
         NEW r \in Requests, Step(r)
  PROVE  PoolInv'
<1>0. Unsure' = Unsure
  BY StepFrame DEF Unsure
<1>1. ASSUME NEW i \in Items
      PROVE  /\ pool'[i] = "partial" => i \in contested'
             /\ pool'[i] = "other" => i \in Unsure'
  <2>1. contested' = contested /\ (i # item[r] => pool'[i] = pool[i])
    BY StepFrame
  <2>2. CASE Clear(r)
    BY <1>0, <2>1, <2>2 DEF Clear, PoolInv, Holds, StagingStates, At, TypeOK
  <2>3. CASE Cleared(r) \/ Commit(r)
    BY <1>0, <2>1, <2>3 DEF Cleared, Commit, PoolInv, Complete, At, TypeOK
  <2>4. QED
    BY <1>0, <2>1, <2>2, <2>3, StepPool DEF PoolInv
<1>2. ASSUME NEW o \in Requests, o # r
      PROVE  /\ Holds(o)' => pool'[item'[o]] = "absent" \/ item'[o] \in contested'
             /\ At(o, "clearing")' => item'[o] \in contested'
             /\ pc'[o] \in {"clear", "clearing", "commit"} =>
                  Complete(staging[o], item[o])
  <2>1. /\ Holds(o)' <=> Holds(o)
        /\ item' = item /\ contested' = contested
        /\ pc'[o] = pc[o] /\ staging'[o] = staging[o]
    BY <1>2, StepFrame DEF Holds, IsWheel
  <2>2. CASE item[o] # item[r]
    BY <1>2, <2>1, <2>2, StepFrame DEF PoolInv, At, TypeOK
  <2>3. CASE item[o] = item[r]
    BY <1>2, <2>1, <2>3, StepPool, HoldersContest DEF PoolInv, At
  <2>4. QED
    BY <2>2, <2>3
<1>3. Holds(r)' => pool'[item'[r]] = "absent" \/ item'[r] \in contested'
  <2> SUFFICES ASSUME Holds(r)'
               PROVE  pool'[item'[r]] = "absent" \/ item'[r] \in contested'
    OBVIOUS
  <2>1. item' = item /\ contested' = contested
    BY StepFrame
  <2>2. CASE Lock(r)
    BY <2>1, <2>2, InstallAssumption DEF Lock, LockRuntimes, LockPackages, Go, Holds,
       IsWheel, PoolInv, Unsure, TypeOK, StagingStates, Ended, At
  <2>3. CASE ~Lock(r)
    <3>1. Holds(r)
      BY <2>3, StepHolds
    <3>2. CASE pool' = pool
      BY <2>1, <3>1, <3>2 DEF PoolInv
    <3>3. CASE Clear(r) \/ Cleared(r) \/ Commit(r)
      BY <2>1, <3>1, <3>3 DEF Clear, Cleared, Commit, PoolInv, Go, Holds, StagingStates,
                              Ended, TypeOK, At
    <3>4. QED
      BY <3>2, <3>3, StepPool
  <2>4. QED
    BY <2>2, <2>3
<1>4. At(r, "clearing")' => item'[r] \in contested'
  <2>1. item' = item /\ contested' = contested
    BY StepFrame
  <2>2. At(r, "clearing")' => Clear(r) /\ pool[item[r]] # "absent"
    BY DEF TypeOK, At, Go, Step, Network, MetadataFails, Get, GetFails, Receive, Break,
       Lock, LockRuntimes, LockPackages, Local, Return, LookForPackage, LookInCache,
       CheckHash, Verify, Replace, Rename, Sweep, Drop, OpenArchive, Extract,
       ExtractBreaks, Clear, Cleared, Commit, Fail, BadArchive
  <2>3. QED
    BY <2>1, <2>2 DEF Clear, PoolInv, Holds, StagingStates, At
<1>5. ASSUME pc'[r] \in {"clear", "clearing", "commit"}
      PROVE  Complete(staging'[r], item[r])
  <2>1. CASE Extract(r)
    <3>1. ~Whole(cache[item[r]]) => item[r] \in Unsure
      <4>1. Extractable(cache[item[r]]) /\ (IsWheel(r) \/ Whole(cache[item[r]]))
        BY <1>5, <2>1 DEF Extract, BadArchive, Fail, Go, TypeOK
      <4>2. cache[item[r]] # Missing
        BY <4>1 DEF Extractable, Openable
      <4>3. QED
        BY <4>1, <4>2 DEF CacheIsVerified, IsWheel, Unsure
    <3>2. staging'[r] = IF Whole(cache[item[r]]) THEN "whole" ELSE "other"
      BY <1>5, <2>1 DEF Extract, BadArchive, Fail, Go, Stage, TypeOK
    <3>3. QED
      BY <3>1, <3>2 DEF Complete
  <2>2. CASE ~Extract(r)
    BY <1>5, <2>2 DEF TypeOK, At, Go, Stage, Step, Network, MetadataFails, Get, GetFails,
       Receive, Break, Lock, LockRuntimes, LockPackages, Local, Return, LookForPackage,
       LookInCache, CheckHash, Verify, Replace, Rename, Sweep, Drop, OpenArchive,
       ExtractBreaks, Clear, Cleared, Commit, Fail, BadArchive, PoolInv
  <2>3. QED
    BY <2>1, <2>2
<1>6. item' = item /\ \A o \in Requests \ {r} : staging'[o] = staging[o]
  BY StepFrame
<1>7. QED
  BY <1>0, <1>1, <1>2, <1>3, <1>4, <1>5, <1>6 DEF PoolInv, Complete

(* So a request that ends well leaves a whole item behind. *)
LEMMA StepDoneIsWhole ==
  ASSUME TypeOK, PoolInv, DoneIsWhole, NEW r \in Requests, Step(r)
  PROVE  DoneIsWhole'
<1> DEFINE Found(i) == Complete(pool'[i], i) \/ i \in contested
<1>1. item' = item /\ contested' = contested /\ Unsure' = Unsure
  BY StepFrame DEF Unsure
<1>2. ASSUME NEW o \in Requests, o # r, At(o, "done")'
      PROVE  Found(item[o])
  <2>1. At(o, "done")
    BY <1>2, StepFrame DEF At
  <2>2. QED
    BY <2>1, StepPool, StepFrame DEF DoneIsWhole, PoolInv, TypeOK, Complete
<1>3. ASSUME At(r, "done")'
      PROVE  Found(item[r])
  BY <1>3 DEF TypeOK, At, Go, Step, Network, MetadataFails, Get, GetFails, Receive, Break,
       Lock, LockRuntimes, LockPackages, Local, Return, LookForPackage, LookInCache,
       CheckHash, Verify, Replace, Rename, Sweep, Drop, OpenArchive, Extract,
       ExtractBreaks, Clear, Cleared, Commit, Fail, BadArchive, PoolInv, Complete
<1>4. QED
  BY <1>1, <1>2, <1>3 DEF DoneIsWhole, Complete

(* A request that nothing has disturbed is alone with its item. *)
LEMMA UndisturbedAlone ==
  ASSUME TypeOK, HistoryInv, NEW r \in Requests, Step(r), NEW o \in Requests, o # r,
         o \notin disturbed, Active(o)
  PROVE  item[o] # item[r]
BY StepFrame DEF HistoryInv

(* An undisturbed request finds its target absent, and its file whole.     *)
LEMMA StepUndisturbedInv ==
  ASSUME TypeOK, HistoryInv, LockInv, LoopInv, FileInv, PoolInv, UndisturbedInv,
         NEW r \in Requests, Step(r)
  PROVE  UndisturbedInv'
<1>1. item' = item
  BY StepFrame
<1>2. ASSUME NEW o \in Requests, o # r, o \notin disturbed'
      PROVE  /\ Holds(o)' => pool'[item[o]] = "absent" /\ ~At(o, "clearing")'
             /\ IsWheel(o)' /\ pc'[o] \in {"sweep", "lock", "stage", "extract"} =>
                  Cached(o)'
  <2>1. o \notin disturbed /\ (Holds(o)' <=> Holds(o)) /\ pc'[o] = pc[o]
    BY <1>1, <1>2, StepFrame DEF Holds, IsWheel
  <2>2. CASE Active(o)
    <3>1. item[o] # item[r] /\ item[o] \in Items
      BY <1>2, <2>1, <2>2, UndisturbedAlone DEF TypeOK
    <3>2. pool'[item[o]] = pool[item[o]] /\ cache'[item[o]] = cache[item[o]]
      BY <3>1, StepFrame
    <3>3. QED
      BY <1>1, <2>1, <3>2 DEF UndisturbedInv, At, IsWheel, Hashed, Cached, Whole
  <2>3. CASE ~Active(o)
    BY <2>1, <2>3 DEF Active, Holds, StagingStates, Ended, At
  <2>4. QED
    BY <2>2, <2>3
<1>3. ASSUME r \notin disturbed', Holds(r)'
      PROVE  pool'[item[r]] = "absent" /\ ~At(r, "clearing")'
  <2>1. Active(r)' /\ r \notin disturbed
    BY <1>3, StepFrame DEF Holds, Active, StagingStates, Ended
  <2>2. item[r] \in contested => IsWheel(r)
    BY DEF HistoryInv, IsWheel
  <2>3. CASE Lock(r)
    BY <1>1, <1>3, <2>2, <2>3, InstallAssumption DEF Lock, LockRuntimes, LockPackages, Go,
       Holds, IsWheel, PoolInv, Unsure, TypeOK, StagingStates, Ended, At
  <2>4. CASE ~Lock(r)
    <3>1. pool[item[r]] = "absent" /\ ~At(r, "clearing")
      BY <1>3, <2>1, <2>4, StepHolds DEF UndisturbedInv
    <3>2. CASE Clear(r) \/ Commit(r)
      BY <1>3, <3>1, <3>2 DEF Clear, Commit, Go, Holds, Stage, StagingStates, Ended, TypeOK, At
    <3>3. CASE ~Clear(r) /\ ~Commit(r)
      BY <3>1, <3>3, StepPool DEF Cleared, TypeOK, At, Go, Step, Network, MetadataFails, Get,
         GetFails, Receive, Break, Lock, LockRuntimes, LockPackages, Local, Return,
         LookForPackage, LookInCache, CheckHash, Verify, Replace, Rename, Sweep, Drop,
         OpenArchive, Extract, ExtractBreaks, Fail, BadArchive
    <3>4. QED
      BY <3>2, <3>3
  <2>5. QED
    BY <2>3, <2>4
<1>4. ASSUME r \notin disturbed', IsWheel(r), pc'[r] \in {"sweep", "lock", "stage", "extract"}
      PROVE  Cached(r)'
  <2>1. r \notin disturbed
    BY <1>4, StepFrame DEF Active
  <2>2. CASE CheckHash(r)
    BY <1>1, <1>4, <2>2 DEF CheckHash, Go, TypeOK, Cached, Hashed, IsWheel, Whole
  <2>3. CASE Rename(r)
    <3>1. Verified(item[r], tmp[item[r]])
      BY <2>1, <2>3 DEF FileInv, Rename, Sole, At
    <3>2. cache'[item[r]] = tmp[item[r]]
      BY <1>4, <2>3 DEF Rename, Go, TypeOK
    <3>3. QED
      BY <1>1, <1>4, <3>1, <3>2 DEF Verified, Cached, Hashed, IsWheel, Whole
  <2>6. CASE LookInCache(r)
    BY <1>1, <1>4, <2>6 DEF LookInCache, FullSize, Go, TypeOK, Cached, Hashed, IsWheel
  <2>4. CASE ~CheckHash(r) /\ ~Rename(r) /\ ~LookInCache(r)
    <3>1. pc[r] \in {"sweep", "lock", "stage", "extract"} /\ cache' = cache
      BY <1>4, <2>4 DEF TypeOK, At, Go, Step, Network, MetadataFails, Get, GetFails, Receive,
         Break, Lock, LockRuntimes, LockPackages, Local, Return, LookForPackage,
         Verify, Replace, Sweep, Drop, OpenArchive, Extract,
         ExtractBreaks, Clear, Cleared, Commit, Fail, BadArchive, files, IsWheel
    <3>2. QED
      BY <1>1, <1>4, <2>1, <3>1 DEF UndisturbedInv, Cached, Hashed, IsWheel, Whole
  <2>5. QED
    BY <2>2, <2>3, <2>4, <2>6
<1>5. QED
  BY <1>1, <1>2, <1>3, <1>4 DEF UndisturbedInv, IsWheel

(* The cached files that fail a request which nothing disturbs. *)
Useless(i, f) ==
  IF i \in Wheels THEN i \in Unhashed /\ f # Missing /\ ~Extractable(f)
                  ELSE f = Missing \/ (Extractable(f) /\ ~Whole(f))

(* Every way to "failed" is a fault, or such a file. *)
LEMMA StepSoloSucceeds ==
  ASSUME TypeOK, HistoryInv, LockInv, LoopInv, FileInv, CacheIsVerified, UndisturbedInv,
         SoloSucceeds, NEW r \in Requests, Step(r)
  PROVE  SoloSucceeds'
<1>1. item' = item
  BY StepFrame
<1>2. ASSUME NEW o \in Requests, o # r, At(o, "failed")', o \notin disturbed'
      PROVE  Useless(item[o], cache'[item[o]])
  <2>1. At(o, "failed") /\ o \notin disturbed /\ Active(o) /\ item[o] \in Items
    BY <1>2, StepFrame DEF At, Active, TypeOK
  <2>2. item[o] # item[r]
    BY <1>2, <2>1, UndisturbedAlone
  <2>3. QED
    BY <2>1, <2>2, StepFrame DEF SoloSucceeds, Useless, IsWheel, Extractable, Openable, Whole
<1>3. ASSUME At(r, "failed")', r \notin disturbed'
      PROVE  Useless(item[r], cache'[item[r]])
  <2> DEFINE f == cache[item[r]]
  <2>1. r \notin disturbed
    BY <1>3, StepFrame DEF Active, At
  <2>2. ~Commit(r) /\ ~Drop(r)
    BY <1>3, <2>1 DEF Commit, Drop, Go, UndisturbedInv, LoopInv, Holds, StagingStates,
                      TypeOK, At
  <2>3. /\ pc[r] \in {"stage", "extract"}
        /\ \/ BadArchive(r) /\ ~Extractable(f)
           \/ cache' = cache /\ ~IsWheel(r) /\ Extractable(f) /\ ~Whole(f)
    <3> USE <1>3, <2>1, <2>2 DEF TypeOK, At, Go
    <3>1. ~Network(r)
      BY DEF Network, MetadataFails, Get, GetFails, Receive, Break, Fail, Fault
    <3>2. ~Lock(r)
      BY DEF Lock, LockRuntimes, LockPackages
    <3>3. ~ExtractBreaks(r)
      BY DEF ExtractBreaks, Fault
    <3>4. OpenArchive(r) \/ Extract(r)
      BY <3>1, <3>2, <3>3 DEF Step, Local, Return, LookForPackage, LookInCache, CheckHash,
         Verify, Replace, Rename, Sweep, Clear, Cleared
    <3>5. QED
      BY <3>4 DEF OpenArchive, Extract, BadArchive, Extractable
  <2>4. Whole(f) => Extractable(f)
    BY InstallAssumption DEF Whole, Extractable, Openable, Chunks
  <2>5. ~Hashed(r)
    BY <2>1, <2>3, <2>4 DEF UndisturbedInv, Cached, Hashed
  <2>6. CASE IsWheel(r)
    <3>1. f # Missing
      BY <2>1, <2>3, <2>6 DEF UndisturbedInv, Cached
    <3>2. QED
      BY <2>3, <2>5, <2>6, <3>1 DEF BadArchive, Useless, Hashed, IsWheel
  <2>7. CASE ~IsWheel(r)
    <3>1. ~ReadByOther(r)
      BY <2>1, <2>3, StepFrame DEF ReadByOther, HistoryInv, Active, At
    <3>2. BadArchive(r) => cache'[item[r]] = Missing
      BY <2>7, <3>1 DEF BadArchive, Uncached, TypeOK
    <3>3. QED
      BY <2>3, <2>7, <3>2 DEF Useless, IsWheel
  <2>8. QED
    BY <2>6, <2>7
<1>4. QED
  BY <1>1, <1>2, <1>3 DEF SoloSucceeds, Useless, IsWheel

(* Rename alone puts a file into the cache, and what it puts is verified. *)
LEMMA StepCache ==
  ASSUME TypeOK, NEW r \in Requests, Step(r), NEW i \in Items, cache'[i] # cache[i]
  PROVE  \/ cache'[i] = Missing
         \/ Rename(r) /\ i = item[r] /\ cache'[i] = tmp[i]
<1>0. Uncached(r)[i] \in {cache[i], Missing}
  BY DEF Uncached, TypeOK
<1> USE <1>0 DEF Step, files, Go
<1>1. CASE Network(r)
  BY <1>1 DEF Network, MetadataFails, Get, GetFails, Receive, Break
<1>2. CASE Lock(r)
  BY <1>2 DEF Lock, LockRuntimes, LockPackages
<1>3. CASE Return(r) \/ LookForPackage(r) \/ LookInCache(r) \/ CheckHash(r)
             \/ Verify(r) \/ Replace(r)
  <2>1. CASE Return(r) \/ LookForPackage(r) \/ Verify(r)
    BY <2>1 DEF Return, LookForPackage, Verify
  <2>2. CASE LookInCache(r)
    BY <2>2 DEF LookInCache
  <2>3. CASE CheckHash(r)
    BY <2>3 DEF CheckHash
  <2>4. CASE Replace(r)
    BY <2>4 DEF Replace
  <2>5. QED
    BY <1>3, <2>1, <2>2, <2>3, <2>4
<1>4. CASE Rename(r) \/ Sweep(r) \/ Drop(r)
  BY <1>4 DEF Rename, Sweep, Drop, TypeOK
<1>5. CASE OpenArchive(r) \/ Extract(r) \/ ExtractBreaks(r)
  BY <1>5 DEF OpenArchive, Extract, ExtractBreaks, BadArchive, Fail
<1>6. CASE Clear(r) \/ Cleared(r) \/ Commit(r)
  BY <1>6 DEF Clear, Cleared, Commit
<1>7. QED
  BY <1>1, <1>2, <1>3, <1>4, <1>5, <1>6 DEF Local

(* A file enters the cache verified, or was raced for. *)
LEMMA StepCacheIsVerified ==
  ASSUME TypeOK, FileInv, CacheIsVerified, NEW r \in Requests, Step(r)
  PROVE  CacheIsVerified'
<1>1. raced' = raced
  BY StepFrame
<1>2. ASSUME Rename(r)
      PROVE  IF item[r] \in Wheels
             THEN Whole(tmp[item[r]]) \/ item[r] \in Unhashed \cup raced
             ELSE Openable(tmp[item[r]])
  BY <1>2 DEF FileInv, Rename, Sole, IsWheel, Verified, At
<1>3. ASSUME NEW i \in Wheels \ Unhashed
      PROVE  cache'[i] = Missing \/ Whole(cache'[i]) \/ i \in raced
  BY <1>2, StepCache DEF CacheIsVerified, Items
<1>4. ASSUME NEW i \in Runtimes
      PROVE  cache'[i] = Missing \/ Openable(cache'[i])
  BY <1>2, StepCache, InstallAssumption DEF CacheIsVerified, Items
<1>5. QED
  BY <1>1, <1>3, <1>4 DEF CacheIsVerified, Whole, Openable

(* Whoever leaves the states in which a temporary file is expected removes *)
(* it, unless somebody is writing it.                                      *)
LEMMA StepNothingLeftBehind ==
  ASSUME TypeOK, NothingLeftBehind, NEW r \in Requests, Step(r)
  PROVE  NothingLeftBehind'
<1>1. item' = item /\ crashes' = crashes
  BY StepFrame
<1>2. ASSUME NEW o \in Requests, staging'[o] # "none"
      PROVE  pc'[o] \in StagingStates
  <2>1. CASE o # r
    BY <1>2, <2>1, StepFrame DEF NothingLeftBehind
  <2>2. CASE o = r
    BY <1>2, <2>2 DEF NothingLeftBehind, StagingStates, TypeOK, At, Go, Stage, Step, Network,
       MetadataFails, Get, GetFails, Receive, Break, Lock, LockRuntimes, LockPackages, Local,
       Return, LookForPackage, LookInCache, CheckHash, Verify, Replace, Rename, Sweep, Drop,
       OpenArchive, Extract, ExtractBreaks, Clear, Cleared, Commit, Fail, BadArchive
  <2>3. QED
    BY <2>1, <2>2
<1> DEFINE Expected(i) ==
      tmp[i] = Missing \/ crashes > 0
        \/ \E o \in Requests : item[o] = i /\ pc[o] \in TmpStates
<1>3. ASSUME NEW i \in Items, i # item[r]
      PROVE  Expected(i)'
  <2>1. Expected(i) /\ tmp'[i] = tmp[i]
    BY <1>3, StepFrame DEF NothingLeftBehind
  <2>2. \A o \in Requests : item[o] = i => pc'[o] = pc[o]
    BY <1>3, StepFrame
  <2>3. QED
    BY <1>1, <2>1, <2>2
<1>4. Expected(item[r])'
  <2>1. Expected(item[r]) /\ item[r] \in Items
    BY DEF NothingLeftBehind, TypeOK
  <2>2. CASE pc'[r] \in TmpStates
    BY <1>1, <2>2
  <2>3. CASE Sweep(r) \/ Drop(r)
    <3>1. CASE Writing(item[r])
      <4>1. PICK o \in Requests : item[o] = item[r] /\ At(o, "write")
        BY <3>1 DEF Writing
      <4>2. o # r
        BY <2>3, <4>1 DEF Sweep, Drop, At
      <4>3. pc'[o] \in TmpStates
        BY <4>1, <4>2, StepFrame DEF At, TmpStates
      <4>4. QED
        BY <1>1, <4>1, <4>3
    <3>2. CASE ~Writing(item[r])
      BY <1>1, <2>1, <2>3, <3>2 DEF Sweep, Drop, Swept, TypeOK
    <3>3. QED
      BY <3>1, <3>2
  <2>4. CASE pc'[r] \notin TmpStates /\ ~Sweep(r) /\ ~Drop(r)
    <3>1. pc[r] \notin TmpStates /\ tmp' = tmp
      BY <2>4 DEF TmpStates, TypeOK, At, Go, Step, Network, MetadataFails, Get, GetFails,
       Receive, Break, Lock, LockRuntimes, LockPackages, Local, Return, LookForPackage,
       LookInCache, CheckHash, Verify, Replace, Rename, OpenArchive, Extract,
       ExtractBreaks, Clear, Cleared, Commit, Fail, BadArchive, files
    <3>2. QED
      BY <1>1, <2>1, <3>1, StepFrame
  <2>5. QED
    BY <2>2, <2>3, <2>4
<1>5. QED
  BY <1>1, <1>2, <1>3, <1>4 DEF NothingLeftBehind

-----------------------------------------------------------------------------
(* Before the first request nothing is there. *)
LEMMA InitIInv == Init => IInv
<1> SUFFICES ASSUME Init PROVE IInv
  OBVIOUS
<1> USE DEF Init
<1>1. (CHOOSE x \in Processes : TRUE) \in Processes
  BY InstallAssumption
<1>2. TypeOK
  BY <1>1, InstallAssumption DEF TypeOK, Files, PcStates, Ended
<1>3. HistoryInv /\ LockInv /\ LoopInv /\ FileInv /\ PoolInv /\ UndisturbedInv
  BY DEF HistoryInv, LockInv, LoopInv, FileInv, PoolInv, UndisturbedInv, Active, Holds,
         StagingStates, Ended, At
<1>4. DoneIsWhole /\ SoloSucceeds /\ CacheIsVerified /\ NothingLeftBehind
  BY DEF DoneIsWhole, SoloSucceeds, CacheIsVerified, NothingLeftBehind, At, Items
<1>5. QED
  BY <1>2, <1>3, <1>4 DEF IInv

(* One step of a request under way. *)
LEMMA StepIInv ==
  ASSUME IInv, NEW r \in Requests, Step(r)
  PROVE  IInv'
BY StepTypeOK, StepHistoryInv, StepLockInv, StepLoopInv, StepFileInv, StepPoolInv,
   StepUndisturbedInv, StepDoneIsWhole, StepSoloSucceeds, StepCacheIsVerified,
   StepNothingLeftBehind DEF IInv

(* A call begins: the history variables note who else is at its item. *)
LEMMA BeginIInv ==
  ASSUME IInv, NEW r \in Requests, NEW x \in Processes, Begin(r, x)
  PROVE  IInv'
<1> USE DEF IInv
<1>1. /\ UNCHANGED <<files, pool, staging, item, offset, clean, crashes>>
      /\ pc' = [pc EXCEPT ![r] = "look"] /\ pc[r] = "idle"
      /\ proc' = [proc EXCEPT ![r] = x]
      /\ IsWheel(r) \/ x \in Servers
      /\ disturbed \subseteq disturbed' /\ disturbed' \subseteq Requests
      /\ raced \subseteq raced' /\ raced' \subseteq Items
      /\ contested \subseteq contested' /\ contested' \subseteq contested \cup {item[r]}
  BY DEF Begin, At, Go, TypeOK
<1>2. ASSUME NEW o \in Requests, o # r, Active(o), item[o] = item[r]
      PROVE  /\ item[r] \in raced' /\ r \in disturbed' /\ o \in disturbed'
             /\ proc[o] # x => item[r] \in contested'
  BY <1>2 DEF Begin, Active
<1>3. item[r] \in contested' => item[r] \in contested \/ IsWheel(r)
  <2>1. SUFFICES ASSUME ~IsWheel(r), NEW o \in Requests, o # r, Active(o),
                        item[o] = item[r], proc[o] # x
                 PROVE  FALSE
    BY DEF Begin, Active
  <2>2. proc[o] \in Servers
    BY <2>1 DEF HistoryInv, IsWheel
  <2>3. QED
    BY <1>1, <2>1, <2>2, InstallAssumption
<1> USE <1>1 DEF files
<1>4. TypeOK'
  BY DEF TypeOK, PcStates
<1>5. HistoryInv'
  BY <1>2, <1>3 DEF HistoryInv, Active, IsWheel, TypeOK
<1>6. \A o \in Requests : Holds(o)' <=> Holds(o)
  BY DEF Holds, IsWheel, TypeOK, StagingStates, Ended
<1>7. LockInv'
  BY <1>6 DEF LockInv, SameStore, IsWheel, TypeOK, Holds, StagingStates, Ended
<1>8. LoopInv' /\ FileInv'
  BY DEF LoopInv, FileInv, Sole, At, TypeOK, IsWheel, Verified, Whole, Openable
<1>9. PoolInv' /\ UndisturbedInv'
  BY <1>6 DEF PoolInv, Complete, Unsure, UndisturbedInv, Cached, Hashed, At, TypeOK,
              IsWheel, Whole
<1>10. DoneIsWhole' /\ SoloSucceeds'
  BY DEF DoneIsWhole, Unsure, SoloSucceeds, At, TypeOK, IsWheel, Whole, Extractable, Openable
<1>11. CacheIsVerified' /\ NothingLeftBehind'
  BY DEF CacheIsVerified, NothingLeftBehind, TypeOK, TmpStates, StagingStates, Whole, Openable
<1>12. QED
  BY <1>4, <1>5, <1>7, <1>8, <1>9, <1>10, <1>11

(* A process dies: its requests are as if they had never begun, except for *)
(* what is on the disk.                                                    *)
LEMMA CrashIInv ==
  ASSUME IInv, NEW x \in Processes, Crash(x)
  PROVE  IInv'
<1> USE DEF IInv
<1> DEFINE dead == {r \in Requests : proc[r] = x /\ pc[r] # "idle"}
<1>1. /\ UNCHANGED <<files, pool, item, proc, raced, contested>>
      /\ crashes < MaxCrashes /\ crashes' = crashes + 1
      /\ pc' = [r \in Requests |-> IF r \in dead THEN "idle" ELSE pc[r]]
      /\ staging' = [r \in Requests |-> IF r \in dead THEN "none" ELSE staging[r]]
      /\ offset' = [r \in Requests |-> IF r \in dead THEN 0 ELSE offset[r]]
      /\ clean' = [r \in Requests |-> r \in dead \/ clean[r]]
      /\ disturbed' = disturbed \ dead
  BY DEF Crash
<1> HIDE DEF dead
<1> USE <1>1 DEF files
<1>2. clean' \in [Requests -> BOOLEAN]
  BY DEF TypeOK
<1>3. crashes' \in 0..MaxCrashes /\ crashes' > 0 /\ 0 \in 0..Size
  BY InstallAssumption DEF TypeOK
<1>4. TypeOK'
  BY <1>2, <1>3 DEF TypeOK, PcStates, Ended
<1>5. HistoryInv'
  BY DEF HistoryInv, Active, IsWheel, TypeOK
<1>6. \A o \in Requests : Holds(o)' => Holds(o) /\ o \notin dead
  BY DEF Holds, IsWheel, TypeOK, StagingStates, Ended
<1>7. LockInv'
  BY <1>6 DEF LockInv, SameStore, IsWheel
<1>8. LoopInv'
  BY DEF LoopInv, At, TypeOK
<1>9. FileInv'
  BY DEF FileInv, Sole, At, TypeOK, IsWheel, Verified, Whole, Openable
<1>10. PoolInv' /\ UndisturbedInv'
  BY <1>6 DEF PoolInv, Complete, Unsure, UndisturbedInv, Cached, Hashed, At, TypeOK,
              IsWheel, Whole
<1>11. DoneIsWhole' /\ SoloSucceeds'
  BY DEF DoneIsWhole, Unsure, SoloSucceeds, At, TypeOK, IsWheel, Whole, Extractable, Openable
<1>12. CacheIsVerified' /\ NothingLeftBehind'
  BY <1>3 DEF CacheIsVerified, NothingLeftBehind, TypeOK, Whole, Openable
<1>13. QED
  BY <1>4, <1>5, <1>7, <1>8, <1>9, <1>10, <1>11, <1>12

(* A step in which nothing happens preserves the inductive invariant. *)
LEMMA StutterIInv == IInv /\ UNCHANGED vars => IInv'
BY DEF IInv, vars, TypeOK, HistoryInv, LockInv, LoopInv, FileInv, PoolInv, UndisturbedInv,
       DoneIsWhole, SoloSucceeds, CacheIsVerified, NothingLeftBehind, Active, Sole, Holds,
       SameStore, IsWheel, At, Verified, Whole, Openable, Extractable, Complete, Unsure,
       Hashed, Cached

(* Every step keeps the invariant. *)
LEMMA NextIInv == IInv /\ [Next]_vars => IInv'
BY StepIInv, BeginIInv, CrashIInv, StutterIInv DEF Next, Step

(* The inductive invariant holds in every reachable state. *)
THEOREM Invariance == Spec => []IInv
<1>1. QED
  BY InitIInv, NextIInv, PTL DEF Spec

(* The variables stay in their types: no chunk is written past the end, and *)
(* no directory but a whole one is renamed into the pool.                  *)
THEOREM TypeCorrect == Spec => []TypeOK
<1>1. IInv => TypeOK
  BY DEF IInv
<1>2. QED
  BY <1>1, Invariance, PTL

(* Whoever EnsurePackage or DownloadAndInstall tells that an item is there *)
(* finds it whole, unless two processes installed it at once.              *)
THEOREM DoneFindsWhole == Spec => []DoneIsWhole
<1>1. IInv => DoneIsWhole
  BY DEF IInv
<1>2. QED
  BY <1>1, Invariance, PTL

(* What lies in the caches passed its check, whatever was received, torn or *)
(* interrupted before.                                                     *)
THEOREM CacheVerified == Spec => []CacheIsVerified
<1>1. IInv => CacheIsVerified
  BY DEF IInv
<1>2. QED
  BY <1>1, Invariance, PTL

(* A request that has its item to itself and meets no fault succeeds,      *)
(* whatever earlier requests, failures and crashes left behind.            *)
THEOREM UndisturbedSucceeds == Spec => []SoloSucceeds
<1>1. IInv => SoloSucceeds
  BY DEF IInv
<1>2. QED
  BY <1>1, Invariance, PTL

(* Temporary files and staging directories outlive their requests only     *)
(* when a process died.                                                    *)
THEOREM NothingStays == Spec => []NothingLeftBehind
<1>1. IInv => NothingLeftBehind
  BY DEF IInv
<1>2. QED
  BY <1>1, Invariance, PTL

-----------------------------------------------------------------------------
(* Refinement: initial states and steps map to PoolPromise's.              *)

(* Clear and Cleared spoil, but only what is contested; Commit installs.   *)
LEMMA StepRefines ==
  ASSUME IInv, NEW r \in Requests, Step(r)
  PROVE  [Promise!Next]_<<pool, Unsure, contested>>
<1>1. /\ UNCHANGED <<Unsure, contested>> /\ item[r] \in Items
      /\ pool \in [Items -> Promise!DirStates]
  BY StepFrame DEF IInv, TypeOK, Promise!DirStates, Unsure
<1>2. CASE pool' = pool
  BY <1>1, <1>2
<1>3. CASE Holds(r) /\ Clear(r)
  <2>1. CASE pool[item[r]] = "absent"
    BY <1>1, <1>3, <2>1 DEF Clear
  <2>2. CASE pool[item[r]] # "absent"
    <3>1. item[r] \in contested
      BY <1>3, <2>2 DEF IInv, PoolInv
    <3>2. pool' = [pool EXCEPT ![item[r]] = "partial"]
      BY <1>3, <2>2 DEF Clear
    <3>3. Promise!Spoil(item[r])
      BY <1>1, <3>1, <3>2 DEF Promise!Spoil, Promise!DirStates
    <3>4. QED
      BY <1>1, <3>3 DEF Promise!Next
  <2>3. QED
    BY <2>1, <2>2
<1>4. CASE Cleared(r)
  <2>1. item[r] \in contested
    BY <1>4 DEF Cleared, IInv, PoolInv
  <2>2. CASE pool' = [pool EXCEPT ![item[r]] = "absent"]
    <3>1. Promise!Spoil(item[r])
      BY <1>1, <2>1, <2>2 DEF Promise!Spoil, Promise!DirStates
    <3>2. QED
      BY <1>1, <3>1 DEF Promise!Next
  <2>3. QED
    BY <1>1, <1>4, <2>2 DEF Cleared
<1>5. CASE Commit(r)
  <2>1. CASE pool[item[r]] = "absent"
    <3>1. /\ pool' = [pool EXCEPT ![item[r]] = staging[r]]
          /\ Complete(staging[r], item[r])
      BY <1>5, <2>1 DEF Commit, IInv, PoolInv, At
    <3>2. Promise!Install(item[r])
      BY <1>1, <2>1, <3>1 DEF Promise!Install, Complete
    <3>3. QED
      BY <1>1, <3>2 DEF Promise!Next
  <2>2. CASE pool[item[r]] # "absent"
    BY <1>1, <1>5, <2>2 DEF Commit
  <2>3. QED
    BY <2>1, <2>2
<1>6. QED
  BY <1>2, <1>3, <1>4, <1>5, StepPool DEF IInv

(* A call that meets another at its item shares it with that one. *)
LEMMA BeginRefines ==
  ASSUME IInv, NEW r \in Requests, NEW x \in Processes, Begin(r, x)
  PROVE  [Promise!Next]_<<pool, Unsure, contested>>
<1>1. /\ pool' = pool /\ contested' \in {contested, contested \cup {item[r]}}
      /\ Unsure' \in {Unsure, Unsure \cup {item[r]}}
  BY DEF Begin, Unsure
<1>2. item[r] \in Items
  BY DEF IInv, TypeOK
<1>3. Promise!Share(item[r])
  BY <1>1 DEF Promise!Share
<1>4. QED
  BY <1>2, <1>3 DEF Promise!Next

(* The stores keep their promise: an item appears whole and in one step,   *)
(* and only what two processes install at once is ever partial or gone.    *)
THEOREM Refinement == Spec => ImplementsPromise
<1>1. Init => Promise!Init
  BY InstallAssumption DEF Init, Promise!Init, Unsure, Items
<1>2. IInv /\ [Next]_vars => [Promise!Next]_<<pool, Unsure, contested>>
  <2> SUFFICES ASSUME IInv, [Next]_vars PROVE [Promise!Next]_<<pool, Unsure, contested>>
    OBVIOUS
  <2>1. ASSUME NEW x \in Processes, Crash(x) PROVE UNCHANGED <<pool, Unsure, contested>>
    BY <2>1 DEF Crash, Unsure
  <2>2. UNCHANGED vars => UNCHANGED <<pool, Unsure, contested>>
    BY DEF vars, Unsure
  <2>3. QED
    BY <2>1, <2>2, StepRefines, BeginRefines DEF Next, Step
<1>3. QED
  BY <1>1, <1>2, Invariance, PTL DEF Spec, ImplementsPromise, Promise!Spec
=============================================================================
