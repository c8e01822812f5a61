---------------------------- MODULE PoolPromise ----------------------------
(***************************************************************************)
(* What the stores promise of an item of the pool, a package version or a  *)
(* Python runtime: it appears whole, in one step, and stays. The promise   *)
(* ends for an item that two processes install at the same time: each      *)
(* holds a lock, but not the same one. An item nothing was verified of may *)
(* be other than the one asked for, but it appears complete and in one     *)
(* step as well.                                                           *)
(***************************************************************************)
CONSTANT Items

VARIABLES
  pool,      \* each item's directory: "absent", "whole", "other" or "partial"
  unsure,    \* items of which nothing says that they are what was published
  contested  \* items that two processes have installed at the same time

DirStates == {"absent", "whole", "other", "partial"}

Init ==
  /\ pool = [i \in Items |-> "absent"]
  /\ unsure \in SUBSET Items
  /\ contested = {}

Install(i) ==
  /\ pool[i] = "absent"
  /\ \E d \in {"whole"} \cup (IF i \in unsure THEN {"other"} ELSE {}) :
       pool' = [pool EXCEPT ![i] = d]
  /\ UNCHANGED <<unsure, contested>>

(* Two requests, of one process or of two, are at it at the same time.     *)
Share(i) ==
  /\ unsure' \in {unsure, unsure \cup {i}}
  /\ contested' \in {contested, contested \cup {i}}
  /\ UNCHANGED pool

Spoil(i) ==
  /\ i \in contested
  /\ \E d \in DirStates : pool' = [pool EXCEPT ![i] = d]
  /\ UNCHANGED <<unsure, contested>>

Next == \E i \in Items : Install(i) \/ Share(i) \/ Spoil(i)

Spec == Init /\ [][Next]_<<pool, unsure, contested>>
=============================================================================
