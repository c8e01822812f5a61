------------------------------ MODULE Versions ------------------------------
(* Python versions (pkg/runtime/version.go), and the choice of an installed *)
(* runtime for one (RuntimeStore.Find).                                     *)
EXTENDS Integers, Sequences

(* What a manifest may say: two or three numbers, the last of them perhaps *)
(* with a suffix ("3.13.0-rc1").                                           *)
Texts == [numbers : Seq(Nat), suffix : BOOLEAN]

(* Manifest.Validate: semverRegex. *)
Valid(t) == Len(t.numbers) \in {2, 3}

(* ParseVersion: a suffix is not a number. *)
Parses(t) == Len(t.numbers) \in {2, 3} /\ ~t.suffix

Parse(t) == [major |-> t.numbers[1], minor |-> t.numbers[2],
             patch |-> IF Len(t.numbers) = 3 THEN t.numbers[3] ELSE 0]

IsCompatible(v, requested, allowCompatible) ==
  /\ v.major = requested.major
  /\ v.minor = requested.minor
  /\ allowCompatible \/ v.patch = requested.patch

Compare(v, w) ==
  LET Sign(a, b) == IF a < b THEN -1 ELSE IF a > b THEN 1 ELSE 0
  IN  CASE v.major # w.major -> Sign(v.major, w.major)
        [] v.major = w.major /\ v.minor # w.minor -> Sign(v.minor, w.minor)
        [] OTHER -> Sign(v.patch, w.patch)

(* The runtimes Find may return, none of them if there is no match. *)
Find(runtimes, requested, allowCompatible) ==
  LET exact == {r \in runtimes : Compare(r, requested) = 0}
      fits == {r \in runtimes : IsCompatible(r, requested, TRUE)}
  IN  IF exact # {} \/ ~allowCompatible THEN exact
      ELSE {r \in fits : \A s \in fits : Compare(r, s) >= 0}
=============================================================================
