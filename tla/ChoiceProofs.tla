---------------------------- MODULE ChoiceProofs ----------------------------
(***************************************************************************)
(* What the choice of a runtime (Versions) and of a wheel (Wheels) returns:*)
(* something that fits, the best of it, and something if anything fits.    *)
(***************************************************************************)
EXTENDS Versions, Wheels, FiniteOrders

VersionSet == [major : Nat, minor : Nat, patch : Nat]

(* A text that ParseVersion accepts is a version. *)
LEMMA ParseType ==
  ASSUME NEW t \in Texts, Valid(t)
  PROVE  Parse(t) \in VersionSet
BY DEF Texts, Valid, Parse, VersionSet

(* Compare is a total order: antisymmetric up to equality, transitive, and *)
(* it compares any two versions.                                           *)
THEOREM CompareIsTotalOrder ==
  ASSUME NEW u \in VersionSet, NEW v \in VersionSet, NEW w \in VersionSet
  PROVE  /\ Compare(u, v) = 0 <=> u = v
         /\ Compare(u, v) = -Compare(v, u)
         /\ Compare(u, v) >= 0 /\ Compare(v, w) >= 0 => Compare(u, w) >= 0
         /\ Compare(u, v) > 0 /\ Compare(v, w) > 0 => Compare(u, w) > 0
<1> USE DEF VersionSet, Compare
<1>1. Compare(u, v) = 0 <=> u = v
  OBVIOUS
<1>2. Compare(u, v) = -Compare(v, u)
  OBVIOUS
<1>3. Compare(u, v) >= 0 /\ Compare(v, w) >= 0 => Compare(u, w) >= 0
  OBVIOUS
<1>4. Compare(u, v) > 0 /\ Compare(v, w) > 0 => Compare(u, w) > 0
  OBVIOUS
<1>5. QED
  BY <1>1, <1>2, <1>3, <1>4

(* Find returns an installed runtime that is compatible with what was      *)
(* asked for: the exact version unless another patch is allowed, and then  *)
(* no runtime of the same minor version is later than it, unless it is the *)
(* exact version.                                                          *)
THEOREM FindFits ==
  ASSUME NEW S \in SUBSET VersionSet, NEW requested \in VersionSet,
         NEW allow \in BOOLEAN, NEW r \in Find(S, requested, allow)
  PROVE  /\ r \in S
         /\ IsCompatible(r, requested, allow)
         /\ r = requested
            \/ \A s \in S : IsCompatible(s, requested, TRUE) => Compare(r, s) >= 0
<1>1. \A s \in S : Compare(s, requested) = 0 <=> s = requested
  BY CompareIsTotalOrder
<1>2. CASE Compare(r, requested) = 0
  BY <1>1, <1>2 DEF Find, IsCompatible
<1>3. CASE Compare(r, requested) # 0
  BY <1>3 DEF Find, IsCompatible
<1>4. QED
  BY <1>2, <1>3

(* And it returns one if a compatible runtime is installed. *)
THEOREM FindFinds ==
  ASSUME NEW S \in SUBSET VersionSet, IsFiniteSet(S), NEW requested \in VersionSet,
         NEW allow \in BOOLEAN, NEW s \in S, IsCompatible(s, requested, allow)
  PROVE  Find(S, requested, allow) # {}
<1> DEFINE exact == {r \in S : Compare(r, requested) = 0}
           fits == {r \in S : IsCompatible(r, requested, TRUE)}
           Later == {pair \in fits \X fits : Compare(pair[2], pair[1]) > 0}
<1>1. CASE exact # {}
  BY <1>1 DEF Find
<1>2. CASE exact = {} /\ ~allow
  <2>1. s = requested
    BY <1>2 DEF IsCompatible, VersionSet
  <2>2. Compare(s, requested) = 0
    BY <2>1, CompareIsTotalOrder
  <2>3. QED
    BY <1>2, <2>2
<1>3. CASE exact = {} /\ allow
  <2>1. s \in fits /\ fits \in SUBSET S
    BY DEF IsCompatible
  <2>2. IsFiniteSet(fits)
    BY <2>1, FS_Subset
  <2>3. \A a, b \in fits : <<a, b>> \in Later <=> Compare(b, a) > 0
    OBVIOUS
  <2> HIDE DEF fits, Later
  <2>4. /\ \A a, b, c \in fits :
             <<a, b>> \in Later /\ <<b, c>> \in Later => <<a, c>> \in Later
        /\ \A a \in fits : <<a, a>> \notin Later
    BY <2>1, <2>3, CompareIsTotalOrder
  <2>5. PICK m \in fits : \A q \in fits : <<m, q>> \notin Later
    BY <2>1, <2>2, <2>4, MaximalExists
  <2>6. \A q \in fits : Compare(m, q) >= 0
    <3>1. \A q \in fits : ~ (Compare(q, m) > 0)
      BY <2>3, <2>5
    <3>2. \A q \in fits : Compare(q, m) \in Int /\ Compare(m, q) = -Compare(q, m)
      BY <2>1, CompareIsTotalOrder DEF Compare
    <3>3. QED
      BY <3>1, <3>2
  <2>7. QED
    BY <1>3, <2>6 DEF Find, fits
<1>4. QED
  BY <1>1, <1>2, <1>3

(* A wheel that is selected passes the check for the Python version. *)
LEMMA SelectFits ==
  ASSUME NEW offered, NEW v, NEW w \in SelectBestWheel(offered, v)
  PROVE  w \in offered /\ IsCompatibleWindowsX64(w, v)
BY DEF SelectBestWheel

(* SelectBestWheel selects a wheel if any passes the check. *)
THEOREM SelectFinds ==
  ASSUME NEW offered, IsFiniteSet(offered), NEW v,
         NEW u \in offered, IsCompatibleWindowsX64(u, v)
  PROVE  SelectBestWheel(offered, v) # {}
<1> DEFINE compatible == {w \in offered : IsCompatibleWindowsX64(w, v)}
           Better == {pair \in compatible \X compatible :
                        WheelScore(pair[1], v) < WheelScore(pair[2], v)}
<1>1. u \in compatible /\ compatible \in SUBSET offered
  OBVIOUS
<1>2. IsFiniteSet(compatible)
  BY <1>1, FS_Subset
<1>3. \A a, b \in compatible :
        <<a, b>> \in Better <=> WheelScore(a, v) < WheelScore(b, v)
  OBVIOUS
<1>4. \A a : WheelScore(a, v) \in Nat
  BY DEF WheelScore
<1> HIDE DEF compatible, Better
<1>5. /\ \A a, b, c \in compatible :
           <<a, b>> \in Better /\ <<b, c>> \in Better => <<a, c>> \in Better
      /\ \A a \in compatible : <<a, a>> \notin Better
  BY <1>3, <1>4
<1>6. PICK m \in compatible : \A q \in compatible : <<m, q>> \notin Better
  BY <1>1, <1>2, <1>5, MaximalExists
<1>7. \A q \in compatible : WheelScore(q, v) <= WheelScore(m, v)
  <2>1. \A q \in compatible : ~ (WheelScore(m, v) < WheelScore(q, v))
    BY <1>3, <1>6
  <2>2. QED
    BY <1>4, <2>1
<1>8. QED
  BY <1>7 DEF SelectBestWheel, compatible

(* A wheel that passes the check for a version of Python 3 is one it can   *)
(* load, but for what the check does not look at.                          *)
THEOREM CompatibleIsLoadable ==
  ASSUME NEW w \in WheelTags, NEW v \in VersionSet, v.major = 3,
         IsCompatibleWindowsX64(w, v)
  PROVE  LoadableAsRead(w, v)
<1> DEFINE Fits(p, a) == (\E plat \in w.plat : Imports(v, p, a, plat)) \/ Overlooked(w, v, p, a)
<1>1. SUFFICES \E p \in PyOf(w), a \in w.abi : Fits(p, a)
  BY DEF LoadableAsRead, Loadable
<1>2. w.abi # {} /\ None.impl = "none"
  BY DEF WheelTags, None
<1>3. \E plat \in w.plat : plat \in {"win_amd64", "any"} /\ (w.plat # {"any"} => plat = "win_amd64")
  BY DEF IsCompatibleWindowsX64, ForWindows
<1>4. CASE Contains(PyOf(w), "py", 3) /\ w.abi = {None}
  BY <1>3, <1>4 DEF Contains, Imports, Overlooked
<1>5. CASE Contains(PyOf(w), "py", 3) /\ w.plat = {"any"} /\ w.abi # {None}
  BY <1>2, <1>3, <1>5 DEF Contains, Imports, Overlooked
<1>6. CASE Stable(w) /\ (Contains(PyOf(w), "cp", 3) \/ Contains(PyOf(w), "cp", Expected(v)))
  BY <1>3, <1>6 DEF Contains, Stable, Imports, Overlooked
<1>7. CASE Exact(w, v)
  BY <1>3, <1>7 DEF Contains, Exact, Imports, Overlooked
<1>8. CASE Contains(PyOf(w), "cp", Expected(v)) /\ w.abi = {None}
  BY <1>3, <1>8 DEF Contains, Imports, Overlooked
<1>9. QED
  BY <1>4, <1>5, <1>6, <1>7, <1>8 DEF IsCompatibleWindowsX64
=============================================================================
