---------------------------- MODULE FiniteOrders ----------------------------
(* Greatest elements of finite sets, for the proofs about choices of a best *)
(* runtime or wheel.                                                        *)
EXTENDS FiniteSetTheorems, WellFoundedInduction, TLAPS

(* In a nonempty finite set under a strict order R some element has none   *)
(* above it: one above which there is least. (Find sorts the runtimes,     *)
(* SelectBestWheel the wheels, and each takes the first.)                  *)
LEMMA MaximalExists ==
  ASSUME NEW S, IsFiniteSet(S), S # {}, NEW R,
         \A a, b, c \in S : <<a, b>> \in R /\ <<b, c>> \in R => <<a, c>> \in R,
         \A a \in S : <<a, a>> \notin R
  PROVE  \E m \in S : \A q \in S : <<m, q>> \notin R
<1> DEFINE Above(r) == {q \in S : <<r, q>> \in R}
           Tails == {Above(r) : r \in S}
           Smaller == StrictSubsetOrdering(S)
<1>1. Tails \subseteq FiniteSubsetsOf(S) /\ Tails # {}
  <2>1. \A r \in S : Above(r) \in SUBSET S
    OBVIOUS
  <2> HIDE DEF Above
  <2>2. \A r \in S : IsFiniteSet(Above(r))
    BY <2>1, FS_Subset
  <2>3. QED
    BY <2>1, <2>2 DEF FiniteSubsetsOf
<1>2. IsWellFoundedOn(Smaller, FiniteSubsetsOf(S))
  BY FS_StrictSubsetOrderingWellFounded
<1>3. PICK A \in Tails : \A B \in Tails : ~ (<<B, A>> \in Smaller)
  <2> HIDE DEF Tails, Smaller
  <2> QED
    BY <1>1, <1>2, WFMin
<1>4. PICK r \in S : A = Above(r)
  OBVIOUS
<1>5. ASSUME NEW q \in S, <<r, q>> \in R
      PROVE  FALSE
  <2>1. Above(q) \in SUBSET S /\ Above(r) \in SUBSET S
    OBVIOUS
  <2>2. Above(q) \subseteq Above(r) /\ q \in Above(r) /\ q \notin Above(q)
    BY <1>5
  <2> HIDE DEF Above
  <2>3. <<Above(q), A>> \in Smaller
    BY <1>4, <2>1, <2>2 DEF StrictSubsetOrdering
  <2>4. Above(q) \in Tails
    OBVIOUS
  <2>5. QED
    BY <1>3, <2>3, <2>4
<1>6. QED
  BY <1>5

(* Every nonempty set of numbers has a least one: what proofs by a least   *)
(* counterexample rest on.                                                 *)
LEMMA LeastExists ==
  ASSUME NEW S \in SUBSET Nat, S # {}
  PROVE  \E m \in S : \A q \in S : m <= q
<1>1. PICK n \in S : n \in Nat
  OBVIOUS
<1> DEFINE T == {q \in S : q <= n}
           Less == {p \in T \X T : p[2] < p[1]}
<1>2. IsFiniteSet(T) /\ n \in T
  <2>1. \A q \in T : q \in Nat /\ q <= n
    OBVIOUS
  <2>2. n \in T
    BY <1>1
  <2> HIDE DEF T
  <2>3. T \in SUBSET (0..n)
    BY <1>1, <2>1
  <2>4. IsFiniteSet(0..n)
    BY <1>1, FS_Interval
  <2>5. QED
    BY <2>2, <2>3, <2>4, FS_Subset
<1>3. \A a, b, c \in T : <<a, b>> \in Less /\ <<b, c>> \in Less => <<a, c>> \in Less
  OBVIOUS
<1>4. \A a \in T : <<a, a>> \notin Less
  OBVIOUS
<1>5. PICK m \in T : \A q \in T : <<m, q>> \notin Less
  <2> HIDE DEF T, Less
  <2>1. T # {}
    BY <1>2
  <2>2. QED
    BY <1>2, <1>3, <1>4, <2>1, MaximalExists
<1>6. \A q \in T : m <= q
  <2> TAKE q \in T
  <2>1. m \in Nat /\ q \in Nat
    OBVIOUS
  <2>2. ~(q < m)
    BY <1>5
  <2>3. QED
    BY <2>1, <2>2
<1>7. \A q \in S : m <= q
  BY <1>1, <1>6
<1>8. QED
  BY <1>7

(* A sequence of k steps that starts with a set and adds, in each step,    *)
(* what grow makes of the set before.                                      *)
IsChain(chain, k, start, grow) ==
  /\ chain[0] = start
  /\ \A i \in 1..k : chain[i] = chain[i - 1] \cup grow[chain[i - 1]]

(* Growing a subset of S by a function of it, step after step, is defined  *)
(* for any number of steps.                                                *)
LEMMA ChainExists ==
  ASSUME NEW S, NEW start \in SUBSET S, NEW grow \in [SUBSET S -> SUBSET S], NEW k \in Nat
  PROVE  \E chain \in [0..k -> SUBSET S] : IsChain(chain, k, start, grow)
<1> USE DEF IsChain
<1> DEFINE Bad == {j \in Nat : ~ \E chain \in [0..j -> SUBSET S] : IsChain(chain, j, start, grow)}
<1>1. SUFFICES ASSUME k \in Bad
               PROVE  FALSE
  OBVIOUS
<1>2. PICK j \in Bad : \A m \in Bad : j <= m
  <2>1. Bad \in SUBSET Nat
    OBVIOUS
  <2> HIDE DEF Bad
  <2>2. QED
    BY <1>1, <2>1, LeastExists
<1>3. j # 0
  <2>1. SUFFICES ASSUME j = 0
                 PROVE  FALSE
    OBVIOUS
  <2> DEFINE one == [i \in 0..0 |-> start]
  <2>2. one \in [0..0 -> SUBSET S]
    OBVIOUS
  <2>3. IsChain(one, 0, start, grow)
    OBVIOUS
  <2>4. QED
    BY <2>1, <2>2, <2>3
<1>4. j - 1 \in Nat /\ j - 1 \notin Bad
  <2>1. j \in Nat
    OBVIOUS
  <2> HIDE DEF Bad
  <2>2. j - 1 \in Nat /\ ~(j <= j - 1)
    BY <1>3, <2>1
  <2>3. QED
    BY <1>2, <2>2
<1>5. PICK c \in [0..(j - 1) -> SUBSET S] : IsChain(c, j - 1, start, grow)
  BY <1>4
<1> DEFINE longer == [i \in 0..j |-> IF i = j THEN c[j - 1] \cup grow[c[j - 1]] ELSE c[i]]
<1>6. longer \in [0..j -> SUBSET S]
  <2>1. j \in Nat \ {0}
    BY <1>2, <1>3
  <2>2. \A i \in 0..(j - 1) : c[i] \in SUBSET S
    BY <1>5
  <2>3. c[j - 1] \cup grow[c[j - 1]] \in SUBSET S
    BY <2>1, <2>2
  <2>4. \A i \in 0..j : i # j => i \in 0..(j - 1)
    BY <2>1
  <2>5. QED
    BY <2>2, <2>3, <2>4
<1>7. longer[0] = start
  BY <1>2, <1>3, <1>5
<1>8. \A i \in 1..j : longer[i] = longer[i - 1] \cup grow[longer[i - 1]]
  <2> TAKE i \in 1..j
  <2>1. j \in Nat \ {0}
    BY <1>2, <1>3
  <2>2. longer[i - 1] = c[i - 1]
    BY <2>1
  <2>3. CASE i = j
    BY <2>1, <2>2, <2>3
  <2>4. CASE i # j
    <3>1. i \in 1..(j - 1) /\ longer[i] = c[i]
      BY <2>1, <2>4
    <3>2. QED
      BY <1>5, <2>2, <3>1
  <2>5. QED
    BY <2>3, <2>4
<1>9. IsChain(longer, j, start, grow)
  BY <1>7, <1>8
<1>10. QED
  BY <1>2, <1>6, <1>9

(* After as many steps as S has elements there is nothing left to add.     *)
LEMMA ChainCloses ==
  ASSUME NEW S, IsFiniteSet(S), NEW grow \in [SUBSET S -> SUBSET S],
         NEW chain \in [0..Cardinality(S) -> SUBSET S], NEW start,
         IsChain(chain, Cardinality(S), start, grow)
  PROVE  grow[chain[Cardinality(S)]] \subseteq chain[Cardinality(S)]
<1> DEFINE N == Cardinality(S)
           Closed(j) == grow[chain[j]] \subseteq chain[j]
           Bad == {j \in 0..N : ~ (Closed(j) \/ Cardinality(chain[j]) >= j)}
<1>1. N \in Nat
  BY FS_CardinalityType
<1>2. \A j \in 0..N : /\ chain[j] \in SUBSET S
                      /\ IsFiniteSet(chain[j])
                      /\ Cardinality(chain[j]) \in Nat /\ Cardinality(chain[j]) <= N
                      /\ Cardinality(chain[j]) = N => chain[j] = S
  <2> TAKE j \in 0..N
  <2>1. chain[j] \in SUBSET S
    OBVIOUS
  <2>2. QED
    BY <2>1, FS_Subset, FS_CardinalityType
<1>3. Bad = {}
  <2>1. SUFFICES ASSUME Bad # {}
                 PROVE  FALSE
    OBVIOUS
  <2>2. PICK j \in Bad : \A m \in Bad : j <= m
    <3>1. Bad \in SUBSET Nat
      BY <1>1
    <3> HIDE DEF Bad
    <3>2. QED
      BY <2>1, <3>1, LeastExists
  <2>3. j \in 0..N /\ j # 0
    BY <1>1, <1>2
  <2>4. j - 1 \in 0..N /\ j \in 1..N /\ j - 1 \notin Bad
    BY <1>1, <2>2, <2>3
  <2>5. chain[j] = chain[j - 1] \cup grow[chain[j - 1]]
    BY <2>4 DEF IsChain
  <2>6. CASE Closed(j - 1)
    <3>1. chain[j] = chain[j - 1]
      BY <2>5, <2>6
    <3>2. QED
      BY <2>2, <2>6, <3>1
  <2>7. CASE ~Closed(j - 1)
    <3>1. Cardinality(chain[j - 1]) >= j - 1
      BY <2>4, <2>7
    <3>2. chain[j - 1] \in SUBSET chain[j] /\ chain[j - 1] # chain[j]
      BY <2>5, <2>7
    <3>3. IsFiniteSet(chain[j])
      BY <1>2, <2>3
    <3>4. /\ Cardinality(chain[j - 1]) <= Cardinality(chain[j])
          /\ Cardinality(chain[j]) # Cardinality(chain[j - 1])
      BY <3>2, <3>3, FS_Subset
    <3>5. Cardinality(chain[j]) \in Nat /\ Cardinality(chain[j - 1]) \in Nat
      BY <1>2, <2>3, <2>4
    <3>6. Cardinality(chain[j]) >= j
      BY <1>1, <2>3, <3>1, <3>4, <3>5
    <3>7. QED
      BY <2>2, <3>6
  <2>8. QED
    BY <2>6, <2>7
<1>4. N \in 0..N
  BY <1>1
<1>5. CASE Closed(N)
  BY <1>5
<1>6. CASE Cardinality(chain[N]) >= N
  <2>1. chain[N] = S
    BY <1>1, <1>2, <1>4, <1>6
  <2>2. QED
    BY <2>1
<1>7. QED
  BY <1>3, <1>4, <1>5, <1>6
=============================================================================
