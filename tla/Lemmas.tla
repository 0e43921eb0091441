------------------------------- MODULE Lemmas -------------------------------
(***************************************************************************)
(* What the proofs of several modules rest on.                             *)
(*                                                                         *)
(* Sums: what the folds of the community modules compute when they add up  *)
(* the values of a function: FoldSet (Throughput) and FoldFunction         *)
(* (KeywordFixtures) pick the elements of a set in an order that nothing   *)
(* is known about.                                                         *)
(*                                                                         *)
(* Scripts: what is still to be done of a sequence of steps (HostStack,    *)
(* Supervisors) after the first one, and with others put in front.         *)
(***************************************************************************)
EXTENDS Sequences, FiniteSetsExt, FiniteSetTheorems, WellFoundedInduction, TLAPS

(* Induction over the numbers, for a set of them rather than a predicate.  *)
LEMMA SetInduction ==
  ASSUME NEW T \in SUBSET Nat, 0 \in T, \A n \in T : n + 1 \in T
  PROVE  T = Nat
<1> SUFFICES ASSUME T # Nat PROVE FALSE
  OBVIOUS
<1> DEFINE U == Nat \ T
           R == OpToRel(<, Nat)
<1>1. IsWellFoundedOn(R, Nat)
  BY NatLessThanWellFounded
<1>2. U \subseteq Nat /\ U # {}
  OBVIOUS
<1> HIDE DEF U, R
<1>3. PICK m \in U : \A k \in U : ~ (<<k, m>> \in R)
  BY <1>1, <1>2, WFMin
<1> USE DEF U
<1>4. m \in Nat /\ m # 0 /\ m - 1 \in Nat
  BY <1>3
<1>5. <<m - 1, m>> \in R
  BY <1>4 DEF R, OpToRel
<1>6. m - 1 \in T
  BY <1>3, <1>4, <1>5
<1>7. m = (m - 1) + 1
  BY <1>4
<1>8. m \in T
  BY <1>6, <1>7
<1> QED
  BY <1>3, <1>8

(* The sum of w over S, as both folds compute it: g is the recursive       *)
(* function over the subsets of S that MapThenFoldSet defines.             *)
Pick(s) == CHOOSE x \in s : TRUE
Recursion(w, S, g) ==
  g = [s \in SUBSET S |-> IF s = {} THEN 0 ELSE w[Pick(s)] + g[s \ {Pick(s)}]]
SumOf(w, S) == (CHOOSE g : Recursion(w, S, g))[S]

(* FoldSet adds the values up.                                             *)
LEMMA FoldSetIsSum ==
  ASSUME NEW w, NEW S
  PROVE  FoldSet(LAMBDA x, sum : w[x] + sum, 0, S) = SumOf(w, S)
  BY DEF FoldSet, MapThenFoldSet, SumOf, Recursion, Pick

(* So does FoldFunction.                                                   *)
LEMMA FoldFunctionIsSum ==
  ASSUME NEW w
  PROVE  FoldFunction(LAMBDA x, sum : x + sum, 0, w) = SumOf(w, DOMAIN w)
  BY DEF FoldFunction, FoldFunctionOnSet, MapThenFoldSet, SumOf, Recursion, Pick

-----------------------------------------------------------------------------
(* A function of the sets of indexes that grows by what is added to a set. *)
IsSum(w, n, F) ==
  /\ F \in [SUBSET (1 .. n) -> Int]
  /\ F[{}] = 0
  /\ \A S \in SUBSET (1 .. n) : \A x \in (1 .. n) \ S : F[S \cup {x}] = w[x] + F[S]

(* There is one, whatever the values: by induction on the last index.      *)
LEMMA SumExists ==
  ASSUME NEW n \in Nat, NEW w \in [1 .. n -> Int]
  PROVE  \E F : IsSum(w, n, F)
<1> DEFINE T == {k \in Nat : k <= n => \E F : IsSum(w, k, F)}
<1>1. 0 \in T
  <2> DEFINE F == [s \in SUBSET (1 .. 0) |-> 0]
  <2>1. IsSum(w, 0, F)
    <3>1. 1 .. 0 = {}
      OBVIOUS
    <3> QED
      BY <3>1 DEF IsSum
  <2> QED
    BY <2>1
<1>2. ASSUME NEW k \in T PROVE k + 1 \in T
  <2> SUFFICES ASSUME k + 1 <= n PROVE \E G : IsSum(w, k + 1, G)
    OBVIOUS
  <2>1. PICK F : IsSum(w, k, F)
    OBVIOUS
  <2> DEFINE m == k + 1
             G == [S \in SUBSET (1 .. m) |->
                    IF m \in S THEN w[m] + F[S \ {m}] ELSE F[S]]
  <2>2. k \in Nat /\ m \in Nat /\ m <= n /\ 1 .. m = (1 .. k) \cup {m} /\ m \notin 1 .. k
    OBVIOUS
  <2> HIDE DEF m
  <2>3. \A x \in 1 .. m : w[x] \in Int
    BY <2>2
  <2>4. /\ F \in [SUBSET (1 .. k) -> Int] /\ F[{}] = 0
        /\ \A S \in SUBSET (1 .. k) : \A x \in (1 .. k) \ S : F[S \cup {x}] = w[x] + F[S]
    BY <2>1 DEF IsSum
  <2>5. \A S \in SUBSET (1 .. m) :
          /\ m \in S => G[S] = w[m] + F[S \ {m}] /\ S \ {m} \in SUBSET (1 .. k)
          /\ m \notin S => G[S] = F[S] /\ S \in SUBSET (1 .. k)
    BY <2>2
  <2>6. G \in [SUBSET (1 .. m) -> Int]
    <3>1. ASSUME NEW S \in SUBSET (1 .. m) PROVE G[S] \in Int
      <4>1. CASE m \in S
        <5>1. w[m] \in Int /\ F[S \ {m}] \in Int /\ G[S] = w[m] + F[S \ {m}]
          BY <4>1, <2>3, <2>4, <2>5
        <5> QED
          BY <5>1
      <4>2. CASE m \notin S
        BY <4>2, <2>4, <2>5
      <4> QED
        BY <4>1, <4>2
    <3> QED
      BY <3>1
  <2>7. G[{}] = 0
    BY <2>4
  <2> HIDE DEF G
  <2>8. ASSUME NEW S \in SUBSET (1 .. m), NEW x \in (1 .. m) \ S
        PROVE  G[S \cup {x}] = w[x] + G[S]
    <3>1. S \cup {x} \in SUBSET (1 .. m)
      OBVIOUS
    <3>2. CASE x = m
      <4>1. (S \cup {x}) \ {m} = S
        BY <3>2
      <4>2. G[S \cup {x}] = w[m] + F[(S \cup {x}) \ {m}] /\ G[S] = F[S]
        BY <3>1, <3>2, <2>5
      <4> QED
        BY <4>1, <4>2, <3>2
    <3>3. CASE x # m /\ m \notin S
      <4>1. S \in SUBSET (1 .. k) /\ x \in (1 .. k) \ S
        BY <3>3, <2>2
      <4>2. G[S] = F[S] /\ G[S \cup {x}] = F[S \cup {x}]
        BY <3>1, <3>3, <2>5
      <4> QED
        BY <4>1, <4>2, <2>4
    <3>4. CASE x # m /\ m \in S
      <4> DEFINE R == S \ {m}
      <4>1. R \in SUBSET (1 .. k) /\ x \in (1 .. k) \ R /\ (S \cup {x}) \ {m} = R \cup {x}
        BY <3>4, <2>2
      <4>2. G[S] = w[m] + F[R] /\ G[S \cup {x}] = w[m] + F[R \cup {x}]
        BY <3>1, <3>4, <4>1, <2>5
      <4>3. F[R \cup {x}] = w[x] + F[R]
        BY <4>1, <2>4
      <4>4. F[R] \in Int /\ w[x] \in Int /\ w[m] \in Int
        BY <4>1, <2>2, <2>3, <2>4
      <4> QED
        BY <4>2, <4>3, <4>4
    <3> QED
      BY <3>2, <3>3, <3>4
  <2> QED
    BY <2>6, <2>7, <2>8 DEF IsSum, m
<1>3. T = Nat
  <2>1. T \in SUBSET Nat
    OBVIOUS
  <2> HIDE DEF T
  <2> QED
    BY <1>1, <1>2, <2>1, SetInduction
<1>4. n \in T
  BY <1>3
<1> QED
  BY <1>4

(* The folds compute it, in whatever order: by induction on how many       *)
(* elements are left.                                                      *)
LEMMA FoldsAgree ==
  ASSUME NEW n \in Nat, NEW w \in [1 .. n -> Int], NEW F, IsSum(w, n, F),
         NEW S \in SUBSET (1 .. n)
  PROVE  SumOf(w, S) = F[S]
<1>1. /\ F \in [SUBSET (1 .. n) -> Int] /\ F[{}] = 0
      /\ \A R \in SUBSET (1 .. n) : \A x \in (1 .. n) \ R : F[R \cup {x}] = w[x] + F[R]
  BY DEF IsSum
<1>2. ASSUME NEW s \in SUBSET S, s # {}
      PROVE  /\ Pick(s) \in s /\ s \ {Pick(s)} \in SUBSET S
             /\ F[s] = w[Pick(s)] + F[s \ {Pick(s)}]
  <2>1. Pick(s) \in s
    BY <1>2 DEF Pick
  <2> DEFINE p == Pick(s)
             R == s \ {p}
  <2> HIDE DEF p
  <2>2. R \in SUBSET (1 .. n) /\ p \in (1 .. n) \ R /\ R \cup {p} = s
    BY <2>1 DEF p
  <2>3. F[R \cup {p}] = w[p] + F[R]
    BY <2>2, <1>1
  <2> QED
    BY <2>1, <2>2, <2>3 DEF p
<1>3. \E g : Recursion(w, S, g)
  <2> DEFINE g == [s \in SUBSET S |-> F[s]]
  <2>1. ASSUME NEW s \in SUBSET S
        PROVE  g[s] = IF s = {} THEN 0 ELSE w[Pick(s)] + g[s \ {Pick(s)}]
    <3>1. CASE s = {}
      BY <3>1, <1>1
    <3>2. CASE s # {}
      <4>1. s \ {Pick(s)} \in SUBSET S /\ F[s] = w[Pick(s)] + F[s \ {Pick(s)}]
        BY <3>2, <1>2
      <4>2. g[s] = F[s] /\ g[s \ {Pick(s)}] = F[s \ {Pick(s)}]
        BY <4>1
      <4> QED
        BY <4>1, <4>2, <3>2
    <3> QED
      BY <3>1, <3>2
  <2>2. g = [s \in SUBSET S |-> g[s]]
    OBVIOUS
  <2> HIDE DEF g
  <2>3. Recursion(w, S, g)
    BY <2>1, <2>2 DEF Recursion
  <2> QED
    BY <2>3
<1> DEFINE g == CHOOSE g : Recursion(w, S, g)
<1>4. Recursion(w, S, g)
  BY <1>3
<1> HIDE DEF g
<1>5. \A s \in SUBSET S : g[s] = IF s = {} THEN 0 ELSE w[Pick(s)] + g[s \ {Pick(s)}]
  BY <1>4 DEF Recursion
<1>6. IsFiniteSet(S)
  <2>1. IsFiniteSet(1 .. n)
    BY FS_Interval
  <2> QED
    BY <2>1, FS_Subset
<1> DEFINE T == {k \in Nat : \A s \in SUBSET S : Cardinality(s) = k => g[s] = F[s]}
<1>7. 0 \in T
  <2>1. ASSUME NEW s \in SUBSET S, Cardinality(s) = 0 PROVE g[s] = F[s]
    <3>1. IsFiniteSet(s)
      BY <1>6, FS_Subset
    <3>2. s = {}
      BY <3>1, <2>1, FS_EmptySet
    <3> QED
      BY <3>2, <1>1, <1>5
  <2> QED
    BY <2>1
<1>8. ASSUME NEW k \in T PROVE k + 1 \in T
  <2>1. ASSUME NEW s \in SUBSET S, Cardinality(s) = k + 1 PROVE g[s] = F[s]
    <3>1. IsFiniteSet(s)
      BY <1>6, FS_Subset
    <3>2. s # {}
      <4>1. k \in Nat /\ k + 1 # 0
        OBVIOUS
      <4> QED
        BY <4>1, <2>1, FS_EmptySet
    <3>3. Pick(s) \in s /\ s \ {Pick(s)} \in SUBSET S /\ F[s] = w[Pick(s)] + F[s \ {Pick(s)}]
      BY <3>2, <1>2
    <3>4. Cardinality(s \ {Pick(s)}) = k
      <4>1. Cardinality(s \ {Pick(s)}) = Cardinality(s) - 1
        BY <3>1, <3>3, FS_RemoveElement
      <4> QED
        BY <4>1, <2>1
    <3>5. g[s \ {Pick(s)}] = F[s \ {Pick(s)}]
      BY <3>3, <3>4
    <3> QED
      BY <3>2, <3>3, <3>5, <1>5
  <2> QED
    BY <2>1
<1>9. T = Nat
  <2>1. T \in SUBSET Nat
    OBVIOUS
  <2> HIDE DEF T
  <2> QED
    BY <1>7, <1>8, <2>1, SetInduction
<1>10. g[S] = F[S]
  <2>1. Cardinality(S) \in Nat
    BY <1>6, FS_CardinalityType
  <2> QED
    BY <2>1, <1>9
<1> QED
  BY <1>10 DEF SumOf, g

(* The sum over no element is zero, and an element more adds its value.    *)
LEMMA SumGrows ==
  ASSUME NEW n \in Nat, NEW w \in [1 .. n -> Int]
  PROVE  /\ SumOf(w, {}) = 0
         /\ \A S \in SUBSET (1 .. n) :
              /\ SumOf(w, S) \in Int
              /\ \A x \in (1 .. n) \ S : SumOf(w, S \cup {x}) = w[x] + SumOf(w, S)
<1>1. PICK F : IsSum(w, n, F)
  BY SumExists
<1>2. \A S \in SUBSET (1 .. n) : SumOf(w, S) = F[S]
  BY <1>1, FoldsAgree
<1>3. /\ F \in [SUBSET (1 .. n) -> Int] /\ F[{}] = 0
      /\ \A S \in SUBSET (1 .. n) : \A x \in (1 .. n) \ S : F[S \cup {x}] = w[x] + F[S]
  BY <1>1 DEF IsSum
<1>4. ASSUME NEW S \in SUBSET (1 .. n), NEW x \in (1 .. n) \ S
      PROVE  SumOf(w, S \cup {x}) = w[x] + SumOf(w, S)
  <2>1. SumOf(w, S \cup {x}) = F[S \cup {x}]
    BY <1>2
  <2>2. SumOf(w, S) = F[S]
    BY <1>2
  <2>3. F[S \cup {x}] = w[x] + F[S]
    BY <1>3
  <2> QED
    BY <2>1, <2>2, <2>3
<1>5. SumOf(w, {}) = 0
  BY <1>2, <1>3
<1>6. \A S \in SUBSET (1 .. n) : SumOf(w, S) \in Int
  BY <1>2, <1>3
<1> QED
  BY <1>4, <1>5, <1>6

(* So the sum of a list is its last value more than that of the others.    *)
LEMMA SumUpTo ==
  ASSUME NEW n \in Nat, NEW w \in [1 .. n -> Int]
  PROVE  /\ SumOf(w, 1 .. 0) = 0
         /\ \A k \in 0 .. n : SumOf(w, 1 .. k) \in Int
         /\ \A k \in 0 .. n - 1 : SumOf(w, 1 .. k + 1) = w[k + 1] + SumOf(w, 1 .. k)
<1>1. 1 .. 0 = {}
  OBVIOUS
<1>2. \A k \in 0 .. n : 1 .. k \in SUBSET (1 .. n)
  OBVIOUS
<1>3. ASSUME NEW k \in 0 .. n - 1
      PROVE  SumOf(w, 1 .. k + 1) = w[k + 1] + SumOf(w, 1 .. k)
  <2>1. 1 .. k + 1 = (1 .. k) \cup {k + 1} /\ k + 1 \in (1 .. n) \ (1 .. k)
    OBVIOUS
  <2>2. 1 .. k \in SUBSET (1 .. n)
    BY <1>2
  <2>3. SumOf(w, (1 .. k) \cup {k + 1}) = w[k + 1] + SumOf(w, 1 .. k)
    <3>1. \A S \in SUBSET (1 .. n) : \A x \in (1 .. n) \ S :
            SumOf(w, S \cup {x}) = w[x] + SumOf(w, S)
      BY SumGrows
    <3> QED
      BY <2>1, <2>2, <3>1
  <2> QED
    BY <2>1, <2>3
<1> QED
  BY <1>1, <1>2, <1>3, SumGrows

(* Numbers to be added in turn.                                            *)
Listing(n) == [1 .. n -> Int]

(* A sum depends on nothing but the values that are added.                 *)
LEMMA SumOfPrefix ==
  ASSUME NEW n \in Nat, NEW m \in Nat, m <= n, NEW v \in Listing(m), NEW w \in Listing(n),
         \A i \in 1 .. m : v[i] = w[i]
  PROVE  \A k \in 0 .. m : SumOf(v, 1 .. k) = SumOf(w, 1 .. k)
<1>0. v \in [1 .. m -> Int] /\ w \in [1 .. n -> Int]
  BY DEF Listing
<1>1. /\ SumOf(w, 1 .. 0) = 0
      /\ \A k \in 0 .. n - 1 : SumOf(w, 1 .. k + 1) = w[k + 1] + SumOf(w, 1 .. k)
  BY <1>0, SumUpTo
<1>2. /\ SumOf(v, 1 .. 0) = 0
      /\ \A k \in 0 .. m - 1 : SumOf(v, 1 .. k + 1) = v[k + 1] + SumOf(v, 1 .. k)
  BY <1>0, SumUpTo
<1> DEFINE T == {k \in Nat : k <= m => SumOf(v, 1 .. k) = SumOf(w, 1 .. k)}
<1>3. 0 \in T
  BY <1>1, <1>2
<1>4. ASSUME NEW k \in T PROVE k + 1 \in T
  <2> SUFFICES ASSUME k + 1 <= m
               PROVE  SumOf(v, 1 .. k + 1) = SumOf(w, 1 .. k + 1)
    OBVIOUS
  <2>1. k \in 0 .. m - 1 /\ k \in 0 .. n - 1 /\ k + 1 \in 1 .. m
    OBVIOUS
  <2>2. SumOf(v, 1 .. k) = SumOf(w, 1 .. k)
    OBVIOUS
  <2> QED
    BY <1>1, <1>2, <2>1, <2>2
<1>5. T = Nat
  <2>1. T \in SUBSET Nat
    OBVIOUS
  <2> HIDE DEF T
  <2> QED
    BY <1>3, <1>4, <2>1, SetInduction
<1> QED
  <2> SUFFICES ASSUME NEW k \in 0 .. m PROVE SumOf(v, 1 .. k) = SumOf(w, 1 .. k)
    OBVIOUS
  <2>1. k \in Nat /\ k <= m
    OBVIOUS
  <2>2. k \in T
    <3> HIDE DEF T
    <3> QED
      BY <2>1, <1>5
  <2> QED
    BY <2>1, <2>2

-----------------------------------------------------------------------------
(* Scripts.                                                                *)

(* A step of S is there.                                                   *)
Contains(s, S) == \E i \in 1 .. Len(s) : s[i] \in S

(* Every step of A has one of B after it.                                  *)
Followed(s, A, B) ==
  \A i \in 1 .. Len(s) : s[i] \in A => \E j \in 1 .. Len(s) : i < j /\ s[j] \in B

(* No step of A has one of B after it.                                     *)
Before(s, A, B) ==
  \A i, j \in 1 .. Len(s) : i < j /\ s[i] \in A => s[j] \notin B

(* All steps are of S.                                                     *)
Among(s, S) == \A i \in 1 .. Len(s) : s[i] \in S

(* What is still to be done after the first step.                          *)
LEMMA TailFacts ==
  ASSUME NEW X, NEW s \in Seq(X), s # <<>>
  PROVE  /\ Head(s) \in X /\ Tail(s) \in Seq(X)
         /\ Len(s) \in Nat \ {0} /\ Len(Tail(s)) = Len(s) - 1
         /\ s[1] = Head(s) /\ \A i \in 1 .. Len(s) - 1 : Tail(s)[i] = s[i + 1]
  OBVIOUS

(* What is contained is done first or is contained in the rest.            *)
LEMMA ContainsTail ==
  ASSUME NEW X, NEW s \in Seq(X), s # <<>>, NEW S
  PROVE  Contains(s, S) <=> Head(s) \in S \/ Contains(Tail(s), S)
<1> DEFINE t == Tail(s)
           n == Len(s)
<1>1. /\ n \in Nat \ {0} /\ Len(t) = n - 1 /\ s[1] = Head(s)
      /\ \A i \in 1 .. n - 1 : t[i] = s[i + 1]
  BY TailFacts
<1> HIDE DEF t, n
<1>2. ASSUME NEW i \in 1 .. n, s[i] \in S PROVE s[1] \in S \/ \E j \in 1 .. n - 1 : t[j] \in S
  <2>1. CASE i = 1
    BY <1>2, <2>1
  <2>2. CASE i # 1
    <3>1. i - 1 \in 1 .. n - 1 /\ (i - 1) + 1 = i
      BY <1>1, <2>2
    <3> QED
      BY <1>1, <1>2, <3>1
  <2> QED
    BY <2>1, <2>2
<1>3. ASSUME NEW j \in 1 .. n - 1, t[j] \in S PROVE \E i \in 1 .. n : s[i] \in S
  <2>1. j + 1 \in 1 .. n
    BY <1>1
  <2> QED
    BY <1>1, <1>3, <2>1
<1>4. 1 \in 1 .. n
  BY <1>1
<1> QED
  BY <1>1, <1>2, <1>3, <1>4 DEF Contains, t, n

(* What follows is in the rest.                                            *)
LEMMA FollowedTail ==
  ASSUME NEW X, NEW s \in Seq(X), s # <<>>, NEW A, NEW B, Followed(s, A, B)
  PROVE  /\ Followed(Tail(s), A, B)
         /\ Head(s) \in A => Contains(Tail(s), B)
<1> DEFINE t == Tail(s)
           n == Len(s)
<1>1. /\ n \in Nat \ {0} /\ Len(t) = n - 1 /\ s[1] = Head(s)
      /\ \A i \in 1 .. n - 1 : t[i] = s[i + 1]
  BY TailFacts
<1>2. \A i \in 1 .. n : s[i] \in A => \E j \in 1 .. n : i < j /\ s[j] \in B
  BY DEF Followed
<1> HIDE DEF t, n
<1>3. ASSUME NEW i \in 1 .. n - 1, t[i] \in A
      PROVE  \E j \in 1 .. n - 1 : i < j /\ t[j] \in B
  <2>1. i + 1 \in 1 .. n /\ s[i + 1] \in A
    BY <1>1, <1>3
  <2>2. PICK j \in 1 .. n : i + 1 < j /\ s[j] \in B
    BY <1>2, <2>1
  <2>3. j - 1 \in 1 .. n - 1 /\ i < j - 1 /\ (j - 1) + 1 = j
    BY <1>1, <2>2
  <2>4. t[j - 1] \in B
    BY <1>1, <2>2, <2>3
  <2> QED
    BY <2>3, <2>4
<1>4. ASSUME s[1] \in A PROVE \E j \in 1 .. n - 1 : t[j] \in B
  <2>1. 1 \in 1 .. n
    BY <1>1
  <2>2. PICK j \in 1 .. n : 1 < j /\ s[j] \in B
    BY <1>2, <1>4, <2>1
  <2>3. j - 1 \in 1 .. n - 1 /\ (j - 1) + 1 = j
    BY <1>1, <2>2
  <2>4. t[j - 1] \in B
    BY <1>1, <2>2, <2>3
  <2> QED
    BY <2>3, <2>4
<1> QED
  BY <1>1, <1>3, <1>4 DEF Contains, Followed, t, n

(* What must not follow is not in the rest.                                *)
LEMMA BeforeTail ==
  ASSUME NEW X, NEW s \in Seq(X), s # <<>>, NEW A, NEW B, Before(s, A, B)
  PROVE  /\ Before(Tail(s), A, B)
         /\ Head(s) \in A => ~ Contains(Tail(s), B)
<1> DEFINE t == Tail(s)
           n == Len(s)
<1>1. /\ n \in Nat \ {0} /\ Len(t) = n - 1 /\ s[1] = Head(s)
      /\ \A i \in 1 .. n - 1 : t[i] = s[i + 1]
  BY TailFacts
<1>2. \A i, j \in 1 .. n : i < j /\ s[i] \in A => s[j] \notin B
  BY DEF Before
<1> HIDE DEF t, n
<1>3. \A i \in 1 .. n - 1 : i + 1 \in 1 .. n /\ 1 \in 1 .. n /\ 1 < i + 1
  BY <1>1
<1>4. \A i, j \in 1 .. n - 1 : i < j => i + 1 < j + 1
  BY <1>1
<1>5. \A i, j \in 1 .. n - 1 : i < j /\ t[i] \in A => t[j] \notin B
  BY <1>1, <1>2, <1>3, <1>4
<1>6. s[1] \in A => \A j \in 1 .. n - 1 : t[j] \notin B
  BY <1>1, <1>2, <1>3
<1> QED
  BY <1>1, <1>5, <1>6 DEF Before, Contains, t, n

(* Steps put in front of others.                                           *)
LEMMA ConcatFacts ==
  ASSUME NEW X, NEW s \in Seq(X), NEW t \in Seq(X)
  PROVE  /\ s \o t \in Seq(X)
         /\ Len(s) \in Nat /\ Len(t) \in Nat /\ Len(s \o t) = Len(s) + Len(t)
         /\ \A i \in 1 .. Len(s) : (s \o t)[i] = s[i]
         /\ \A i \in 1 .. Len(t) : (s \o t)[Len(s) + i] = t[i]
  OBVIOUS

(* The same of two parts, one after the other.                             *)
LEMMA ContainsConcat ==
  ASSUME NEW X, NEW s \in Seq(X), NEW t \in Seq(X), NEW S
  PROVE  Contains(s \o t, S) <=> Contains(s, S) \/ Contains(t, S)
<1> DEFINE u == s \o t
           m == Len(s)
           n == Len(t)
<1>1. /\ m \in Nat /\ n \in Nat /\ Len(u) = m + n
      /\ \A i \in 1 .. m : u[i] = s[i]
      /\ \A i \in 1 .. n : u[m + i] = t[i]
  BY ConcatFacts
<1> HIDE DEF u, m, n
<1>2. ASSUME NEW i \in 1 .. m + n, u[i] \in S
      PROVE  (\E j \in 1 .. m : s[j] \in S) \/ (\E j \in 1 .. n : t[j] \in S)
  <2>1. CASE i <= m
    <3>1. i \in 1 .. m
      BY <1>1, <2>1
    <3> QED
      BY <1>1, <1>2, <3>1
  <2>2. CASE ~ (i <= m)
    <3>1. i - m \in 1 .. n /\ m + (i - m) = i
      BY <1>1, <2>2
    <3>2. t[i - m] \in S
      BY <1>1, <1>2, <3>1
    <3> QED
      BY <3>1, <3>2
  <2> QED
    BY <2>1, <2>2
<1>3. ASSUME NEW j \in 1 .. m, s[j] \in S PROVE \E i \in 1 .. m + n : u[i] \in S
  <2>1. j \in 1 .. m + n
    BY <1>1
  <2> QED
    BY <1>1, <1>3, <2>1
<1>4. ASSUME NEW j \in 1 .. n, t[j] \in S PROVE \E i \in 1 .. m + n : u[i] \in S
  <2>1. m + j \in 1 .. m + n
    BY <1>1
  <2> QED
    BY <1>1, <1>4, <2>1
<1> QED
  BY <1>1, <1>2, <1>3, <1>4 DEF Contains, u, m, n

(* What a step in the first part is followed by may be in the second.      *)
LEMMA FollowedConcat ==
  ASSUME NEW X, NEW s \in Seq(X), NEW t \in Seq(X), NEW A, NEW B,
         Followed(s, A, B) \/ Contains(t, B), Followed(t, A, B)
  PROVE  Followed(s \o t, A, B)
<1> DEFINE u == s \o t
           m == Len(s)
           n == Len(t)
<1>1. /\ m \in Nat /\ n \in Nat /\ Len(u) = m + n
      /\ \A i \in 1 .. m : u[i] = s[i]
      /\ \A i \in 1 .. n : u[m + i] = t[i]
  BY ConcatFacts
<1>2. \/ \A i \in 1 .. m : s[i] \in A => \E j \in 1 .. m : i < j /\ s[j] \in B
      \/ \E j \in 1 .. n : t[j] \in B
  BY DEF Followed, Contains
<1>3. \A i \in 1 .. n : t[i] \in A => \E j \in 1 .. n : i < j /\ t[j] \in B
  BY DEF Followed
<1> HIDE DEF u, m, n
<1>4. ASSUME NEW i \in 1 .. m + n, u[i] \in A
      PROVE  \E j \in 1 .. m + n : i < j /\ u[j] \in B
  <2>1. CASE i <= m
    <3>1. i \in 1 .. m /\ s[i] \in A
      BY <1>1, <1>4, <2>1
    <3>2. CASE \E j \in 1 .. m : i < j /\ s[j] \in B
      <4>1. PICK j \in 1 .. m : i < j /\ s[j] \in B
        BY <3>2
      <4>2. j \in 1 .. m + n
        BY <1>1
      <4> QED
        BY <1>1, <4>1, <4>2
    <3>3. CASE \E j \in 1 .. n : t[j] \in B
      <4>1. PICK j \in 1 .. n : t[j] \in B
        BY <3>3
      <4>2. m + j \in 1 .. m + n /\ i < m + j
        BY <1>1, <2>1
      <4> QED
        BY <1>1, <4>1, <4>2
    <3> QED
      BY <1>2, <3>1, <3>2, <3>3
  <2>2. CASE ~ (i <= m)
    <3>1. i - m \in 1 .. n /\ m + (i - m) = i
      BY <1>1, <2>2
    <3>2. t[i - m] \in A
      BY <1>1, <1>4, <3>1
    <3>3. PICK j \in 1 .. n : i - m < j /\ t[j] \in B
      BY <1>3, <3>1, <3>2
    <3>4. m + j \in 1 .. m + n /\ i < m + j
      BY <1>1, <3>3
    <3> QED
      BY <1>1, <3>3, <3>4
  <2> QED
    BY <2>1, <2>2
<1> QED
  BY <1>1, <1>4 DEF Followed, u, m, n

(* What must come before may be in one of the parts only.                  *)
LEMMA BeforeConcat ==
  ASSUME NEW X, NEW s \in Seq(X), NEW t \in Seq(X), NEW A, NEW B,
         Before(s, A, B), Before(t, A, B), ~ Contains(s, A) \/ ~ Contains(t, B)
  PROVE  Before(s \o t, A, B)
<1> DEFINE u == s \o t
           m == Len(s)
           n == Len(t)
<1>1. /\ m \in Nat /\ n \in Nat /\ Len(u) = m + n
      /\ \A i \in 1 .. m : u[i] = s[i]
      /\ \A i \in 1 .. n : u[m + i] = t[i]
  BY ConcatFacts
<1>2. /\ \A i, j \in 1 .. m : i < j /\ s[i] \in A => s[j] \notin B
      /\ \A i, j \in 1 .. n : i < j /\ t[i] \in A => t[j] \notin B
      /\ (\A i \in 1 .. m : s[i] \notin A) \/ (\A i \in 1 .. n : t[i] \notin B)
  BY DEF Before, Contains
<1> HIDE DEF u, m, n
<1>3. ASSUME NEW i \in 1 .. m + n, NEW j \in 1 .. m + n, i < j, u[i] \in A
      PROVE  u[j] \notin B
  <2>1. CASE j <= m
    <3>1. i \in 1 .. m /\ j \in 1 .. m
      BY <1>1, <1>3, <2>1
    <3> QED
      BY <1>1, <1>2, <1>3, <3>1
  <2>2. CASE i <= m /\ ~ (j <= m)
    <3>1. i \in 1 .. m /\ j - m \in 1 .. n /\ m + (j - m) = j
      BY <1>1, <2>2
    <3>2. s[i] \in A /\ u[j] = t[j - m]
      BY <1>1, <1>3, <3>1
    <3> QED
      BY <1>2, <3>1, <3>2
  <2>3. CASE ~ (i <= m)
    <3>1. i - m \in 1 .. n /\ m + (i - m) = i /\ j - m \in 1 .. n /\ m + (j - m) = j
      BY <1>1, <1>3, <2>3
    <3>2. t[i - m] \in A /\ u[j] = t[j - m] /\ i - m < j - m
      BY <1>1, <1>3, <3>1
    <3> QED
      BY <1>2, <3>1, <3>2
  <2> QED
    BY <1>1, <2>1, <2>2, <2>3
<1> QED
  BY <1>1, <1>3 DEF Before, u, m, n

(* Nothing is left of <<>>.                                                *)
LEMMA NothingLeft ==
  \A S, A, B : ~ Contains(<<>>, S) /\ Followed(<<>>, A, B) /\ Before(<<>>, A, B)
  BY DEF Contains, Followed, Before

(* Nothing of a kind, nothing to follow it.                                *)
LEMMA NoneFollowed ==
  ASSUME NEW X, NEW s \in Seq(X), NEW A, NEW B, ~ Contains(s, A)
  PROVE  Followed(s, A, B) /\ Before(s, A, B)
  BY DEF Contains, Followed, Before

(* A step of B is one of any set around B.                                 *)
LEMMA ContainsSubset ==
  ASSUME NEW X, NEW s \in Seq(X), NEW A, NEW B, B \subseteq A, Contains(s, B)
  PROVE  Contains(s, A)
  BY DEF Contains
=============================================================================
