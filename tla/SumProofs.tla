------------------------------- MODULE SumProofs -------------------------------
(***************************************************************************)
(* Sums over a finite set, as SumFunction of the community modules defines *)
(* them: what changes when one term changes, and how they are bounded.     *)
(* The sum of f is the last value of a recursive function on the subsets   *)
(* of its domain, which takes one chosen element off at a time.            *)
(***************************************************************************)
EXTENDS Integers, FiniteSets, Functions, FiniteSetTheorems,
        WellFoundedInduction, TLAPS

(* Induction on the natural numbers, as a fact about sets of numbers.      *)
LEMMA AllNats ==
  ASSUME NEW P, 0 \in P, \A n \in Nat : n \in P => n + 1 \in P
  PROVE  Nat \subseteq P
<1> DEFINE R == {ss \in Nat \X Nat : ss[1] < ss[2]}
           T == Nat \ P
<1> SUFFICES ASSUME T # {} PROVE FALSE OBVIOUS
<1>1. IsWellFoundedOn(R, Nat) BY NatLessThanWellFounded, Zenon DEF OpToRel
<1>2. T \subseteq Nat OBVIOUS
<1>3. PICK x \in T : \A y \in T : ~(<<y, x>> \in R)
  <2> HIDE DEF R, T
  <2> QED BY <1>1, <1>2, WFMin, Zenon
<1>4. x \in Nat /\ x # 0 OBVIOUS
<1>5. x - 1 \in Nat /\ x - 1 < x /\ (x - 1) + 1 = x BY <1>4
<1>6. x - 1 \in P
  <2>1. <<x - 1, x>> \in R BY <1>4, <1>5
  <2> QED BY <2>1, <1>3, <1>5
<1> QED BY <1>5, <1>6

--------------------------------------------------------------------------------
Chosen(s) == CHOOSE x \in s : TRUE

(* h holds the sum of f over every subset of S.                            *)
IsSum(h, f, S) ==
  h = [s \in SUBSET S |->
         IF s = {} THEN 0 ELSE f[Chosen(s)] + h[s \ {Chosen(s)}]]

UpTo(S, n) == {s \in SUBSET S : Cardinality(s) <= n}

(* A subset loses one element with its chosen one.                         *)
LEMMA ChosenProps ==
  ASSUME NEW S, IsFiniteSet(S), NEW s \in SUBSET S, s # {}
  PROVE  /\ Chosen(s) \in s /\ Chosen(s) \in S
         /\ s \ {Chosen(s)} \in SUBSET S
         /\ Cardinality(s) \in Nat \ {0}
         /\ Cardinality(s \ {Chosen(s)}) = Cardinality(s) - 1
<1>1. Chosen(s) \in s BY DEF Chosen
<1>2. IsFiniteSet(s) BY FS_Subset
<1>3. Cardinality(s \ {Chosen(s)}) = Cardinality(s) - 1
  BY <1>1, <1>2, FS_RemoveElement, Zenon
<1>4. Cardinality(s) \in Nat \ {0} BY <1>2, FS_CardinalityType, FS_EmptySet
<1> QED BY <1>1, <1>3, <1>4

(* The recursion is well founded: there is such a function.                *)
LEMMA SumExists ==
  ASSUME NEW S, IsFiniteSet(S), NEW f \in [S -> Int]
  PROVE  \E h : IsSum(h, f, S)
<1> DEFINE Next(h, s) == IF s = {} THEN 0 ELSE f[Chosen(s)] + h[s \ {Chosen(s)}]
           Up(h, n) == h \in [UpTo(S, n) -> Int] /\ \A s \in UpTo(S, n) : h[s] = Next(h, s)
           P == {n \in Nat : \E h : Up(h, n)}
<1>1. 0 \in P
  <2> DEFINE h == [s \in UpTo(S, 0) |-> 0]
  <2>1. ASSUME NEW s \in UpTo(S, 0) PROVE s = {}
    <3>1. s \in SUBSET S /\ Cardinality(s) <= 0 BY DEF UpTo
    <3>2. s # {} => Cardinality(s) \in Nat \ {0} BY <3>1, ChosenProps, Zenon
    <3> QED BY <3>1, <3>2
  <2>2. Up(h, 0) BY <2>1
  <2> QED BY <2>2, Zenon
<1>2. ASSUME NEW n \in Nat, n \in P PROVE n + 1 \in P
  <2>1. PICK h : Up(h, n) BY <1>2, Zenon
  <2> DEFINE g == [s \in UpTo(S, n + 1) |-> Next(h, s)]
  <2>2. ASSUME NEW s \in UpTo(S, n + 1), s # {}
        PROVE  s \ {Chosen(s)} \in UpTo(S, n) /\ Chosen(s) \in S
    <3>1. s \in SUBSET S /\ Cardinality(s) <= n + 1 BY DEF UpTo
    <3>2. /\ Chosen(s) \in S /\ s \ {Chosen(s)} \in SUBSET S
          /\ Cardinality(s) \in Nat
          /\ Cardinality(s \ {Chosen(s)}) = Cardinality(s) - 1
      BY <3>1, <2>2, ChosenProps
    <3>3. Cardinality(s \ {Chosen(s)}) <= n BY <3>1, <3>2
    <3> QED BY <3>2, <3>3 DEF UpTo
  <2>3. ASSUME NEW s \in UpTo(S, n + 1) PROVE Next(h, s) \in Int
    <3>1. CASE s = {} BY <3>1
    <3>2. CASE s # {}
      <4>1. f[Chosen(s)] \in Int /\ h[s \ {Chosen(s)}] \in Int
        BY <3>2, <2>1, <2>2
      <4> QED BY <3>2, <4>1
    <3> QED BY <3>1, <3>2
  <2>4. g \in [UpTo(S, n + 1) -> Int] BY <2>3
  <2>5. ASSUME NEW s \in UpTo(S, n) PROVE s \in UpTo(S, n + 1) /\ g[s] = h[s]
    <3>1. s \in SUBSET S /\ Cardinality(s) <= n BY DEF UpTo
    <3>2. Cardinality(s) \in Nat BY <3>1, FS_Subset, FS_CardinalityType
    <3>3. Cardinality(s) <= n + 1 BY <3>1, <3>2
    <3>4. s \in UpTo(S, n + 1) BY <3>1, <3>3 DEF UpTo
    <3>5. h[s] = Next(h, s) BY <2>1
    <3> QED BY <3>4, <3>5
  <2>6. ASSUME NEW s \in UpTo(S, n + 1) PROVE g[s] = Next(g, s)
    <3>1. g[s] = Next(h, s) OBVIOUS
    <3>2. s # {} => g[s \ {Chosen(s)}] = h[s \ {Chosen(s)}] BY <2>2, <2>5, Zenon
    <3> HIDE DEF g
    <3> QED BY <3>1, <3>2
  <2> HIDE DEF g
  <2>7. Up(g, n + 1) BY <2>4, <2>6
  <2> HIDE DEF Up
  <2> QED BY <2>7
<1>3. Cardinality(S) \in P
  <2>1. Cardinality(S) \in Nat BY FS_CardinalityType
  <2> HIDE DEF P
  <2> QED BY <1>1, <1>2, <2>1, AllNats
<1>4. PICK h : Up(h, Cardinality(S)) BY <1>3, Zenon
<1>5. UpTo(S, Cardinality(S)) = SUBSET S
  BY FS_Subset DEF UpTo
<1> QED BY <1>4, <1>5, Zenon DEF IsSum

(* What SumFunction returns.                                               *)
LEMMA SumIs ==
  ASSUME NEW S, IsFiniteSet(S), NEW f \in [S -> Int]
  PROVE  \E h : IsSum(h, f, S) /\ SumFunction(f) = h[S]
<1> DEFINE h == CHOOSE g : IsSum(g, f, S)
<1>1. IsSum(h, f, S) BY SumExists
<1>2. SumFunction(f) = h[S]
  <2>1. DOMAIN f = S OBVIOUS
  <2> QED
    BY <2>1 DEF SumFunction, SumFunctionOnSet, FoldFunctionOnSet,
                MapThenFoldSet, IsSum, Chosen
<1> HIDE DEF h
<1> QED BY <1>1, <1>2

(* A sum of integers is one, over every subset.                            *)
LEMMA SumValues ==
  ASSUME NEW S, IsFiniteSet(S), NEW f \in [S -> Int], NEW h, IsSum(h, f, S)
  PROVE  /\ h[{}] = 0
         /\ \A s \in SUBSET S : h[s] \in Int
         /\ \A s \in SUBSET S : s # {} => h[s] = f[Chosen(s)] + h[s \ {Chosen(s)}]
<1>1. h[{}] = 0 BY DEF IsSum
<1>2. \A s \in SUBSET S : s # {} => h[s] = f[Chosen(s)] + h[s \ {Chosen(s)}]
  BY Zenon DEF IsSum
<1> DEFINE P == {n \in Nat : \A s \in SUBSET S : Cardinality(s) = n => h[s] \in Int}
<1>3. 0 \in P
  <2>1. \A s \in SUBSET S : s # {} => Cardinality(s) \in Nat \ {0} BY ChosenProps, Zenon
  <2> QED BY <2>1, <1>1
<1>4. ASSUME NEW n \in Nat, n \in P PROVE n + 1 \in P
  <2> SUFFICES ASSUME NEW s \in SUBSET S, Cardinality(s) = n + 1 PROVE h[s] \in Int
    OBVIOUS
  <2>1. s # {} BY FS_EmptySet
  <2> DEFINE c == Chosen(s)
             r == s \ {c}
  <2>2. c \in S /\ r \in SUBSET S /\ Cardinality(r) = Cardinality(s) - 1
    BY <2>1, ChosenProps
  <2>3. h[s] = f[c] + h[r] BY <1>2, <2>1
  <2> HIDE DEF c, r
  <2>4. h[r] \in Int BY <1>4, <2>2
  <2>5. f[c] \in Int BY <2>2
  <2> QED BY <2>3, <2>4, <2>5
<1>5. ASSUME NEW s \in SUBSET S PROVE h[s] \in Int
  <2>1. Nat \subseteq P
    <3> HIDE DEF P
    <3> QED BY <1>3, <1>4, AllNats
  <2>2. Cardinality(s) \in Nat BY FS_Subset, FS_CardinalityType
  <2> QED BY <2>1, <2>2
<1> QED BY <1>1, <1>2, <1>5, Zenon

(* SumFunction(f) is the last of the sums that h holds.                    *)
SumsUpTo(f, S, h) ==
  /\ SumFunction(f) = h[S] /\ h[{}] = 0
  /\ \A s \in SUBSET S : h[s] \in Int
  /\ \A s \in SUBSET S : s # {} => h[s] = f[Chosen(s)] + h[s \ {Chosen(s)}]

LEMMA SumSteps ==
  ASSUME NEW S, IsFiniteSet(S), NEW f \in [S -> Int]
  PROVE  \E h : SumsUpTo(f, S, h)
<1>1. PICK h : IsSum(h, f, S) /\ SumFunction(f) = h[S] BY SumIs
<1>2. /\ h[{}] = 0
      /\ \A s \in SUBSET S : h[s] \in Int
      /\ \A s \in SUBSET S : s # {} => h[s] = f[Chosen(s)] + h[s \ {Chosen(s)}]
  BY <1>1, SumValues
<1> QED BY <1>1, <1>2, Zenon DEF SumsUpTo

LEMMA SumType ==
  ASSUME NEW S, IsFiniteSet(S), NEW f \in [S -> Int]
  PROVE  SumFunction(f) \in Int
<1>1. PICK h : SumsUpTo(f, S, h) BY SumSteps
<1> QED BY <1>1 DEF SumsUpTo

(* Sums that compare term by term.                                         *)
LEMMA SumMonotone ==
  ASSUME NEW S, IsFiniteSet(S), NEW f \in [S -> Int], NEW g \in [S -> Int],
         \A x \in S : f[x] <= g[x]
  PROVE  SumFunction(f) <= SumFunction(g)
<1>1. PICK a : SumsUpTo(f, S, a) BY SumSteps
<1>2. PICK b : SumsUpTo(g, S, b) BY SumSteps
<1> DEFINE P == {n \in Nat : \A s \in SUBSET S : Cardinality(s) = n => a[s] <= b[s]}
<1>3. /\ SumFunction(f) = a[S] /\ SumFunction(g) = b[S]
      /\ a[{}] = 0 /\ b[{}] = 0
      /\ \A s \in SUBSET S : a[s] \in Int /\ b[s] \in Int
      /\ \A s \in SUBSET S : s # {} =>
           /\ a[s] = f[Chosen(s)] + a[s \ {Chosen(s)}]
           /\ b[s] = g[Chosen(s)] + b[s \ {Chosen(s)}]
  BY <1>1, <1>2, Zenon DEF SumsUpTo
<1>4. 0 \in P
  <2> SUFFICES ASSUME NEW s \in SUBSET S, Cardinality(s) = 0 PROVE a[s] <= b[s]
    OBVIOUS
  <2>1. s = {} BY ChosenProps, Zenon
  <2> QED BY <2>1, <1>3
<1>5. ASSUME NEW n \in Nat, n \in P PROVE n + 1 \in P
  <2> SUFFICES ASSUME NEW s \in SUBSET S, Cardinality(s) = n + 1 PROVE a[s] <= b[s]
    OBVIOUS
  <2>1. s # {} BY FS_EmptySet
  <2> DEFINE c == Chosen(s)
             r == s \ {c}
  <2>2. c \in S /\ r \in SUBSET S /\ Cardinality(r) = Cardinality(s) - 1
    BY <2>1, ChosenProps
  <2>3. a[s] = f[c] + a[r] /\ b[s] = g[c] + b[r] BY <1>3, <2>1
  <2> HIDE DEF c, r
  <2>4. a[r] <= b[r] BY <1>5, <2>2
  <2>5. f[c] \in Int /\ g[c] \in Int /\ f[c] <= g[c] /\ a[r] \in Int /\ b[r] \in Int
    BY <1>3, <2>2
  <2> QED BY <2>3, <2>4, <2>5
<1>6. Nat \subseteq P
  <2> HIDE DEF P
  <2> QED BY <1>4, <1>5, AllNats
<1>7. Cardinality(S) \in Nat BY FS_CardinalityType
<1> QED BY <1>3, <1>6, <1>7

(* Every term is at most k.                                                *)
LEMMA SumAtMost ==
  ASSUME NEW S, IsFiniteSet(S), NEW f \in [S -> Int], NEW k \in Nat,
         \A x \in S : f[x] <= k
  PROVE  SumFunction(f) <= Cardinality(S) * k
<1>1. PICK h : SumsUpTo(f, S, h) BY SumSteps
<1>2. /\ SumFunction(f) = h[S] /\ h[{}] = 0
      /\ \A s \in SUBSET S : h[s] \in Int
      /\ \A s \in SUBSET S : s # {} => h[s] = f[Chosen(s)] + h[s \ {Chosen(s)}]
  BY <1>1, Zenon DEF SumsUpTo
<1> DEFINE P == {n \in Nat : \A s \in SUBSET S : Cardinality(s) = n => h[s] <= n * k}
<1>3. 0 \in P
  <2> SUFFICES ASSUME NEW s \in SUBSET S, Cardinality(s) = 0 PROVE h[s] <= 0 * k
    OBVIOUS
  <2>1. s = {} BY ChosenProps, Zenon
  <2>2. 0 * k = 0 OBVIOUS
  <2> QED BY <2>1, <2>2, <1>2
<1>4. ASSUME NEW n \in Nat, n \in P PROVE n + 1 \in P
  <2> SUFFICES ASSUME NEW s \in SUBSET S, Cardinality(s) = n + 1
               PROVE  h[s] <= (n + 1) * k
    OBVIOUS
  <2>1. s # {} BY FS_EmptySet
  <2> DEFINE c == Chosen(s)
             r == s \ {c}
  <2>2. c \in S /\ r \in SUBSET S /\ Cardinality(r) = Cardinality(s) - 1
    BY <2>1, ChosenProps
  <2>3. h[s] = f[c] + h[r] BY <1>2, <2>1, Zenon
  <2> HIDE DEF c, r
  <2>4. h[r] <= n * k BY <1>4, <2>2
  <2>5. f[c] \in Int /\ h[r] \in Int /\ f[c] <= k BY <1>2, <2>2
  <2>6. n * k \in Int /\ (n + 1) * k = n * k + k OBVIOUS
  <2> QED BY <2>3, <2>4, <2>5, <2>6
<1>5. Nat \subseteq P
  <2> HIDE DEF P
  <2> QED BY <1>3, <1>4, AllNats
<1>6. Cardinality(S) \in Nat BY FS_CardinalityType
<1> QED BY <1>2, <1>5, <1>6

(* Every term is 0.                                                        *)
LEMMA SumOfZeros ==
  ASSUME NEW S, IsFiniteSet(S), NEW f \in [S -> {0}]
  PROVE  SumFunction(f) = 0
<1>1. f \in [S -> Int] OBVIOUS
<1>2. PICK h : SumsUpTo(f, S, h) BY <1>1, SumSteps
<1>3. /\ SumFunction(f) = h[S] /\ h[{}] = 0
      /\ \A s \in SUBSET S : s # {} => h[s] = f[Chosen(s)] + h[s \ {Chosen(s)}]
  BY <1>2, Zenon DEF SumsUpTo
<1> DEFINE P == {n \in Nat : \A s \in SUBSET S : Cardinality(s) = n => h[s] = 0}
<1>4. 0 \in P
  <2> SUFFICES ASSUME NEW s \in SUBSET S, Cardinality(s) = 0 PROVE h[s] = 0
    OBVIOUS
  <2>1. s = {} BY ChosenProps, Zenon
  <2> QED BY <2>1, <1>3
<1>5. ASSUME NEW n \in Nat, n \in P PROVE n + 1 \in P
  <2> SUFFICES ASSUME NEW s \in SUBSET S, Cardinality(s) = n + 1 PROVE h[s] = 0
    OBVIOUS
  <2>1. s # {} BY FS_EmptySet
  <2> DEFINE c == Chosen(s)
             r == s \ {c}
  <2>2. c \in S /\ r \in SUBSET S /\ Cardinality(r) = Cardinality(s) - 1
    BY <2>1, ChosenProps
  <2>3. h[s] = f[c] + h[r] BY <1>3, <2>1, Zenon
  <2> HIDE DEF c, r
  <2>4. h[r] = 0 BY <1>5, <2>2
  <2>5. f[c] = 0 BY <2>2
  <2> QED BY <2>3, <2>4, <2>5
<1>6. Nat \subseteq P
  <2> HIDE DEF P
  <2> QED BY <1>4, <1>5, AllNats
<1>7. Cardinality(S) \in Nat BY FS_CardinalityType
<1> QED BY <1>3, <1>6, <1>7

(* One term changes, and the sum with it.                                  *)
LEMMA SumChanges ==
  ASSUME NEW S, IsFiniteSet(S), NEW f \in [S -> Int], NEW g \in [S -> Int],
         NEW x \in S, \A y \in S \ {x} : f[y] = g[y]
  PROVE  SumFunction(g) = SumFunction(f) + (g[x] - f[x])
<1>1. PICK a : SumsUpTo(f, S, a) BY SumSteps
<1>2. PICK b : SumsUpTo(g, S, b) BY SumSteps
<1> DEFINE d == g[x] - f[x]
           Diff(s) == b[s] = a[s] + (IF x \in s THEN d ELSE 0)
           P == {n \in Nat : \A s \in SUBSET S : Cardinality(s) = n => Diff(s)}
<1>3. /\ SumFunction(f) = a[S] /\ SumFunction(g) = b[S]
      /\ a[{}] = 0 /\ b[{}] = 0
      /\ \A s \in SUBSET S : a[s] \in Int /\ b[s] \in Int
      /\ \A s \in SUBSET S : s # {} =>
           /\ a[s] = f[Chosen(s)] + a[s \ {Chosen(s)}]
           /\ b[s] = g[Chosen(s)] + b[s \ {Chosen(s)}]
  BY <1>1, <1>2, Zenon DEF SumsUpTo
<1>4. 0 \in P
  <2> SUFFICES ASSUME NEW s \in SUBSET S, Cardinality(s) = 0 PROVE Diff(s)
    OBVIOUS
  <2>1. s = {} BY ChosenProps, Zenon
  <2> QED BY <2>1, <1>3
<1>5. ASSUME NEW n \in Nat, n \in P PROVE n + 1 \in P
  <2> SUFFICES ASSUME NEW s \in SUBSET S, Cardinality(s) = n + 1 PROVE Diff(s)
    OBVIOUS
  <2>1. s # {} BY FS_EmptySet
  <2> DEFINE c == Chosen(s)
             r == s \ {c}
  <2>2. /\ c \in S /\ c \in s /\ r \in SUBSET S
        /\ Cardinality(r) = Cardinality(s) - 1
    BY <2>1, ChosenProps
  <2>3. a[s] = f[c] + a[r] /\ b[s] = g[c] + b[r] BY <1>3, <2>1
  <2>4. x \in s <=> x = c \/ x \in r BY <2>2
  <2>5. c \notin r OBVIOUS
  <2> HIDE DEF c, r
  <2>6. Diff(r) BY <1>5, <2>2
  <2>7. f[c] \in Int /\ g[c] \in Int /\ f[x] \in Int /\ g[x] \in Int
        /\ a[r] \in Int /\ b[r] \in Int
    BY <1>3, <2>2
  <2>8. CASE x = c
    <3>1. b[r] = a[r] BY <2>5, <2>6, <2>7, <2>8
    <3> QED BY <3>1, <2>3, <2>4, <2>7, <2>8
  <2>9. CASE x # c
    <3>1. f[c] = g[c] BY <2>2, <2>9
    <3>2. x \in s <=> x \in r BY <2>4, <2>9
    <3> QED BY <3>1, <3>2, <2>3, <2>6, <2>7
  <2> QED BY <2>8, <2>9
<1>6. Diff(S)
  <2>1. Nat \subseteq P
    <3> HIDE DEF P
    <3> QED BY <1>4, <1>5, AllNats
  <2>2. Cardinality(S) \in Nat BY FS_CardinalityType
  <2> QED BY <2>1, <2>2
<1> QED BY <1>3, <1>6

(* A sum of natural numbers is one, and at least as large as each of them. *)
LEMMA SumOfNats ==
  ASSUME NEW S, IsFiniteSet(S), NEW f \in [S -> Nat]
  PROVE  SumFunction(f) \in Nat /\ \A x \in S : f[x] <= SumFunction(f)
<1> DEFINE zero == [y \in S |-> 0]
<1>1. f \in [S -> Int] /\ zero \in [S -> Int] /\ zero \in [S -> {0}] OBVIOUS
<1>2. SumFunction(zero) = 0 BY <1>1, SumOfZeros
<1>3. SumFunction(f) \in Int BY <1>1, SumType
<1>4. \A y \in S : zero[y] <= f[y] OBVIOUS
<1>5. SumFunction(zero) <= SumFunction(f)
  <2> HIDE DEF zero
  <2> QED BY <1>1, <1>4, SumMonotone
<1>6. ASSUME NEW x \in S PROVE f[x] <= SumFunction(f)
  <2> DEFINE one == [y \in S |-> IF y = x THEN f[x] ELSE 0]
  <2>1. /\ one \in [S -> Int] /\ \A y \in S \ {x} : zero[y] = one[y]
        /\ one[x] = f[x] /\ zero[x] = 0 /\ \A y \in S : one[y] <= f[y]
    OBVIOUS
  <2> HIDE DEF one, zero
  <2>2. SumFunction(one) = SumFunction(zero) + (one[x] - zero[x])
    BY <1>1, <2>1, SumChanges
  <2>3. SumFunction(one) <= SumFunction(f) BY <1>1, <2>1, SumMonotone
  <2>4. f[x] \in Nat BY Zenon
  <2> QED BY <2>1, <2>2, <2>3, <2>4, <1>2
<1> QED BY <1>2, <1>3, <1>5, <1>6

(* Counting: nothing, one thing, one thing more, a set that is not empty.  *)
LEMMA CountFacts ==
  ASSUME NEW W, IsFiniteSet(W), W # {}, NEW n \in Nat
  PROVE  /\ Cardinality({}) = 0 /\ \A x : Cardinality({x}) = 1
         /\ Cardinality(W) \in Nat \ {0}
         /\ \A S \in SUBSET (1..n) : \A p \in (1..n) \ S :
              Cardinality(S \cup {p}) = Cardinality(S) + 1
<1>1. Cardinality({}) = 0 /\ \A x : Cardinality({x}) = 1
  BY FS_EmptySet, FS_Singleton, Zenon
<1>2. Cardinality(W) \in Nat /\ Cardinality(W) # 0
  BY FS_CardinalityType, FS_EmptySet, Zenon
<1>3. ASSUME NEW S \in SUBSET (1..n), NEW p \in (1..n) \ S
      PROVE  Cardinality(S \cup {p}) = Cardinality(S) + 1
  <2>1. IsFiniteSet(1..n) BY FS_Interval
  <2>2. IsFiniteSet(S) BY <2>1, FS_Subset, Zenon
  <2> QED BY <2>2, FS_AddElement, Zenon
<1> QED BY <1>1, <1>2, <1>3, Zenon

================================================================================
