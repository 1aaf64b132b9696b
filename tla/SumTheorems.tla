---------------------------- MODULE SumTheorems ----------------------------
(***************************************************************************)
(* A small theory of the sums the models are built with (MapThenSumSet of   *)
(* FiniteSetsExt, a fold whose recursion is a CHOOSE), for any finite set:  *)
(* that the fold is defined, that it does not matter in which order it is   *)
(* taken, and how a sum changes when a part of it does.                     *)
(***************************************************************************)
EXTENDS Integers, FiniteSets, FiniteSetsExt, FiniteSetTheorems, WellFoundedInduction, TLAPS

\* The sum of the values of a function.
SumOf(f) == MapThenSumSet(LAMBDA x : f[x], DOMAIN f)

-----------------------------------------------------------------------------
(* Finite sets *)

\* A nonempty set of numbers has a least one.
LEMMA Least ==
    ASSUME NEW S, S \subseteq Nat, S # {}
    PROVE  \E e \in S : \A f \in S : e <= f
  <1> DEFINE R == OpToRel(<, Nat)
  <1>1. IsWellFoundedOn(R, Nat)
    BY NatLessThanWellFounded
  <1>2. \A x, y \in Nat : x < y => <<x, y>> \in R
    BY DEF OpToRel
  <1> HIDE DEF R
  <1>3. PICK e \in S : \A f \in S : ~ (<<f, e>> \in R)
    BY <1>1, WFMin
  <1>4. ASSUME NEW f \in S
        PROVE  e <= f
    <2>1. e \in Nat /\ f \in Nat
      OBVIOUS
    <2>2. ~(f < e)
      BY <1>2, <1>3, <2>1
    <2> QED BY <2>1, <2>2
  <1> QED BY <1>4

\* What holds of a set when it holds of the set less any of its elements, holds
\* of every subset of a finite set.
LEMMA SubsetInduction ==
    ASSUME NEW S, IsFiniteSet(S), NEW B,
           \A T \in SUBSET S : (\A x \in T : T \ {x} \in B) => T \in B
    PROVE  \A T \in SUBSET S : T \in B
  <1> SUFFICES ASSUME NEW U \in SUBSET S, U \notin B
               PROVE  FALSE
    OBVIOUS
  <1> DEFINE Bad == {T \in SUBSET S : T \notin B}
             Sizes == {Cardinality(T) : T \in Bad}
  <1>1. \A T \in SUBSET S : IsFiniteSet(T) /\ Cardinality(T) \in Nat
    BY FS_Subset, FS_CardinalityType
  <1>2. Sizes \subseteq Nat /\ Sizes # {}
    BY <1>1
  <1>3. PICK n \in Sizes : \A m \in Sizes : n <= m
    BY <1>2, Least
  <1>4. PICK T \in Bad : n = Cardinality(T)
    BY <1>3
  <1>5. ASSUME NEW x \in T
        PROVE  T \ {x} \in B
    <2>1. Cardinality(T \ {x}) = Cardinality(T) - 1 /\ Cardinality(T) \in Nat
          /\ T \ {x} \in SUBSET S
      BY <1>1, <1>4, <1>5, FS_RemoveElement
    <2> SUFFICES ASSUME T \ {x} \in Bad
                 PROVE  FALSE
      BY <2>1
    <2>2. Cardinality(T \ {x}) \in Sizes
      OBVIOUS
    <2> HIDE DEF Sizes, Bad
    <2> QED BY <1>3, <1>4, <2>1, <2>2
  <1> QED BY <1>4, <1>5

-----------------------------------------------------------------------------
(* The fold *)

\* The element the fold takes next.
OneOf(s) == CHOOSE x \in s : TRUE

\* One step of the fold.
FoldStep(f, g, s) == IF s = {} THEN 0 ELSE f[OneOf(s)] + g[s \ {OneOf(s)}]

Iterated(f, S) == CHOOSE g : g = [s \in SUBSET S |-> FoldStep(f, g, s)]

LEMMA SumIterated ==
    ASSUME NEW f
    PROVE  SumOf(f) = Iterated(f, DOMAIN f)[DOMAIN f]
  BY DEF SumOf, MapThenSumSet, MapThenFoldSet, Iterated, FoldStep, OneOf

\* The fold is defined: there is a function that every one of its steps fits.
LEMMA IteratedExists ==
    ASSUME NEW S, IsFiniteSet(S), NEW f
    PROVE  Iterated(f, S) = [s \in SUBSET S |-> FoldStep(f, Iterated(f, S), s)]
  <1> DEFINE Upto(n) == {s \in SUBSET S : Cardinality(s) <= n}
             Fits(g, n) == g = [s \in Upto(n) |-> FoldStep(f, g, s)]
             Bad == {n \in Nat : ~\E g : Fits(g, n)}
  <1>1. \A s \in SUBSET S : IsFiniteSet(s) /\ Cardinality(s) \in Nat
    BY FS_Subset, FS_CardinalityType
  <1>2. Fits([s \in Upto(0) |-> 0], 0)
    <2>1. \A s \in Upto(0) : s = {}
      BY <1>1, FS_EmptySet
    <2> DEFINE g == [s \in Upto(0) |-> 0]
    <2>2. \A s \in Upto(0) : FoldStep(f, g, s) = 0
      BY <2>1 DEF FoldStep
    <2> HIDE DEF Upto
    <2> QED BY <2>2
  <1>3. ASSUME NEW n \in Nat, NEW g, Fits(g, n)
        PROVE  Fits([s \in Upto(n + 1) |-> FoldStep(f, g, s)], n + 1)
    <2> DEFINE k == [s \in Upto(n + 1) |-> FoldStep(f, g, s)]
    <2>1. ASSUME NEW s \in Upto(n + 1)
          PROVE  FoldStep(f, k, s) = FoldStep(f, g, s)
      <3>1. CASE s = {}
        BY <3>1 DEF FoldStep
      <3>2. CASE s # {}
        <4>1. OneOf(s) \in s
          BY <3>2 DEF OneOf
        <4>2. PICK t : t = s \ {OneOf(s)}
          OBVIOUS
        <4>3. t \in SUBSET S /\ Cardinality(t) = Cardinality(s) - 1 /\ Cardinality(s) \in Nat
          BY <1>1, <4>1, <4>2, FS_RemoveElement
        <4>4. t \in Upto(n) /\ t \in Upto(n + 1)
          BY <4>3
        <4>5. g[t] = FoldStep(f, g, t) /\ k[t] = FoldStep(f, g, t)
          <5> HIDE DEF Upto
          <5> QED BY <1>3, <4>4
        <4> QED BY <4>2, <4>5 DEF FoldStep
      <3> QED BY <3>1, <3>2
    <2> HIDE DEF Upto
    <2> QED BY <2>1
  <1> HIDE DEF Fits
  <1>4. Bad = {}
    <2> SUFFICES ASSUME Bad # {}
                 PROVE  FALSE
      OBVIOUS
    <2>1. PICK n \in Bad : \A m \in Bad : n <= m
      BY Least
    <2>2. n # 0
      BY <1>2, <2>1
    <2>3. n - 1 \in Nat /\ n - 1 \notin Bad
      BY <2>1, <2>2
    <2>4. PICK g : Fits(g, n - 1)
      BY <2>3
    <2>5. Fits([s \in Upto((n - 1) + 1) |-> FoldStep(f, g, s)], (n - 1) + 1)
      BY <1>3, <2>3, <2>4
    <2>6. (n - 1) + 1 = n
      BY <2>1
    <2>7. \E k : Fits(k, n)
      BY <2>5, <2>6
    <2> QED BY <2>1, <2>7
  <1>5. Cardinality(S) \in Nat
    BY FS_CardinalityType
  <1>6. PICK g : Fits(g, Cardinality(S))
    BY <1>4, <1>5
  <1>7. Upto(Cardinality(S)) = SUBSET S
    BY FS_Subset
  <1>8. g = [s \in SUBSET S |-> FoldStep(f, g, s)]
    BY <1>6, <1>7 DEF Fits
  <1> QED BY <1>8 DEF Iterated

-----------------------------------------------------------------------------
(* Sums *)

\* G gives the sum of f over every subset of S, in whichever order.
Sums(G, f, S) ==
    /\ G \in [SUBSET S -> Int]
    /\ G[{}] = 0
    /\ \A T \in SUBSET S : \A x \in T : G[T] = f[x] + G[T \ {x}]

\* One part of it more.
LEMMA SumsStep ==
    ASSUME NEW S, NEW f \in [S -> Int], NEW G, Sums(G, f, S),
           NEW T, T \subseteq S, NEW x, x \in T, NEW V, V = T \ {x}
    PROVE  G[T] = f[x] + G[V] /\ G[T] \in Int /\ G[V] \in Int /\ f[x] \in Int
  <1>1. G[T] = f[x] + G[V]
    BY DEF Sums
  <1>2. V \in SUBSET S /\ T \in SUBSET S
    OBVIOUS
  <1>3. G[T] \in Int /\ G[V] \in Int
    BY <1>2 DEF Sums
  <1>4. f[x] \in Int
    OBVIOUS
  <1> QED BY <1>1, <1>3, <1>4

LEMMA SumIsSums ==
    ASSUME NEW S, IsFiniteSet(S), NEW f \in [S -> Int]
    PROVE  \E G : Sums(G, f, S) /\ SumOf(f) = G[S]
  <1>1. PICK G : G = [s \in SUBSET S |-> FoldStep(f, G, s)] /\ SumOf(f) = G[S]
    BY IteratedExists, SumIterated
  <1>2. /\ G[{}] = 0
        /\ \A T \in SUBSET S : T # {} =>
              /\ OneOf(T) \in T /\ T \ {OneOf(T)} \in SUBSET S
              /\ G[T] = f[OneOf(T)] + G[T \ {OneOf(T)}]
    BY <1>1 DEF FoldStep, OneOf
  <1> DEFINE B == {T \in SUBSET S : G[T] \in Int}
             C == {T \in SUBSET S : \A x \in T : G[T] = f[x] + G[T \ {x}]}
  <1>3. \A T \in SUBSET S : G[T] \in Int
    <2>1. ASSUME NEW T \in SUBSET S, \A y \in T : T \ {y} \in B
          PROVE  T \in B
      <3>1. CASE T = {}
        BY <1>2, <3>1
      <3>2. CASE T # {}
        <4>1. /\ OneOf(T) \in T /\ G[T] = f[OneOf(T)] + G[T \ {OneOf(T)}]
          BY <1>2, <3>2
        <4>2. G[T \ {OneOf(T)}] \in Int /\ f[OneOf(T)] \in Int
          BY <2>1, <4>1
        <4>3. G[T] \in Int
          BY <4>1, <4>2
        <4> QED BY <4>3
      <3> QED BY <3>1, <3>2
    <2>2. \A T \in SUBSET S : T \in B
      <3> HIDE DEF B
      <3> QED BY <2>1, SubsetInduction
    <2> QED BY <2>2
  <1>4. \A T \in SUBSET S : T \in C
    <2>1. ASSUME NEW T \in SUBSET S, \A y \in T : T \ {y} \in C
          PROVE  T \in C
      <3> SUFFICES ASSUME NEW x \in T
                   PROVE  G[T] = f[x] + G[T \ {x}]
        OBVIOUS
      <3>1. PICK c \in T : G[T] = f[c] + G[T \ {c}]
        BY <1>2
      <3>2. CASE x = c
        BY <3>1, <3>2
      <3>3. CASE x # c
        <4>1. G[T \ {c}] = f[x] + G[(T \ {c}) \ {x}]
          BY <2>1, <3>3
        <4>2. G[T \ {x}] = f[c] + G[(T \ {x}) \ {c}]
          BY <2>1, <3>3
        <4>3. (T \ {c}) \ {x} = (T \ {x}) \ {c} /\ (T \ {x}) \ {c} \in SUBSET S
          OBVIOUS
        <4>4. G[(T \ {x}) \ {c}] \in Int /\ f[x] \in Int /\ f[c] \in Int
          BY <1>3, <4>3
        <4>5. PICK n \in Int : n = G[(T \ {x}) \ {c}]
          BY <4>4
        <4>6. G[T] = f[c] + (f[x] + n) /\ G[T \ {x}] = f[c] + n
          BY <3>1, <4>1, <4>2, <4>3, <4>5
        <4> QED BY <4>4, <4>6
      <3> QED BY <3>2, <3>3
    <2> HIDE DEF C
    <2> QED BY <2>1, SubsetInduction
  <1>5. Sums(G, f, S)
    <2>1. G \in [SUBSET S -> Int]
      BY <1>1, <1>3
    <2> QED BY <1>2, <1>4, <2>1 DEF Sums
  <1> QED BY <1>1, <1>5

\* Sums of what agrees on a set agree on it.
LEMMA SumsAgree ==
    ASSUME NEW R, NEW S, NEW f, NEW g, NEW F, NEW G, Sums(F, f, R), Sums(G, g, S),
           NEW U, IsFiniteSet(U), U \subseteq R, U \subseteq S, \A x \in U : f[x] = g[x]
    PROVE  F[U] = G[U]
  <1> DEFINE B == {T \in SUBSET U : F[T] = G[T]}
  <1>1. ASSUME NEW T \in SUBSET U, \A y \in T : T \ {y} \in B
        PROVE  T \in B
    <2>1. CASE T = {}
      BY <2>1 DEF Sums
    <2>2. CASE T # {}
      <3>1. PICK x \in T : TRUE
        BY <2>2
      <3>2. F[T \ {x}] = G[T \ {x}]
        BY <1>1
      <3>3. F[T] = f[x] + F[T \ {x}] /\ G[T] = g[x] + G[T \ {x}]
        BY DEF Sums
      <3>4. f[x] = g[x]
        OBVIOUS
      <3> QED BY <3>2, <3>3, <3>4
    <2> QED BY <2>1, <2>2
  <1>2. \A T \in SUBSET U : T \in B
    <2> HIDE DEF B
    <2> QED BY <1>1, SubsetInduction
  <1> QED BY <1>2

\* What adds up has sums that add up.
LEMMA SumAdds ==
    ASSUME NEW S, IsFiniteSet(S),
           NEW f \in [S -> Int], NEW g \in [S -> Int], NEW h \in [S -> Int],
           \A x \in S : h[x] = f[x] + g[x]
    PROVE  SumOf(h) = SumOf(f) + SumOf(g) /\ SumOf(f) \in Int /\ SumOf(g) \in Int
  <1>1. PICK F : Sums(F, f, S) /\ SumOf(f) = F[S]
    BY SumIsSums
  <1>2. PICK G : Sums(G, g, S) /\ SumOf(g) = G[S]
    BY SumIsSums
  <1>3. PICK H : Sums(H, h, S) /\ SumOf(h) = H[S]
    BY SumIsSums
  <1> DEFINE B == {T \in SUBSET S : H[T] = F[T] + G[T]}
  <1>4. ASSUME NEW T \in SUBSET S, \A y \in T : T \ {y} \in B
        PROVE  T \in B
    <2>1. CASE T = {}
      BY <1>1, <1>2, <1>3, <2>1 DEF Sums
    <2>2. CASE T # {}
      <3>1. PICK x \in T : TRUE
        BY <2>2
      <3>2. H[T \ {x}] = F[T \ {x}] + G[T \ {x}]
        BY <1>4
      <3>3. /\ F[T] = f[x] + F[T \ {x}] /\ G[T] = g[x] + G[T \ {x}]
            /\ H[T] = h[x] + H[T \ {x}] /\ h[x] = f[x] + g[x]
        BY <1>1, <1>2, <1>3 DEF Sums
      <3>4. F[T \ {x}] \in Int /\ G[T \ {x}] \in Int /\ f[x] \in Int /\ g[x] \in Int
        BY <1>1, <1>2 DEF Sums
      <3>5. H[T] = F[T] + G[T]
        BY <3>2, <3>3, <3>4
      <3> QED BY <3>5
    <2> QED BY <2>1, <2>2
  <1>5. \A T \in SUBSET S : T \in B
    <2> HIDE DEF B
    <2> QED BY <1>4, SubsetInduction
  <1> QED BY <1>1, <1>2, <1>3, <1>5 DEF Sums

\* The parts of h are those of f and g together: the premises of SumAdds in one
\* formula, for steps that have many facts at hand.
AddedUp(S, f, g, h) ==
    /\ IsFiniteSet(S) /\ f \in [S -> Int] /\ g \in [S -> Int] /\ h \in [S -> Int]
    /\ \A x \in S : h[x] = f[x] + g[x]

LEMMA SumAddedUp ==
    ASSUME NEW S, NEW f, NEW g, NEW h, AddedUp(S, f, g, h)
    PROVE  SumOf(h) = SumOf(f) + SumOf(g) /\ SumOf(f) \in Int /\ SumOf(g) \in Int
  BY SumAdds, SMTT(60) DEF AddedUp

\* The sum of what is never negative is not, and covers every part.
LEMMA SumCovers ==
    ASSUME NEW S, IsFiniteSet(S), NEW f \in [S -> Nat]
    PROVE  SumOf(f) \in Nat /\ \A x \in S : f[x] <= SumOf(f)
  <1>1. f \in [S -> Int]
    OBVIOUS
  <1>2. PICK F : Sums(F, f, S) /\ SumOf(f) = F[S]
    BY <1>1, SumIsSums
  <1> DEFINE B == {T \in SUBSET S : F[T] \in Nat}
  <1>3. ASSUME NEW T \in SUBSET S, \A y \in T : T \ {y} \in B
        PROVE  T \in B
    <2>1. CASE T = {}
      BY <1>2, <2>1 DEF Sums
    <2>2. CASE T # {}
      <3>1. PICK x \in T : TRUE
        BY <2>2
      <3>2. F[T] = f[x] + F[T \ {x}] /\ F[T \ {x}] \in Nat /\ f[x] \in Nat
        BY <1>2, <1>3 DEF Sums
      <3> QED BY <3>2
    <2> QED BY <2>1, <2>2
  <1>4. \A T \in SUBSET S : T \in B
    <2> HIDE DEF B
    <2> QED BY <1>3, SubsetInduction
  <1>5. ASSUME NEW x \in S
        PROVE  f[x] <= F[S]
    <2>1. F[S] = f[x] + F[S \ {x}] /\ S \ {x} \in SUBSET S
      BY <1>2 DEF Sums
    <2>2. F[S \ {x}] \in Nat /\ f[x] \in Nat
      BY <1>4, <2>1
    <2> QED BY <2>1, <2>2
  <1> QED BY <1>2, <1>4, <1>5

\* One part changes the sum by as much as it changes.
LEMMA SumChanges ==
    ASSUME NEW S, IsFiniteSet(S), NEW f \in [S -> Int], NEW g \in [S -> Int],
           NEW x \in S, \A y \in S \ {x} : g[y] = f[y]
    PROVE  SumOf(g) = SumOf(f) - f[x] + g[x] /\ SumOf(f) \in Int
  <1>1. PICK F : Sums(F, f, S) /\ SumOf(f) = F[S]
    BY SumIsSums
  <1>2. PICK G : Sums(G, g, S) /\ SumOf(g) = G[S]
    BY SumIsSums
  <1>3. S \ {x} \in SUBSET S /\ IsFiniteSet(S \ {x})
    BY FS_Subset
  <1>4. G[S \ {x}] = F[S \ {x}]
    BY <1>1, <1>2, <1>3, SumsAgree
  <1>5. /\ F[S] = f[x] + F[S \ {x}] /\ G[S] = g[x] + G[S \ {x}]
        /\ F[S \ {x}] \in Int /\ F[S] \in Int
    BY <1>1, <1>2, <1>3 DEF Sums
  <1> QED BY <1>1, <1>2, <1>4, <1>5

\* A part more adds to the sum what it is.
LEMMA SumExtends ==
    ASSUME NEW S, IsFiniteSet(S), NEW R, NEW x \in R, R = S \cup {x}, x \notin S,
           NEW f \in [S -> Int], NEW g \in [R -> Int], \A y \in S : g[y] = f[y]
    PROVE  SumOf(g) = SumOf(f) + g[x] /\ SumOf(f) \in Int
  <1>1. IsFiniteSet(R) /\ R \ {x} = S
    BY FS_AddElement
  <1>2. PICK F : Sums(F, f, S) /\ SumOf(f) = F[S]
    BY SumIsSums
  <1>3. PICK G : Sums(G, g, R) /\ SumOf(g) = G[R]
    BY <1>1, SumIsSums
  <1>4. G[R] = g[x] + G[S]
    BY <1>1, <1>3, SMTT(60) DEF Sums
  <1>5. G[S] = F[S]
    BY <1>2, <1>3, SumsAgree
  <1>6. F[S] \in Int /\ g[x] \in Int
    BY <1>2 DEF Sums
  <1> QED BY <1>2, <1>3, <1>4, <1>5, <1>6

\* g is f and one part more, at x.
Extended(S, R, x, f, g) ==
    /\ IsFiniteSet(S) /\ x \in R /\ R = S \cup {x} /\ x \notin S
    /\ f \in [S -> Int] /\ g \in [R -> Int] /\ \A y \in S : g[y] = f[y]

LEMMA SumExtended ==
    ASSUME NEW S, NEW R, NEW x, NEW f, NEW g, Extended(S, R, x, f, g)
    PROVE  SumOf(g) = SumOf(f) + g[x] /\ SumOf(f) \in Int
  BY SumExtends, SMTT(60) DEF Extended

\* The sum of zeros is zero.
LEMMA SumOfZeros ==
    ASSUME NEW S, IsFiniteSet(S), NEW f \in [S -> Int], \A x \in S : f[x] = 0
    PROVE  SumOf(f) = 0
  <1>1. PICK F : Sums(F, f, S) /\ SumOf(f) = F[S]
    BY SumIsSums
  <1> DEFINE B == {T \in SUBSET S : F[T] = 0}
  <1>2. ASSUME NEW T \in SUBSET S, \A y \in T : T \ {y} \in B
        PROVE  T \in B
    <2>1. CASE T = {}
      BY <1>1, <2>1 DEF Sums
    <2>2. CASE T # {}
      <3>1. PICK x \in T : TRUE
        BY <2>2
      <3>2. F[T] = f[x] + F[T \ {x}] /\ F[T \ {x}] = 0 /\ f[x] = 0
        BY <1>1, <1>2 DEF Sums
      <3> QED BY <3>2
    <2> QED BY <2>1, <2>2
  <1>3. \A T \in SUBSET S : T \in B
    <2> HIDE DEF B
    <2> QED BY <1>2, SubsetInduction
  <1> QED BY <1>1, <1>3

\* A sum with one part that is not zero is that part.
LEMMA SumOfOne ==
    ASSUME NEW S, IsFiniteSet(S), NEW f \in [S -> Int],
           NEW x \in S, \A y \in S \ {x} : f[y] = 0
    PROVE  SumOf(f) = f[x]
  <1> DEFINE z == [y \in S |-> 0]
  <1>1. z \in [S -> Int] /\ \A y \in S : z[y] = 0
    OBVIOUS
  <1> HIDE DEF z
  <1>2. SumOf(z) = 0
    BY <1>1, SumOfZeros
  <1>3. SumOf(f) = SumOf(z) - z[x] + f[x]
    BY <1>1, SumChanges
  <1>4. f[x] \in Int
    OBVIOUS
  <1> QED BY <1>1, <1>2, <1>3, <1>4

\* A sum is the sum over a part and the sum over the rest.
LEMMA SumSplits ==
    ASSUME NEW S, IsFiniteSet(S), NEW T \in SUBSET S, NEW f \in [S -> Int]
    PROVE  /\ SumOf(f) = SumOf([x \in T |-> f[x]]) + SumOf([x \in S \ T |-> f[x]])
           /\ SumOf([x \in T |-> f[x]]) \in Int /\ SumOf([x \in S \ T |-> f[x]]) \in Int
  <1>1. PICK R : R = S \ T
    OBVIOUS
  <1>2. IsFiniteSet(T) /\ IsFiniteSet(R) /\ R \in SUBSET S
    BY <1>1, FS_Subset
  <1>3. PICK g : g = [x \in T |-> f[x]]
    OBVIOUS
  <1>4. PICK h : h = [x \in R |-> f[x]]
    OBVIOUS
  <1>5. g \in [T -> Int] /\ h \in [R -> Int]
    BY <1>1, <1>3, <1>4
  <1>6. PICK F : Sums(F, f, S) /\ SumOf(f) = F[S]
    BY SumIsSums
  <1>7. PICK G : Sums(G, g, T) /\ SumOf(g) = G[T]
    BY <1>2, <1>5, SumIsSums
  <1>8. PICK H : Sums(H, h, R) /\ SumOf(h) = H[R]
    BY <1>2, <1>5, SumIsSums
  <1>9. F[R] = H[R]
    BY <1>2, <1>4, <1>6, <1>8, SumsAgree
  <1>10. PICK m \in Int : m = F[R]
    BY <1>2, <1>6 DEF Sums
  <1> DEFINE B == {U \in SUBSET T : F[R \cup U] = m + G[U]}
  <1>11. ASSUME NEW U \in SUBSET T, \A y \in U : U \ {y} \in B
         PROVE  F[R \cup U] = m + G[U]
    <2>1. CASE U = {}
      <3>1. G[U] = 0 /\ R \cup U = R
        BY <1>7, <2>1 DEF Sums
      <3>2. F[R \cup U] = m
        BY <1>10, <3>1
      <3> QED BY <3>1, <3>2
    <2>2. CASE U # {}
      <3>1. PICK x \in U : TRUE
        BY <2>2
      <3>2. PICK V : V = U \ {x}
        OBVIOUS
      <3>3. F[R \cup V] = m + G[V]
        BY <1>11, <3>2
      <3>4. PICK W : W = R \cup U
        OBVIOUS
      <3>5. W \subseteq S /\ x \in W /\ R \cup V = W \ {x}
        BY <1>1, <3>2, <3>4
      <3>6. F[W] = f[x] + F[R \cup V] /\ f[x] \in Int
        BY <1>6, <3>5, SumsStep, SMTT(30)
      <3>7. G[U] = g[x] + G[V] /\ G[V] \in Int
        <4>1. U \subseteq T /\ x \in U /\ g \in [T -> Int] /\ Sums(G, g, T)
          BY <1>5, <1>7
        <4> QED BY ONLY <3>2, <4>1, SumsStep, SMTT(30)
      <3>8. g[x] = f[x]
        BY <1>3
      <3>9. F[W] = f[x] + (m + G[V]) /\ G[U] = f[x] + G[V]
        BY <3>3, <3>6, <3>7, <3>8, Zenon
      <3>10. F[W] = m + G[U]
        <4>1. PICK k \in Int : k = G[V]
          BY <3>7
        <4>2. F[W] = f[x] + (m + k) /\ G[U] = f[x] + k
          BY <3>9, <4>1, Zenon
        <4> QED BY <3>6, <4>2
      <3> QED BY <3>4, <3>10
    <2> QED BY <2>1, <2>2
  <1>12. \A U \in SUBSET T : U \in B
    <2>1. \A U \in SUBSET T : (\A y \in U : U \ {y} \in B) => U \in B
      BY <1>11
    <2> HIDE DEF B
    <2> QED BY <1>2, <2>1, SubsetInduction
  <1>13. F[R \cup T] = m + G[T] /\ R \cup T = S
    BY <1>1, <1>12
  <1>14. SumOf(f) = SumOf(g) + SumOf(h) /\ SumOf(g) \in Int /\ SumOf(h) \in Int
    <2>1. G[T] \in Int
      BY <1>7 DEF Sums
    <2>2. SumOf(f) = m + G[T] /\ SumOf(g) = G[T] /\ SumOf(h) = m
      BY <1>6, <1>7, <1>8, <1>9, <1>10, <1>13, Zenon
    <2>3. PICK k \in Int : k = G[T]
      BY <2>1
    <2>4. SumOf(f) = m + k /\ SumOf(g) = k /\ SumOf(h) = m
      BY <2>2, <2>3, Zenon
    <2> QED BY <2>4
  <1> QED BY <1>1, <1>3, <1>4, <1>14

\* A sum is the sum over any part outside which it is zero.
LEMMA SumOfPart ==
    ASSUME NEW S, IsFiniteSet(S), NEW T \in SUBSET S, NEW f \in [S -> Int],
           \A x \in S \ T : f[x] = 0
    PROVE  SumOf(f) = SumOf([x \in T |-> f[x]])
  <1>1. PICK h : h = [x \in S \ T |-> f[x]]
    OBVIOUS
  <1>2. h \in [S \ T -> Int] /\ \A x \in S \ T : h[x] = 0
    BY <1>1
  <1>3. IsFiniteSet(S \ T)
    BY FS_Subset
  <1>4. SumOf(h) = 0
    BY <1>2, <1>3, SumOfZeros
  <1>5. /\ SumOf(f) = SumOf([x \in T |-> f[x]]) + SumOf(h)
        /\ SumOf([x \in T |-> f[x]]) \in Int
    BY <1>1, SumSplits
  <1> QED BY <1>4, <1>5

LEMMA SumTyped ==
    ASSUME NEW S, IsFiniteSet(S), NEW f \in [S -> Int]
    PROVE  SumOf(f) \in Int
  <1>1. PICK F : Sums(F, f, S) /\ SumOf(f) = F[S]
    BY SumIsSums
  <1> QED BY <1>1 DEF Sums

\* A sum does not depend on the names of its parts.
LEMMA SumReindexes ==
    ASSUME NEW D, IsFiniteSet(D), NEW S, IsFiniteSet(S), NEW b \in [D -> S],
           \A d, e \in D : b[d] = b[e] => d = e,
           \A s \in S : \E d \in D : b[d] = s,
           NEW f \in [S -> Int]
    PROVE  SumOf([d \in D |-> f[b[d]]]) = SumOf(f)
  <1>1. PICK g : g = [d \in D |-> f[b[d]]]
    OBVIOUS
  <1>2. g \in [D -> Int]
    BY <1>1
  <1>3. PICK F : Sums(F, f, S) /\ SumOf(f) = F[S]
    BY SumIsSums
  <1>4. PICK G : Sums(G, g, D) /\ SumOf(g) = G[D]
    BY <1>2, SumIsSums
  <1> DEFINE Image(U) == {b[d] : d \in U}
             B == {U \in SUBSET D : G[U] = F[Image(U)]}
  <1>5. ASSUME NEW U \in SUBSET D, \A y \in U : U \ {y} \in B
        PROVE  U \in B
    <2>1. CASE U = {}
      <3>1. G[U] = 0 /\ F[{}] = 0 /\ Image(U) = {}
        BY <1>3, <1>4, <2>1 DEF Sums
      <3> QED BY <3>1
    <2>2. CASE U # {}
      <3>1. PICK x \in U : TRUE
        BY <2>2
      <3>2. PICK V : V = U \ {x}
        OBVIOUS
      <3>3. G[V] = F[Image(V)]
        BY <1>5, <3>2
      <3>4. Image(U) \subseteq S /\ b[x] \in Image(U) /\ Image(V) = Image(U) \ {b[x]}
        BY <3>2
      <3>5. G[U] = f[b[x]] + G[V]
        <4>1. U \subseteq D /\ x \in U /\ g[x] = f[b[x]]
          BY <1>1
        <4> QED BY <1>2, <1>4, <3>2, <4>1, SumsStep, SMTT(30)
      <3>6. F[Image(U)] = f[b[x]] + F[Image(V)]
        <4> HIDE DEF Image
        <4> QED BY <1>3, <3>4, SumsStep, SMTT(30)
      <3> HIDE DEF Image
      <3> QED BY <3>3, <3>5, <3>6, Zenon
    <2> QED BY <2>1, <2>2
  <1>6. \A U \in SUBSET D : U \in B
    <2> HIDE DEF B
    <2> QED BY <1>5, SubsetInduction
  <1>7. G[D] = F[Image(D)] /\ Image(D) = S
    BY <1>6
  <1> QED BY <1>1, <1>3, <1>4, <1>7

\* b names every part of f once.
Renamed(D, S, b, f) ==
    /\ IsFiniteSet(D) /\ IsFiniteSet(S) /\ b \in [D -> S] /\ f \in [S -> Int]
    /\ \A d, e \in D : b[d] = b[e] => d = e
    /\ \A s \in S : \E d \in D : b[d] = s

LEMMA SumRenamed ==
    ASSUME NEW D, NEW S, NEW b, NEW f, Renamed(D, S, b, f)
    PROVE  SumOf([d \in D |-> f[b[d]]]) = SumOf(f)
  BY SumReindexes, SMTT(60) DEF Renamed

\* Smaller parts have a smaller sum.
LEMMA SumOrders ==
    ASSUME NEW S, IsFiniteSet(S), NEW f \in [S -> Int], NEW g \in [S -> Int],
           \A x \in S : f[x] <= g[x]
    PROVE  SumOf(f) <= SumOf(g)
  <1>1. PICK h : h = [x \in S |-> g[x] - f[x]]
    OBVIOUS
  <1>2. h \in [S -> Nat] /\ h \in [S -> Int] /\ \A x \in S : g[x] = f[x] + h[x]
    BY <1>1
  <1>3. SumOf(g) = SumOf(f) + SumOf(h) /\ SumOf(f) \in Int
    BY <1>2, SumAdds
  <1>4. SumOf(h) \in Nat
    BY <1>2, SumCovers
  <1> QED BY <1>3, <1>4

\* A sum may be taken class by class.
LEMMA SumByClass ==
    ASSUME NEW D, IsFiniteSet(D), NEW P, IsFiniteSet(P),
           NEW c \in [D -> P], NEW t \in [D -> Int]
    PROVE  SumOf([p \in P |-> SumOf([i \in D |-> IF c[i] = p THEN t[i] ELSE 0])]) = SumOf(t)
  <1> DEFINE Part(U, p) == [i \in U |-> IF c[i] = p THEN t[i] ELSE 0]
             Parts(U) == [p \in P |-> SumOf(Part(U, p))]
             Of(U) == [i \in U |-> t[i]]
             B == {U \in SUBSET D : SumOf(Parts(U)) = SumOf(Of(U))}
  <1>1. \A U \in SUBSET D : IsFiniteSet(U)
    BY FS_Subset
  <1>2. \A U \in SUBSET D, p \in P : Part(U, p) \in [U -> Int]
    OBVIOUS
  <1>3. \A U \in SUBSET D, p \in P : SumOf(Part(U, p)) \in Int
    <2> HIDE DEF Part
    <2> SUFFICES ASSUME NEW U \in SUBSET D, NEW p \in P
                 PROVE  SumOf(Part(U, p)) \in Int
      OBVIOUS
    <2>1. PICK G : Sums(G, Part(U, p), U) /\ SumOf(Part(U, p)) = G[U]
      BY <1>1, <1>2, SumIsSums
    <2> QED BY <2>1 DEF Sums
  <1>4. \A U \in SUBSET D : Parts(U) \in [P -> Int] /\ Of(U) \in [U -> Int]
    <2> HIDE DEF Part
    <2> QED BY <1>3
  <1>5. ASSUME NEW U \in SUBSET D, \A y \in U : U \ {y} \in B
        PROVE  U \in B
    <2>1. CASE U = {}
      <3>1. \A p \in P : Parts(U)[p] = 0
        <4> SUFFICES ASSUME NEW p \in P PROVE Parts(U)[p] = 0
          OBVIOUS
        <4>1. SumOf(Part(U, p)) = 0
          <5>1. \A x \in U : Part(U, p)[x] = 0
            BY <2>1
          <5> HIDE DEF Part
          <5> QED BY <1>1, <1>2, <5>1, SumOfZeros
        <4> HIDE DEF Part
        <4> QED BY <4>1
      <3>2. SumOf(Of(U)) = 0
        <4>1. \A x \in U : Of(U)[x] = 0
          BY <2>1
        <4> HIDE DEF Of
        <4> QED BY <1>1, <1>4, <4>1, SumOfZeros
      <3>3. SumOf(Parts(U)) = 0
        <4> HIDE DEF Parts
        <4> QED BY <1>4, <3>1, SumOfZeros
      <3> QED BY <3>2, <3>3
    <2>2. CASE U # {}
      <3>1. PICK x \in U : TRUE
        BY <2>2
      <3>2. PICK V \in SUBSET D : V = U \ {x}
        OBVIOUS
      <3>3. U = V \cup {x} /\ x \notin V
        BY <3>2
      <3>4. SumOf(Parts(V)) = SumOf(Of(V))
        BY <1>5, <3>2
      <3>5. PICK n : n = [p \in P |-> IF c[x] = p THEN t[x] ELSE 0]
        OBVIOUS
      <3>6. n \in [P -> Int] /\ c[x] \in P /\ n[c[x]] = t[x] /\ \A p \in P \ {c[x]} : n[p] = 0
        BY <3>5
      <3>7. SumOf(n) = t[x]
        BY <3>6, SumOfOne
      <3>8. ASSUME NEW p \in P
            PROVE  Parts(U)[p] = Parts(V)[p] + n[p]
        <4>1. Part(U, p)[x] = n[p] /\ \A y \in V : Part(U, p)[y] = Part(V, p)[y]
          BY <3>2, <3>5
        <4>2. SumOf(Part(U, p)) = SumOf(Part(V, p)) + Part(U, p)[x]
          <5>1. Part(V, p) \in [V -> Int] /\ Part(U, p) \in [U -> Int]
            BY <1>2
          <5> HIDE DEF Part
          <5>2. PICK v : v = Part(V, p)
            OBVIOUS
          <5>3. PICK u : u = Part(U, p)
            OBVIOUS
          <5>4. v \in [V -> Int] /\ u \in [U -> Int] /\ \A y \in V : u[y] = v[y]
            BY <4>1, <5>1, <5>2, <5>3
          <5>5. SumOf(u) = SumOf(v) + u[x]
            <6>1. IsFiniteSet(V) /\ x \in U
              BY <1>1
            <6>2. Extended(V, U, x, v, u)
              BY ONLY <3>3, <5>4, <6>1 DEF Extended
            <6> QED BY ONLY <6>2, SumExtended
          <5> QED BY <5>2, <5>3, <5>5
        <4> HIDE DEF Part
        <4> QED BY <4>1, <4>2
      <3>9. SumOf(Parts(U)) = SumOf(Parts(V)) + SumOf(n)
        <4> HIDE DEF Parts
        <4>1. PICK v : v = Parts(V)
          OBVIOUS
        <4>2. PICK u : u = Parts(U)
          OBVIOUS
        <4>3. v \in [P -> Int] /\ u \in [P -> Int] /\ \A p \in P : u[p] = v[p] + n[p]
          BY <1>4, <3>8, <4>1, <4>2
        <4>4. SumOf(u) = SumOf(v) + SumOf(n)
          <5>1. IsFiniteSet(P) /\ n \in [P -> Int]
            BY <3>6
          <5>2. AddedUp(P, v, n, u)
            BY ONLY <4>3, <5>1 DEF AddedUp
          <5> QED BY ONLY <5>2, SumAddedUp
        <4> QED BY <4>1, <4>2, <4>4
      <3>10. SumOf(Of(U)) = SumOf(Of(V)) + t[x]
        <4>1. Of(U)[x] = t[x] /\ \A y \in V : Of(U)[y] = Of(V)[y]
          BY <3>2
        <4>2. PICK v : v = Of(V)
          OBVIOUS
        <4>3. PICK u : u = Of(U)
          OBVIOUS
        <4> HIDE DEF Of
        <4>4. v \in [V -> Int] /\ u \in [U -> Int] /\ \A y \in V : u[y] = v[y]
          BY <1>4, <4>1, <4>2, <4>3
        <4>5. SumOf(u) = SumOf(v) + u[x]
          <5>1. IsFiniteSet(V) /\ x \in U
            BY <1>1
          <5>2. Extended(V, U, x, v, u)
            BY ONLY <3>3, <4>4, <5>1 DEF Extended
          <5> QED BY ONLY <5>2, SumExtended
        <4> QED BY <4>1, <4>2, <4>3, <4>5
      <3> HIDE DEF Parts, Of
      <3> QED BY <3>4, <3>7, <3>9, <3>10
    <2> QED BY <2>1, <2>2
  <1>6. \A U \in SUBSET D : U \in B
    <2> HIDE DEF B
    <2> QED BY <1>5, SubsetInduction
  <1>7. Of(D) = t
    OBVIOUS
  <1>8. SumOf(Parts(D)) = SumOf(Of(D))
    BY <1>6
  <1> QED BY <1>7, <1>8

\* A sum over a part, read off the sums over all parts.
LEMMA SumsOfPart ==
    ASSUME NEW S, IsFiniteSet(S), NEW f \in [S -> Int], NEW F, Sums(F, f, S),
           NEW V, V \subseteq S
    PROVE  SumOf([x \in V |-> f[x]]) = F[V]
  <1>1. PICK g : g = [x \in V |-> f[x]]
    OBVIOUS
  <1>2. IsFiniteSet(V) /\ g \in [V -> Int] /\ \A x \in V : g[x] = f[x]
    BY <1>1, FS_Subset
  <1>3. PICK G : Sums(G, g, V) /\ SumOf(g) = G[V]
    BY <1>2, SumIsSums
  <1>4. G[V] = F[V]
    BY <1>2, <1>3, SumsAgree
  <1> QED BY <1>1, <1>3, <1>4

\* S has the pairs of an element e of E and one of D[e]; v is f[e] on those of e, and
\* w the sums.
Pairs(E, D, S, v, f, w) ==
    /\ IsFiniteSet(E) /\ IsFiniteSet(S)
    /\ \A e \in E : IsFiniteSet(D[e]) /\ \A i \in D[e] : <<e, i>> \in S
    /\ \A s \in S : s[1] \in E /\ s[2] \in D[s[1]] /\ s = <<s[1], s[2]>>
    /\ v \in [S -> Int] /\ w \in [E -> Int]
    /\ \A e \in E : /\ f[e] \in [D[e] -> Int] /\ \A i \in D[e] : f[e][i] = v[<<e, i>>]
                    /\ w[e] = SumOf(f[e])

\* A sum over pairs is a sum of sums.
LEMMA SumOfPairs ==
    ASSUME NEW E, NEW D, NEW S, NEW v, NEW f, NEW w, Pairs(E, D, S, v, f, w)
    PROVE  SumOf(w) = SumOf(v)
  <1> USE DEF Pairs
  <1>1. \A s \in S : s[1] \in E /\ s[2] \in D[s[1]] /\ s = <<s[1], s[2]>>
    OBVIOUS
  <1>2. \A e \in E : \A i \in D[e] : <<e, i>> \in S
    OBVIOUS
  <1>3. PICK c : c = [s \in S |-> s[1]]
    OBVIOUS
  <1>4. c \in [S -> E]
    BY <1>1, <1>3
  <1>5. ASSUME NEW e \in E
        PROVE  SumOf([s \in S |-> IF c[s] = e THEN v[s] ELSE 0])
               = w[e]
    <2>1. PICK z : z = [s \in S |-> IF c[s] = e THEN v[s] ELSE 0]
      OBVIOUS
    <2>2. PICK T : T = {s \in S : s[1] = e}
      OBVIOUS
    <2>3. T \in SUBSET S /\ IsFiniteSet(T)
      BY <2>2, FS_Subset
    <2>4. z \in [S -> Int] /\ \A s \in S \ T : z[s] = 0
      <3>1. \A s \in S : v[s] \in Int
        OBVIOUS
      <3>2. z \in [S -> Int]
        BY ONLY <2>1, <3>1
      <3>3. \A s \in S \ T : c[s] # e
        BY ONLY <1>3, <2>2
      <3> QED BY ONLY <2>1, <3>2, <3>3
    <2>5. PICK x : x = [s \in T |-> z[s]]
      OBVIOUS
    <2>6. SumOf(z) = SumOf(x)
      <3>1. SumOf(z) = SumOf([s \in T |-> z[s]])
        <4>1. IsFiniteSet(S)
          OBVIOUS
        <4> QED BY ONLY <2>3, <2>4, <4>1, SumOfPart, SMTT(30)
      <3> QED BY <2>5, <3>1
    <2>7. x \in [T -> Int] /\ \A s \in T : x[s] = v[s]
      BY <1>3, <2>1, <2>2, <2>4, <2>5
    <2>8. PICK b : b = [i \in D[e] |-> <<e, i>>]
      OBVIOUS
    <2>9. /\ b \in [D[e] -> T]
          /\ \A i, j \in D[e] : b[i] = b[j] => i = j
          /\ \A s \in T : \E i \in D[e] : b[i] = s
      <3>1. b \in [D[e] -> T]
        BY <1>2, <2>2, <2>8
      <3>2. \A i, j \in D[e] : b[i] = b[j] => i = j
        BY <2>8
      <3>3. ASSUME NEW s \in T
            PROVE  \E i \in D[e] : b[i] = s
        <4>1. s[2] \in D[e] /\ s = <<e, s[2]>>
          BY <1>1, <2>2
        <4> QED BY <2>8, <4>1
      <3> QED BY <3>1, <3>2, <3>3
    <2>10. SumOf([i \in D[e] |-> x[b[i]]]) = SumOf(x)
      <3>1. IsFiniteSet(D[e])
        OBVIOUS
      <3>2. x \in [T -> Int]
        BY <2>7
      <3>3. Renamed(D[e], T, b, x)
        BY ONLY <2>3, <2>9, <3>1, <3>2 DEF Renamed
      <3> QED BY ONLY <3>3, SumRenamed
    <2>11. [i \in D[e] |-> x[b[i]]] = f[e]
      <3>1. \A i \in D[e] : x[b[i]] = f[e][i]
        BY <2>7, <2>8, <2>9
      <3>2. f[e] \in [D[e] -> Int]
        OBVIOUS
      <3> QED BY ONLY <3>1, <3>2
    <2>12. w[e] = SumOf(f[e])
      OBVIOUS
    <2> QED BY <2>1, <2>6, <2>10, <2>11, <2>12
  <1>6. SumOf([e \in E |-> SumOf([s \in S |-> IF c[s] = e THEN v[s] ELSE 0])]) = SumOf(v)
    <2>1. IsFiniteSet(S) /\ IsFiniteSet(E) /\ v \in [S -> Int]
      OBVIOUS
    <2> QED BY ONLY <1>4, <2>1, SumByClass, SMTT(30)
  <1>7. [e \in E |-> SumOf([s \in S |-> IF c[s] = e THEN v[s] ELSE 0])] = w
    BY <1>5
  <1> QED BY <1>6, <1>7

\* A strict order of a finite set has a last element in every part.
LEMMA LastOf ==
    ASSUME NEW S, IsFiniteSet(S), NEW R,
           \A s, t, u \in S : <<s, t>> \in R /\ <<t, u>> \in R => <<s, u>> \in R,
           \A s, t \in S : s = t \/ <<s, t>> \in R \/ <<t, s>> \in R,
           NEW U \in SUBSET S, U # {}
    PROVE  \E m \in U : \A u \in U \ {m} : <<u, m>> \in R
  <1> DEFINE B == {V \in SUBSET S : V # {} =>
                      \E m \in V : \A u \in V \ {m} : <<u, m>> \in R}
  <1>1. ASSUME NEW V \in SUBSET S, \A y \in V : V \ {y} \in B, V # {}
        PROVE  \E m \in V : \A u \in V \ {m} : <<u, m>> \in R
    <2>1. PICK x \in V : TRUE
      BY <1>1
    <2>2. CASE V \ {x} = {}
      BY <2>2
    <2>3. CASE V \ {x} # {}
      <3>1. PICK m \in V \ {x} : \A u \in (V \ {x}) \ {m} : <<u, m>> \in R
        BY <1>1, <2>3
      <3>2. CASE <<x, m>> \in R
        BY <3>1, <3>2
      <3>3. CASE <<m, x>> \in R
        <4>1. ASSUME NEW u \in V \ {x}
              PROVE  <<u, x>> \in R
          BY <3>1, <3>3
        <4> QED BY <4>1
      <3> QED BY <3>1, <3>2, <3>3
    <2> QED BY <2>2, <2>3
  <1>2. \A V \in SUBSET S : V \in B
    <2>1. \A V \in SUBSET S : (\A y \in V : V \ {y} \in B) => V \in B
      BY <1>1
    <2> HIDE DEF B
    <2> QED BY <2>1, SubsetInduction
  <1> QED BY <1>2

\* In the order R, what is taken of a part s is as much of a[s] as is still asked for
\* after the parts before it, P[s], which have b[s].
TakenOf(S, R, a, asked, f, P, b, taken) ==
    /\ IsFiniteSet(S)
    /\ \A s \in S : <<s, s>> \notin R
    /\ \A s, t, u \in S : <<s, t>> \in R /\ <<t, u>> \in R => <<s, u>> \in R
    /\ \A s, t \in S : s = t \/ <<s, t>> \in R \/ <<t, s>> \in R
    /\ a \in [S -> Nat] /\ asked \in Nat /\ b \in [S -> Int] /\ taken \in [S -> Int]
    /\ \A s \in S :
          /\ P[s] \subseteq S /\ \A t \in S : t \in P[s] <=> <<t, s>> \in R
          /\ f[s] \in [P[s] -> Int] /\ \A t \in P[s] : f[s][t] = a[t]
          /\ b[s] = SumOf(f[s])
          /\ taken[s] = IF b[s] < asked
                        THEN IF a[s] < asked - b[s] THEN a[s] ELSE asked - b[s]
                        ELSE 0

\* What is taken from one part after the other, of each as much as it has and as is
\* still asked for, is what was asked for if there is as much.
LEMMA SumOfTaken ==
    ASSUME NEW S, NEW R, NEW a, NEW asked, NEW f, NEW P, NEW b, NEW taken,
           TakenOf(S, R, a, asked, f, P, b, taken)
    PROVE  /\ SumOf(taken) = IF SumOf(a) < asked THEN SumOf(a) ELSE asked
           /\ SumOf(a) \in Nat
  <1> USE DEF TakenOf
  <1>1. a \in [S -> Int]
    OBVIOUS
  <1>2. PICK G : Sums(G, a, S) /\ SumOf(a) = G[S]
    BY <1>1, SumIsSums
  <1>3. PICK F : Sums(F, taken, S) /\ SumOf(taken) = F[S]
    BY SumIsSums
  <1> DEFINE Down(U) == \A u \in U, w \in S : <<w, u>> \in R => w \in U
             Met(U) == F[U] = IF G[U] < asked THEN G[U] ELSE asked
             B == {U \in SUBSET S : Down(U) => Met(U)}
  <1>4. \A U \in SUBSET S : G[U] \in Nat
    <2> SUFFICES ASSUME NEW U \in SUBSET S PROVE G[U] \in Nat
      OBVIOUS
    <2>1. PICK c : c = [x \in U |-> a[x]]
      OBVIOUS
    <2>2. c \in [U -> Nat] /\ IsFiniteSet(U)
      BY <2>1, FS_Subset
    <2>3. SumOf(c) = G[U]
      BY <1>1, <1>2, <2>1, SumsOfPart, SMTT(60)
    <2> QED BY <2>2, <2>3, SumCovers
  <1>5. ASSUME NEW U \in SUBSET S, \A y \in U : U \ {y} \in B, Down(U)
        PROVE  Met(U)
    <2>1. CASE U = {}
      BY <1>2, <1>3, <2>1 DEF Sums
    <2>2. CASE U # {}
      <3>1. PICK m \in U : \A u \in U \ {m} : <<u, m>> \in R
        <4>1. /\ IsFiniteSet(S)
              /\ \A s, t, u \in S : <<s, t>> \in R /\ <<t, u>> \in R => <<s, u>> \in R
              /\ \A s, t \in S : s = t \/ <<s, t>> \in R \/ <<t, s>> \in R
              /\ U \in SUBSET S
          OBVIOUS
        <4>2. \E m \in U : \A u \in U \ {m} : <<u, m>> \in R
          BY ONLY <2>2, <4>1, LastOf, SMTT(30)
        <4> QED BY <4>2
      <3>2. PICK V : V = U \ {m}
        OBVIOUS
      <3>3. Down(V)
        <4> SUFFICES ASSUME NEW u \in V, NEW w \in S, <<w, u>> \in R
                     PROVE  w \in V
          OBVIOUS
        <4>1. w \in U /\ u \in S /\ <<u, m>> \in R /\ m \in S
          BY <1>5, <3>1, <3>2
        <4>2. w # m
          BY <4>1
        <4> QED BY <3>2, <4>1, <4>2
      <3>4. Met(V)
        <4>1. V \in B
          BY <1>5, <3>2
        <4> QED BY <3>3, <4>1
      <3>5. P[m] = V
        <4>1. ASSUME NEW t \in S, <<t, m>> \in R PROVE t \in V
          BY <1>5, <3>2, <4>1
        <4>2. ASSUME NEW t \in V PROVE t \in S /\ <<t, m>> \in R
          BY <3>1, <3>2
        <4>3. \A t \in P[m] : t \in S /\ <<t, m>> \in R
          OBVIOUS
        <4>4. \A t \in S : <<t, m>> \in R => t \in P[m]
          OBVIOUS
        <4> QED BY ONLY <4>1, <4>2, <4>3, <4>4
      <3>6. b[m] = G[V]
        <4>1. V \subseteq S
          BY <3>2
        <4>2. SumOf([t \in V |-> a[t]]) = G[V]
          BY <1>1, <1>2, <4>1, SumsOfPart
        <4>3. f[m] \in [V -> Int] /\ \A t \in V : f[m][t] = a[t]
          BY <3>5
        <4>4. f[m] = [t \in V |-> a[t]]
          BY ONLY <4>3
        <4>5. b[m] = SumOf(f[m])
          OBVIOUS
        <4> QED BY <4>2, <4>4, <4>5
      <3>7. U \subseteq S /\ m \in U
        OBVIOUS
      <3>8. G[U] = a[m] + G[V]
        BY ONLY <1>1, <1>2, <3>2, <3>7, SumsStep, SMTT(30)
      <3>9. F[U] = taken[m] + F[V]
        <4>1. taken \in [S -> Int]
          OBVIOUS
        <4> QED BY ONLY <1>3, <3>2, <3>7, <4>1, SumsStep, SMTT(30)
      <3>10. G[V] \in Nat /\ a[m] \in Nat
        BY <1>4, <3>2
      <3>11. taken[m] = IF G[V] < asked
                        THEN IF a[m] < asked - G[V] THEN a[m] ELSE asked - G[V]
                        ELSE 0
        BY <3>6, <3>7
      <3> QED BY ONLY <3>4, <3>8, <3>9, <3>10, <3>11, asked \in Nat
    <2> QED BY <2>1, <2>2
  <1>6. \A U \in SUBSET S : U \in B
    <2>1. \A U \in SUBSET S : (\A y \in U : U \ {y} \in B) => U \in B
      BY <1>5
    <2> HIDE DEF B
    <2> QED BY <2>1, SubsetInduction
  <1>7. Met(S)
    BY <1>6
  <1> QED BY <1>2, <1>3, <1>4, <1>7

-----------------------------------------------------------------------------
(* Sums taken with an operator.  A fold is a CHOOSE of a function, so a sum  *)
(* that a model takes with an operator of its own is SumOf of what the       *)
(* operator gives because one function only fits the steps of the fold.      *)

Iterates(g, f, S) == \A s \in SUBSET S : g[s] = FoldStep(f, g, s)

\* There is one function that fits.
LEMMA IteratedOnce ==
    ASSUME NEW S, IsFiniteSet(S), NEW f, NEW g, NEW h,
           Iterates(g, f, S), Iterates(h, f, S)
    PROVE  g[S] = h[S]
  <1> DEFINE B == {T \in SUBSET S : g[T] = h[T]}
  <1>1. ASSUME NEW T \in SUBSET S, \A y \in T : T \ {y} \in B
        PROVE  T \in B
    <2>1. g[T] = FoldStep(f, g, T) /\ h[T] = FoldStep(f, h, T)
      BY DEF Iterates
    <2>2. CASE T = {}
      BY <2>1, <2>2 DEF FoldStep
    <2>3. CASE T # {}
      <3>1. OneOf(T) \in T
        BY <2>3 DEF OneOf
      <3>2. g[T \ {OneOf(T)}] = h[T \ {OneOf(T)}]
        BY <1>1, <3>1
      <3> QED BY <2>1, <3>2 DEF FoldStep
    <2> QED BY <2>2, <2>3
  <1>2. \A T \in SUBSET S : T \in B
    <2> HIDE DEF B
    <2> QED BY <1>1, SubsetInduction
  <1> QED BY <1>2

=============================================================================
