-------------------------- MODULE GeneratorProofs --------------------------
(***************************************************************************)
(* What is proved of the corpus generator, for worlds, question specs and  *)
(* scenarios of any size: worlds are as specified, gold is right, names    *)
(* lead to it and scenarios replay.                                        *)
(***************************************************************************)
EXTENDS QuestionsProperties, TLAPS, FiniteSetTheorems, WellFoundedInduction, SequenceTheorems

(***************************************************************************)
(* Induction and recursion, in the form the proofs below use: the claim to *)
(* be proved by induction is a set of those it holds for, and what a       *)
(* recursive definition does at each step is a function.                   *)
(***************************************************************************)

LEMMA LeastOfNaturals ==
    ASSUME NEW T, T \subseteq Nat, T # {}
    PROVE  \E n \in T : \A m \in T : n <= m
<1>. DEFINE R == {p \in Nat \X Nat : p[1] < p[2]}
<1>1. IsWellFoundedOn(R, Nat)
  BY NatLessThanWellFounded DEF OpToRel
<1>2. \A x, y \in Nat : x < y => <<x, y>> \in R
  OBVIOUS
<1>. HIDE DEF R
<1>3. PICK x \in T : \A y \in T : ~(<<y, x>> \in R)
  BY <1>1, WFMin
<1>4. \A y \in T : x <= y
  <2>1. TAKE y \in T
  <2>2. x \in Nat /\ y \in Nat /\ ~(y < x)
    BY <1>2, <1>3
  <2>. QED
    BY <2>2
<1>. QED
  BY <1>4

\* Every number up to N is in a set that holds 0 and with n also n + 1.
LEMMA UpTo ==
    ASSUME NEW N \in Nat, NEW Good, 0 \in Good,
           \A n \in 0 .. N - 1 : n \in Good => n + 1 \in Good
    PROVE  0 .. N \subseteq Good
<1>. DEFINE Bad == {n \in 0 .. N : n \notin Good}
<1>. SUFFICES ASSUME Bad # {} PROVE FALSE
  OBVIOUS
<1>1. PICK n \in Bad : \A m \in Bad : n <= m
  <2>1. Bad \subseteq Nat
    OBVIOUS
  <2>. HIDE DEF Bad
  <2>. QED
    BY <2>1, LeastOfNaturals
<1>2. n \in 1 .. N /\ n - 1 \in 0 .. N - 1 /\ n - 1 \notin Bad
  BY <1>1
<1>3. n - 1 \in Good
  BY <1>2
<1>4. (n - 1) + 1 \in Good
  BY <1>2, <1>3
<1>. QED
  BY <1>1, <1>2, <1>4

\* Every subset of a finite set is in a collection that holds {} and holds a set when it holds
\* the set without any one of its elements.
LEMMA SubsetInduction ==
    ASSUME NEW S, IsFiniteSet(S), NEW Good, {} \in Good,
           \A s \in SUBSET S : s # {} /\ (\A x \in s : s \ {x} \in Good) => s \in Good
    PROVE  \A s \in SUBSET S : s \in Good
<1>. DEFINE All(n) == \A s \in SUBSET S : Cardinality(s) = n => s \in Good
            Sizes == {n \in Nat : All(n)}
<1>1. Cardinality(S) \in Nat
  BY FS_CardinalityType
<1>2. 0 \in Sizes
  <2>1. ASSUME NEW s \in SUBSET S, Cardinality(s) = 0 PROVE s = {}
    BY <2>1, FS_Subset, FS_EmptySet
  <2>. QED
    BY <2>1
<1>3. ASSUME NEW n \in Nat, n \in Sizes PROVE n + 1 \in Sizes
  <2>1. ASSUME NEW s \in SUBSET S, Cardinality(s) = n + 1 PROVE s \in Good
    <3>1. IsFiniteSet(s)
      BY FS_Subset
    <3>2. s # {}
      <4>1. Cardinality({}) = 0 /\ n + 1 # 0
        BY FS_EmptySet
      <4>. QED
        BY <2>1, <4>1
    <3>3. ASSUME NEW x \in s PROVE s \ {x} \in Good
      <4>1. Cardinality(s \ {x}) = Cardinality(s) - 1
        BY <3>1, FS_RemoveElement
      <4>2. Cardinality(s \ {x}) = n
        BY <2>1, <4>1
      <4>. QED
        BY <1>3, <4>2
    <3>. QED
      BY <3>2, <3>3
  <2>. QED
    BY <2>1
<1>4. 0 .. Cardinality(S) \subseteq Sizes
  <2>. HIDE DEF Sizes
  <2>1. \A n \in 0 .. Cardinality(S) - 1 : n \in Sizes => n + 1 \in Sizes
    BY <1>1, <1>3
  <2>. QED
    BY <1>1, <1>2, <2>1, UpTo
<1>5. \A s \in SUBSET S : Cardinality(s) \in 0 .. Cardinality(S)
  <2>1. TAKE s \in SUBSET S
  <2>2. IsFiniteSet(s) /\ Cardinality(s) <= Cardinality(S)
    BY FS_Subset
  <2>3. Cardinality(s) \in Nat
    BY <2>2, FS_CardinalityType
  <2>. QED
    BY <1>1, <2>2, <2>3
<1>. QED
  BY <1>4, <1>5

\* Every finite set is in a collection that holds {} and can be added to.
LEMMA SetInduction ==
    ASSUME NEW S, IsFiniteSet(S), NEW Good, {} \in Good,
           \A s \in SUBSET S : \A x \in S \ s : s \in Good => s \cup {x} \in Good
    PROVE  S \in Good
<1>1. ASSUME NEW s \in SUBSET S, s # {}, \A x \in s : s \ {x} \in Good PROVE s \in Good
  <2>1. PICK x \in s : TRUE
    BY <1>1
  <2>2. s \ {x} \in SUBSET S /\ x \in S \ (s \ {x}) /\ s \ {x} \in Good
    BY <1>1
  <2>3. (s \ {x}) \cup {x} \in Good
    BY <2>2
  <2>4. (s \ {x}) \cup {x} = s
    OBVIOUS
  <2>. QED
    BY <2>3, <2>4
<1>. QED
  BY <1>1, SubsetInduction

\* g goes through N steps from a
Goes(g, N, a, step) ==
    /\ g[0] = a
    /\ \A n \in 1 .. N : g[n] = step[n][g[n - 1]]

\* Steps one after the other lead somewhere.
LEMMA StepsLead ==
    ASSUME NEW N \in Nat, NEW V, NEW a \in V, NEW step \in [1 .. N -> [V -> V]]
    PROVE  \E g \in [0 .. N -> V] : Goes(g, N, a, step)
<1>. DEFINE Good == {n \in 0 .. N : \E g \in [0 .. n -> V] : Goes(g, n, a, step)}
<1>1. 0 \in Good
  <2>1. [k \in 0 .. 0 |-> a] \in [0 .. 0 -> V] /\ Goes([k \in 0 .. 0 |-> a], 0, a, step)
    BY DEF Goes
  <2>. QED
    BY <2>1
<1>2. ASSUME NEW n \in 0 .. N - 1, n \in Good PROVE n + 1 \in Good
  <2>1. PICK g \in [0 .. n -> V] : Goes(g, n, a, step)
    BY <1>2
  <2>. DEFINE h == [k \in 0 .. n + 1 |-> IF k = n + 1 THEN step[n + 1][g[n]] ELSE g[k]]
  <2>2. n + 1 \in 1 .. N /\ n \in 0 .. n /\ g[n] \in V /\ step[n + 1][g[n]] \in V
    OBVIOUS
  <2>3. h \in [0 .. n + 1 -> V]
    BY <2>2
  <2>4. h[0] = a
    BY <2>1 DEF Goes
  <2>5. ASSUME NEW k \in 1 .. n + 1 PROVE h[k] = step[k][h[k - 1]]
    <3>1. CASE k = n + 1
      BY <3>1
    <3>2. CASE k # n + 1
      <4>1. k \in 1 .. n /\ k - 1 \in 0 .. n
        BY <3>2
      <4>2. h[k] = g[k] /\ h[k - 1] = g[k - 1]
        BY <4>1
      <4>. QED
        BY <2>1, <4>1, <4>2 DEF Goes
    <3>. QED
      BY <3>1, <3>2
  <2>6. Goes(h, n + 1, a, step)
    BY <2>4, <2>5 DEF Goes
  <2>. HIDE DEF h
  <2>. QED
    BY <2>3, <2>6
<1>3. 0 .. N \subseteq Good
  <2>. HIDE DEF Good
  <2>. QED
    BY <1>1, <1>2, UpTo
<1>. QED
  BY <1>3

\* from every subset of S that is not empty, something is picked
Picks(pick, S) == \A s \in SUBSET S : s # {} => pick[s] \in s

\* g folds every subset of S, taking the element picked last
Folds(g, S, base, step, pick) ==
    \A s \in SUBSET S : g[s] = IF s = {} THEN base ELSE step[pick[s]][g[s \ {pick[s]}]]

\* Every finite set can be folded.
LEMMA FoldExists ==
    ASSUME NEW S, IsFiniteSet(S), NEW V, NEW base \in V, NEW step \in [S -> [V -> V]],
           NEW pick, Picks(pick, S)
    PROVE  \E g \in [SUBSET S -> V] : Folds(g, S, base, step, pick)
<1>. DEFINE upTo(n) == {s \in SUBSET S : Cardinality(s) <= n}
            IsFold(g, n) == \A s \in upTo(n) :
                g[s] = IF s = {} THEN base ELSE step[pick[s]][g[s \ {pick[s]}]]
            Good == {n \in Nat : \E g \in [upTo(n) -> V] : IsFold(g, n)}
<1>1. Cardinality(S) \in Nat
  BY FS_CardinalityType
<1>2. \A s \in SUBSET S : Cardinality(s) \in Nat /\ IsFiniteSet(s) /\ Cardinality(s) <= Cardinality(S)
  BY FS_Subset, FS_CardinalityType
<1>3. \A s \in SUBSET S : s # {} =>
        pick[s] \in s /\ Cardinality(s \ {pick[s]}) = Cardinality(s) - 1
  BY <1>2, FS_RemoveElement DEF Picks
<1>4. \A s \in SUBSET S : Cardinality(s) <= 0 => s = {}
  BY <1>2, FS_EmptySet
<1>5. 0 \in Good
  <2>1. [s \in upTo(0) |-> base] \in [upTo(0) -> V] /\ IsFold([s \in upTo(0) |-> base], 0)
    BY <1>4
  <2>. QED
    BY <2>1
<1>6. ASSUME NEW n \in Nat, n \in Good PROVE n + 1 \in Good
  <2>1. PICK g \in [upTo(n) -> V] : IsFold(g, n)
    BY <1>6
  <2>. DEFINE h == [s \in upTo(n + 1) |->
                       IF s = {} THEN base ELSE step[pick[s]][g[s \ {pick[s]}]]]
  <2>2. \A s \in upTo(n + 1) : s # {} => s \ {pick[s]} \in upTo(n) /\ pick[s] \in S
    BY <1>2, <1>3
  <2>3. h \in [upTo(n + 1) -> V]
    BY <2>2
  <2>4. upTo(n) \subseteq upTo(n + 1)
    BY <1>2
  <2>5. \A s \in upTo(n) : h[s] = g[s]
    BY <2>1, <2>4
  <2>6. IsFold(h, n + 1)
    BY <2>2, <2>5
  <2>7. \E f \in [upTo(n + 1) -> V] : IsFold(f, n + 1)
    <3>. HIDE DEF h, IsFold, upTo
    <3>. QED
      BY <2>3, <2>6
  <2>. HIDE DEF IsFold, upTo
  <2>. QED
    BY <2>7
<1>7. Cardinality(S) \in Good
  <2>. HIDE DEF Good
  <2>1. 0 .. Cardinality(S) \subseteq Good
    BY <1>1, <1>5, <1>6, UpTo
  <2>. QED
    BY <1>1, <2>1
<1>8. upTo(Cardinality(S)) = SUBSET S
  BY <1>2
<1>9. PICK g \in [upTo(Cardinality(S)) -> V] : IsFold(g, Cardinality(S))
  BY <1>7
<1>. QED
  BY <1>8, <1>9 DEF Folds

\* The greatest of a nonempty set of numbers up to n, which folds of sequences pick.
LEMMA MaxOfSome ==
    ASSUME NEW n \in Nat, NEW s \in SUBSET (1 .. n), s # {}
    PROVE  Max(s) \in s /\ \A x \in s : x <= Max(s)
<1>. DEFINE T == {n - x : x \in s}
<1>1. PICK m \in T : \A k \in T : m <= k
  <2>1. T \subseteq Nat
    OBVIOUS
  <2>2. T # {}
    <3>1. PICK x : x \in s
      OBVIOUS
    <3>2. n - x \in T
      BY <3>1
    <3>. QED
      BY <3>2
  <2>. HIDE DEF T
  <2>. QED
    BY <2>1, <2>2, LeastOfNaturals
<1>2. PICK x \in s : m = n - x
  BY <1>1
<1>3. \A y \in s : x >= y
  <2>1. TAKE y \in s
  <2>2. n - y \in T
    OBVIOUS
  <2>3. m <= n - y
    BY <1>1, <2>2
  <2>. HIDE DEF T
  <2>. QED
    BY <1>2, <2>3
<1>4. \E z \in s : \A y \in s : z >= y
  BY <1>3
<1>5. Max(s) \in s /\ \A y \in s : Max(s) >= y
  BY <1>4 DEF Max
<1>. QED
  BY <1>5

\* g folds places up to n, the last one last
FoldsPlaces(g, n, base, step) ==
    \A s \in SUBSET (1 .. n) : g[s] = IF s = {} THEN base ELSE step[Max(s)][g[s \ {Max(s)}]]

LEMMA FoldByPlaces ==
    ASSUME NEW n \in Nat, NEW V, NEW base \in V, NEW step \in [1 .. n -> [V -> V]]
    PROVE  \E g \in [SUBSET (1 .. n) -> V] : FoldsPlaces(g, n, base, step)
<1>. DEFINE pick == [s \in SUBSET (1 .. n) |-> Max(s)]
<1>1. Picks(pick, 1 .. n)
  BY MaxOfSome DEF Picks
<1>2. IsFiniteSet(1 .. n)
  BY FS_Interval
<1>3. PICK g \in [SUBSET (1 .. n) -> V] : Folds(g, 1 .. n, base, step, pick)
  <2>. HIDE DEF pick
  <2>. QED
    BY <1>1, <1>2, FoldExists
<1>. QED
  BY <1>3 DEF Folds, FoldsPlaces

\* The places up to k, without the last.
LEMMA MaxOfPlaces ==
    ASSUME NEW k \in Nat \ {0}
    PROVE  1 .. k # {} /\ Max(1 .. k) = k /\ (1 .. k) \ {k} = 1 .. k - 1
<1>1. 1 .. k \in SUBSET (1 .. k) /\ 1 .. k # {} /\ k \in 1 .. k
  OBVIOUS
<1>2. Max(1 .. k) \in 1 .. k /\ \A x \in 1 .. k : x <= Max(1 .. k)
  BY <1>1, MaxOfSome
<1>. QED
  BY <1>1, <1>2

\* The image of a finite set is finite, and as large when no two elements have the same image.
LEMMA ImageSize ==
    ASSUME NEW S, NEW f, IsFiniteSet(S)
    PROVE  /\ IsFiniteSet({f[x] : x \in S}) /\ Cardinality({f[x] : x \in S}) <= Cardinality(S)
           /\ (\A x, y \in S : f[x] = f[y] => x = y) => Cardinality({f[x] : x \in S}) = Cardinality(S)
<1>. DEFINE T == {f[x] : x \in S}
            g == [x \in S |-> f[x]]
<1>1. g \in Surjection(S, T)
  BY DEF Surjection
<1>2. (\A x, y \in S : f[x] = f[y] => x = y) => g \in Injection(S, T)
  BY DEF Injection, IsInjective
<1>. HIDE DEF g, T
<1>3. /\ IsFiniteSet(T) /\ Cardinality(T) <= Cardinality(S)
      /\ (Cardinality(T) = Cardinality(S) <=> g \in Injection(S, T))
  BY <1>1, FS_Surjection
<1>. QED
  BY <1>2, <1>3 DEF T

LEMMA DifferenceSize ==
    ASSUME NEW S, NEW T \in SUBSET S, IsFiniteSet(S)
    PROVE  /\ IsFiniteSet(S \ T) /\ IsFiniteSet(T)
           /\ Cardinality(S \ T) \in Nat /\ Cardinality(T) \in Nat
           /\ Cardinality(S \ T) = Cardinality(S) - Cardinality(T)
<1>1. /\ IsFiniteSet(S \ T) /\ IsFiniteSet(T)
      /\ Cardinality(S \ T) \in Nat /\ Cardinality(T) \in Nat
  BY FS_Subset, FS_CardinalityType
<1>2. (S \ T) \cup T = S /\ (S \ T) \cap T = {}
  OBVIOUS
<1>3. Cardinality((S \ T) \cup T)
         = Cardinality(S \ T) + Cardinality(T) - Cardinality((S \ T) \cap T)
  BY <1>1, FS_Union
<1>4. Cardinality((S \ T) \cap T) = 0
  BY <1>2, FS_EmptySet
<1>5. Cardinality(S) = Cardinality(S \ T) + Cardinality(T) - 0
  BY <1>2, <1>3, <1>4
<1>. QED
  BY <1>1, <1>5

(***************************************************************************)
(* Sums.                                                                   *)
(***************************************************************************)

\* what the library's sums take next
Next1(s) == CHOOSE x \in s : TRUE

\* g is the sum of f over each subset of S
IsSum(g, f, S) ==
    \A s \in SUBSET S : g[s] = IF s = {} THEN 0 ELSE f[Next1(s)] + g[s \ {Next1(s)}]

Naturals1(f, S) == IsFiniteSet(S) /\ \A x \in S : f[x] \in Nat

\* Only one function is.
LEMMA SumUnique ==
    ASSUME NEW S, IsFiniteSet(S), NEW f, NEW g, NEW h, IsSum(g, f, S), IsSum(h, f, S)
    PROVE  \A s \in SUBSET S : g[s] = h[s]
<1>. DEFINE Good == {s \in SUBSET S : g[s] = h[s]}
<1>1. {} \in Good
  BY DEF IsSum
<1>2. ASSUME NEW s \in SUBSET S, s # {}, \A x \in s : s \ {x} \in Good PROVE s \in Good
  <2>1. Next1(s) \in s
    BY <1>2 DEF Next1
  <2>2. g[s \ {Next1(s)}] = h[s \ {Next1(s)}]
    BY <1>2, <2>1
  <2>3. g[s] = h[s]
    BY <1>2, <2>2 DEF IsSum
  <2>. QED
    BY <2>3
<1>3. \A s \in SUBSET S : s \in Good
  <2>. HIDE DEF Good
  <2>. QED
    BY <1>1, <1>2, SubsetInduction
<1>. QED
  BY <1>3

\* What the library sums is such a function's value.
LEMMA SumUnfold ==
    ASSUME NEW S, NEW f, Naturals1(f, S)
    PROVE  \E g \in [SUBSET S -> Nat] : IsSum(g, f, S) /\ SumFunctionOnSet(f, S) = g[S]
<1>. DEFINE step == [x \in S |-> [n \in Nat |-> f[x] + n]]
            pick == [s \in SUBSET S |-> Next1(s)]
            Body(g) == [s \in SUBSET S |->
                          IF s = {} THEN 0 ELSE f[Next1(s)] + g[s \ {Next1(s)}]]
            iter == CHOOSE g : g = Body(g)
<1>1. \A x \in S : f[x] \in Nat
  BY DEF Naturals1
<1>2. IsFiniteSet(S)
  BY DEF Naturals1
<1>3. step \in [S -> [Nat -> Nat]]
  BY <1>1
<1>4. PICK g \in [SUBSET S -> Nat] : Folds(g, S, 0, step, pick)
  <2>1. Picks(pick, S)
    BY DEF Picks, Next1
  <2>. HIDE DEF step, pick
  <2>. QED
    BY <1>2, <1>3, <2>1, FoldExists
<1>5. ASSUME NEW s \in SUBSET S, s # {} PROVE Next1(s) \in S /\ g[s \ {Next1(s)}] \in Nat
  BY <1>5 DEF Next1
<1>6. IsSum(g, f, S)
  <2>1. ASSUME NEW s \in SUBSET S
        PROVE  g[s] = IF s = {} THEN 0 ELSE f[Next1(s)] + g[s \ {Next1(s)}]
    <3>1. g[s] = IF s = {} THEN 0 ELSE step[Next1(s)][g[s \ {Next1(s)}]]
      BY <1>4 DEF Folds
    <3>2. s # {} => step[Next1(s)][g[s \ {Next1(s)}]] = f[Next1(s)] + g[s \ {Next1(s)}]
      BY <1>5
    <3>. HIDE DEF step
    <3>. QED
      BY <3>1, <3>2
  <2>. QED
    BY <2>1 DEF IsSum
<1>7. g = Body(g)
  BY <1>6 DEF IsSum
<1>8. iter = Body(iter)
  <2>. HIDE DEF Body
  <2>. QED
    BY <1>7
<1>9. IsSum(iter, f, S)
  <2>. HIDE DEF iter
  <2>. QED
    BY <1>8 DEF IsSum
<1>10. iter[S] = g[S]
  <2>. HIDE DEF iter
  <2>. QED
    BY <1>2, <1>6, <1>9, SumUnique
<1>11. SumFunctionOnSet(f, S) = iter[S]
  BY DEF SumFunctionOnSet, FoldFunctionOnSet, MapThenFoldSet, Next1
<1>. QED
  BY <1>6, <1>10, <1>11

Sums(g, f, S) ==
    /\ g \in [SUBSET S -> Nat]
    /\ IsSum(g, f, S)
    /\ \A s \in SUBSET S : SumFunctionOnSet(f, s) = g[s]

\* The sums over all subsets are one such function.
LEMMA SumsOf ==
    ASSUME NEW S, NEW f, Naturals1(f, S)
    PROVE  \E g : Sums(g, f, S)
<1>1. PICK g \in [SUBSET S -> Nat] : IsSum(g, f, S)
  BY SumUnfold
<1>2. ASSUME NEW s \in SUBSET S PROVE SumFunctionOnSet(f, s) = g[s]
  <2>1. IsFiniteSet(s) /\ Naturals1(f, s)
    BY FS_Subset DEF Naturals1
  <2>2. PICK h \in [SUBSET s -> Nat] : IsSum(h, f, s) /\ SumFunctionOnSet(f, s) = h[s]
    BY <2>1, SumUnfold
  <2>3. IsSum(g, f, s)
    BY <1>1 DEF IsSum
  <2>. QED
    BY <2>1, <2>2, <2>3, SumUnique
<1>. QED
  BY <1>1, <1>2 DEF Sums

LEMMA SumType ==
    ASSUME NEW S, NEW f, Naturals1(f, S)
    PROVE  SumFunctionOnSet(f, S) \in Nat
<1>1. PICK g \in [SUBSET S -> Nat] : IsSum(g, f, S) /\ SumFunctionOnSet(f, S) = g[S]
  BY SumUnfold
<1>. QED
  BY <1>1

LEMMA SumEmpty == ASSUME NEW f PROVE SumFunctionOnSet(f, {}) = 0
<1>1. Naturals1(f, {})
  BY FS_EmptySet DEF Naturals1
<1>2. PICK g \in [SUBSET {} -> Nat] : IsSum(g, f, {}) /\ SumFunctionOnSet(f, {}) = g[{}]
  BY <1>1, SumUnfold
<1>3. {} \in SUBSET {}
  OBVIOUS
<1>. QED
  BY <1>2, <1>3 DEF IsSum

\* Any element can be taken out, not only the one the fold picks.
LEMMA SumRemove ==
    ASSUME NEW S, NEW f, NEW x \in S, Naturals1(f, S)
    PROVE  SumFunctionOnSet(f, S) = f[x] + SumFunctionOnSet(f, S \ {x})
<1>0. PICK g : Sums(g, f, S)
  BY SumsOf
<1>1. /\ g \in [SUBSET S -> Nat] /\ IsSum(g, f, S)
      /\ \A s \in SUBSET S : SumFunctionOnSet(f, s) = g[s]
  BY <1>0 DEF Sums
<1>2. IsFiniteSet(S) /\ \A y \in S : f[y] \in Nat
  BY DEF Naturals1
<1>. DEFINE Good == {s \in SUBSET S : \A y \in s : g[s] = f[y] + g[s \ {y}]}
<1>3. {} \in Good
  OBVIOUS
<1>4. ASSUME NEW s \in SUBSET S, s # {}, \A y \in s : s \ {y} \in Good PROVE s \in Good
  <2>. DEFINE c == Next1(s)
  <2>1. c \in s
    BY <1>4 DEF Next1
  <2>. HIDE DEF c
  <2>2. g[s] = f[c] + g[s \ {c}]
    BY <1>1, <1>4 DEF IsSum, c
  <2>3. ASSUME NEW y \in s, y # c PROVE g[s] = f[y] + g[s \ {y}]
    <3>1. s \ {c} \in Good /\ s \ {y} \in Good
      BY <1>4, <2>1
    <3>2. y \in s \ {c} /\ c \in s \ {y}
      BY <2>1, <2>3
    <3>3. g[s \ {c}] = f[y] + g[(s \ {c}) \ {y}] /\ g[s \ {y}] = f[c] + g[(s \ {y}) \ {c}]
      BY <3>1, <3>2
    <3>4. (s \ {c}) \ {y} = (s \ {y}) \ {c}
      OBVIOUS
    <3>5. g[(s \ {c}) \ {y}] \in Nat /\ f[y] \in Nat /\ f[c] \in Nat
      BY <1>1, <1>2, <2>1
    <3>6. g[s] = f[c] + (f[y] + g[(s \ {c}) \ {y}])
      BY <2>2, <3>3
    <3>7. \A i, j, k \in Nat : i + (j + k) = j + (i + k)
      OBVIOUS
    <3>8. g[s] = f[y] + (f[c] + g[(s \ {c}) \ {y}])
      BY <3>5, <3>6, <3>7
    <3>. QED
      BY <3>3, <3>4, <3>8
  <2>. QED
    BY <2>2, <2>3
<1>5. S \in Good
  <2>. HIDE DEF Good
  <2>1. \A s \in SUBSET S : s \in Good
    BY <1>2, <1>3, <1>4, SubsetInduction
  <2>. QED
    BY <2>1
<1>6. SumFunctionOnSet(f, S) = g[S] /\ SumFunctionOnSet(f, S \ {x}) = g[S \ {x}]
  BY <1>1
<1>. QED
  BY <1>5, <1>6

LEMMA SumAdd ==
    ASSUME NEW S, NEW f, NEW x, x \notin S, Naturals1(f, S \cup {x})
    PROVE  SumFunctionOnSet(f, S \cup {x}) = f[x] + SumFunctionOnSet(f, S)
<1>1. (S \cup {x}) \ {x} = S /\ x \in S \cup {x}
  OBVIOUS
<1>. QED
  BY <1>1, SumRemove

AddsUp(f, s, x) ==
    /\ SumFunctionOnSet(f, s) \in Nat /\ f[x] \in Nat
    /\ SumFunctionOnSet(f, s \cup {x}) = f[x] + SumFunctionOnSet(f, s)

\* What an induction over sums needs: for every subset, and every element to add.
LEMMA SumStep ==
    ASSUME NEW S, NEW f, Naturals1(f, S), NEW s \in SUBSET S, NEW x \in S \ s
    PROVE  AddsUp(f, s, x)
<1>1. Naturals1(f, s) /\ Naturals1(f, s \cup {x}) /\ f[x] \in Nat
  BY FS_Subset, s \cup {x} \in SUBSET S DEF Naturals1
<1>2. SumFunctionOnSet(f, s) \in Nat
  BY <1>1, SumType
<1>3. SumFunctionOnSet(f, s \cup {x}) = f[x] + SumFunctionOnSet(f, s)
  BY <1>1, SumAdd
<1>. QED
  BY <1>1, <1>2, <1>3 DEF AddsUp

\* Sums of functions that agree, of two functions, of a multiple and of ones.
LEMMA SumSame ==
    ASSUME NEW S, NEW f, NEW g, Naturals1(f, S), \A x \in S : f[x] = g[x]
    PROVE  SumFunctionOnSet(f, S) = SumFunctionOnSet(g, S)
<1>. DEFINE Good == {s \in SUBSET S : SumFunctionOnSet(f, s) = SumFunctionOnSet(g, s)}
<1>1. Naturals1(g, S) /\ IsFiniteSet(S)
  BY DEF Naturals1
<1>2. {} \in Good
  BY SumEmpty
<1>3. ASSUME NEW s \in SUBSET S, NEW x \in S \ s, s \in Good PROVE s \cup {x} \in Good
  <2>1. SumFunctionOnSet(f, s) = SumFunctionOnSet(g, s)
    BY <1>3
  <2>2. SumFunctionOnSet(f, s \cup {x}) = SumFunctionOnSet(g, s \cup {x})
    <3>. HIDE DEF Good
    <3>1. AddsUp(f, s, x) /\ AddsUp(g, s, x)
      BY <1>1, SumStep
    <3>. QED
      BY <2>1, <3>1 DEF AddsUp
  <2>. QED
    BY <2>2
<1>4. S \in Good
  <2>. HIDE DEF Good
  <2>. QED
    BY <1>1, <1>2, <1>3, SetInduction
<1>. QED
  BY <1>4

LEMMA SumPlus ==
    ASSUME NEW S, NEW f, NEW g, NEW h, Naturals1(f, S), Naturals1(g, S),
           \A x \in S : h[x] = f[x] + g[x]
    PROVE  SumFunctionOnSet(h, S) = SumFunctionOnSet(f, S) + SumFunctionOnSet(g, S)
<1>. DEFINE Good == {s \in SUBSET S :
               SumFunctionOnSet(h, s) = SumFunctionOnSet(f, s) + SumFunctionOnSet(g, s)}
<1>1. Naturals1(h, S) /\ IsFiniteSet(S)
  BY DEF Naturals1
<1>2. {} \in Good
  BY SumEmpty
<1>3. ASSUME NEW s \in SUBSET S, NEW x \in S \ s, s \in Good PROVE s \cup {x} \in Good
  <2>. HIDE DEF Good
  <2>1. AddsUp(f, s, x)
    BY SumStep
  <2>2. AddsUp(g, s, x)
    BY SumStep
  <2>3. AddsUp(h, s, x)
    BY <1>1, SumStep
  <2>4. SumFunctionOnSet(h, s) = SumFunctionOnSet(f, s) + SumFunctionOnSet(g, s)
    BY <1>3 DEF Good
  <2>. QED
    BY <2>1, <2>2, <2>3, <2>4 DEF Good, AddsUp
<1>4. S \in Good
  <2>. HIDE DEF Good
  <2>. QED
    BY <1>1, <1>2, <1>3, SetInduction
<1>. QED
  BY <1>4

LEMMA SumTimes ==
    ASSUME NEW S, NEW f, NEW h, NEW k \in Nat, Naturals1(f, S), \A x \in S : h[x] = k * f[x]
    PROVE  SumFunctionOnSet(h, S) = k * SumFunctionOnSet(f, S)
<1>. DEFINE Good == {s \in SUBSET S : SumFunctionOnSet(h, s) = k * SumFunctionOnSet(f, s)}
<1>1. Naturals1(h, S) /\ IsFiniteSet(S)
  <2>1. \A a \in Nat : k * a \in Nat
    OBVIOUS
  <2>. QED
    BY <2>1 DEF Naturals1
<1>2. {} \in Good
  BY SumEmpty
<1>3. ASSUME NEW s \in SUBSET S, NEW x \in S \ s, s \in Good PROVE s \cup {x} \in Good
  <2>. HIDE DEF Good
  <2>1. AddsUp(f, s, x)
    BY SumStep
  <2>2. AddsUp(h, s, x)
    BY <1>1, SumStep
  <2>3. \A a, b \in Nat : k * (a + b) = k * a + k * b
    OBVIOUS
  <2>4. SumFunctionOnSet(h, s) = k * SumFunctionOnSet(f, s) /\ h[x] = k * f[x]
    BY <1>3 DEF Good
  <2>. QED
    BY <2>1, <2>2, <2>3, <2>4 DEF Good, AddsUp
<1>4. S \in Good
  <2>. HIDE DEF Good
  <2>. QED
    BY <1>1, <1>2, <1>3, SetInduction
<1>. QED
  BY <1>4

\* A sum of numbers below c > 0 is less than c times their number.
LEMMA SumBelow ==
    ASSUME NEW S, NEW f, NEW c \in Nat, Naturals1(f, S), S # {}, \A x \in S : f[x] < c
    PROVE  SumFunctionOnSet(f, S) < c * Cardinality(S)
<1>. DEFINE Good == {s \in SUBSET S :
               s # {} => SumFunctionOnSet(f, s) < c * Cardinality(s)}
<1>1. IsFiniteSet(S)
  BY DEF Naturals1
<1>2. {} \in Good
  OBVIOUS
<1>3. ASSUME NEW s \in SUBSET S, NEW x \in S \ s, s \in Good PROVE s \cup {x} \in Good
  <2>. HIDE DEF Good
  <2>1. AddsUp(f, s, x)
    BY SumStep
  <2>2. Cardinality(s \cup {x}) = Cardinality(s) + 1 /\ Cardinality(s) \in Nat
    BY <1>1, FS_Subset, FS_AddElement, FS_CardinalityType
  <2>3. \A n \in Nat : c * (n + 1) = c * n + c /\ c * n \in Nat
    OBVIOUS
  <2>4. SumFunctionOnSet(f, s) <= c * Cardinality(s)
    <3>1. CASE s = {}
      BY <2>2, <2>3, <3>1, SumEmpty
    <3>2. CASE s # {}
      BY <1>3, <2>1, <2>2, <2>3, <3>2 DEF Good, AddsUp
    <3>. QED
      BY <3>1, <3>2
  <2>5. SumFunctionOnSet(f, s \cup {x}) < c * (Cardinality(s) + 1)
    BY <2>1, <2>2, <2>3, <2>4 DEF AddsUp
  <2>. QED
    BY <2>2, <2>5 DEF Good
<1>4. S \in Good
  <2>. HIDE DEF Good
  <2>. QED
    BY <1>1, <1>2, <1>3, SetInduction
<1>. QED
  BY <1>4

\* A sum is at least each of its terms.
LEMMA SumAtLeast ==
    ASSUME NEW S, NEW f, NEW x \in S, Naturals1(f, S)
    PROVE  SumFunctionOnSet(f, S) >= f[x]
<1>1. SumFunctionOnSet(f, S) = f[x] + SumFunctionOnSet(f, S \ {x})
  BY SumRemove
<1>2. Naturals1(f, S \ {x}) /\ f[x] \in Nat
  BY FS_Subset DEF Naturals1
<1>3. SumFunctionOnSet(f, S \ {x}) \in Nat
  BY <1>2, SumType
<1>. QED
  BY <1>1, <1>2, <1>3

\* A sum of ones for some elements is their number.
LEMMA SumOfOnes ==
    ASSUME NEW S, IsFiniteSet(S), NEW T \in SUBSET S, NEW f,
           \A x \in S : f[x] = IF x \in T THEN 1 ELSE 0
    PROVE  SumFunctionOnSet(f, S) = Cardinality(T)
<1>. DEFINE Good == {s \in SUBSET S : SumFunctionOnSet(f, s) = Cardinality(s \cap T)}
<1>1. Naturals1(f, S)
  BY DEF Naturals1
<1>2. {} \in Good
  <2>1. {} \cap T = {}
    OBVIOUS
  <2>. QED
    BY <2>1, SumEmpty, FS_EmptySet
<1>3. ASSUME NEW s \in SUBSET S, NEW x \in S \ s, s \in Good PROVE s \cup {x} \in Good
  <2>1. AddsUp(f, s, x)
    BY <1>1, SumStep
  <2>2. IsFiniteSet(s \cap T) /\ SumFunctionOnSet(f, s) = Cardinality(s \cap T)
    BY <1>3, FS_Subset
  <2>3. CASE x \in T
    <3>1. (s \cup {x}) \cap T = (s \cap T) \cup {x} /\ x \notin s \cap T
      BY <2>3
    <3>2. Cardinality((s \cap T) \cup {x}) = Cardinality(s \cap T) + 1
      BY <2>2, <3>1, FS_AddElement
    <3>3. Cardinality(s \cap T) \in Nat
      BY <2>2, FS_CardinalityType
    <3>4. SumFunctionOnSet(f, s \cup {x}) = Cardinality((s \cup {x}) \cap T)
      <4>1. f[x] = 1
        BY <2>3
      <4>2. SumFunctionOnSet(f, s \cup {x}) = 1 + Cardinality(s \cap T)
        BY <2>1, <2>2, <4>1 DEF AddsUp
      <4>3. Cardinality((s \cup {x}) \cap T) = 1 + Cardinality(s \cap T)
        <5>1. Cardinality((s \cup {x}) \cap T) = Cardinality(s \cap T) + 1
          BY <3>1, <3>2
        <5>. QED
          BY <3>3, <5>1
      <4>. HIDE DEF Good
      <4>. QED
        BY <4>2, <4>3
    <3>. QED
      BY <3>4
  <2>4. CASE x \notin T
    <3>1. (s \cup {x}) \cap T = s \cap T
      BY <2>4
    <3>2. SumFunctionOnSet(f, s \cup {x}) = Cardinality((s \cup {x}) \cap T)
      <4>1. f[x] = 0
        BY <2>4
      <4>. HIDE DEF Good
      <4>. QED
        BY <2>1, <2>2, <3>1, <4>1 DEF AddsUp
    <3>. QED
      BY <3>2
  <2>. QED
    BY <2>3, <2>4
<1>4. S \in Good
  <2>. HIDE DEF Good
  <2>. QED
    BY <1>1, <1>2, <1>3, SetInduction
<1>5. S \cap T = T
  OBVIOUS
<1>. QED
  BY <1>4, <1>5

\* Classes of a function's values: their sizes sum to the number of arguments.
LEMMA SumOfClasses ==
    ASSUME NEW S, IsFiniteSet(S), NEW T, IsFiniteSet(T), NEW f \in [S -> T], NEW size,
           \A t \in T : size[t] = Cardinality({x \in S : f[x] = t})
    PROVE  SumFunctionOnSet(size, T) = Cardinality(S)
<1>. DEFINE class(t) == {x \in S : f[x] = t}
            upTo(u) == {x \in S : f[x] \in u}
            Good == {u \in SUBSET T : SumFunctionOnSet(size, u) = Cardinality(upTo(u))}
<1>1. \A t \in T : IsFiniteSet(class(t)) /\ Cardinality(class(t)) \in Nat
  BY FS_Subset, FS_CardinalityType
<1>2. Naturals1(size, T)
  BY <1>1 DEF Naturals1
<1>3. {} \in Good
  <2>1. upTo({}) = {}
    OBVIOUS
  <2>. QED
    BY <2>1, SumEmpty, FS_EmptySet
<1>4. ASSUME NEW u \in SUBSET T, NEW t \in T \ u, u \in Good PROVE u \cup {t} \in Good
  <2>1. AddsUp(size, u, t)
    BY <1>2, SumStep
  <2>2. upTo(u \cup {t}) = upTo(u) \cup class(t) /\ upTo(u) \cap class(t) = {}
    OBVIOUS
  <2>3. IsFiniteSet(upTo(u)) /\ Cardinality(upTo(u)) \in Nat
    BY FS_Subset, FS_CardinalityType
  <2>4. IsFiniteSet(class(t)) /\ Cardinality(class(t)) \in Nat
    BY <1>1
  <2>5. Cardinality(upTo(u) \cup class(t)) = Cardinality(upTo(u)) + Cardinality(class(t))
    <3>. HIDE DEF upTo, class
    <3>1. Cardinality(upTo(u) \cup class(t))
             = Cardinality(upTo(u)) + Cardinality(class(t)) - Cardinality(upTo(u) \cap class(t))
      BY <2>3, <2>4, FS_Union
    <3>2. Cardinality(upTo(u) \cap class(t)) = 0
      BY <2>2, FS_EmptySet
    <3>. QED
      BY <2>3, <2>4, <3>1, <3>2
  <2>6. size[t] = Cardinality(class(t)) /\ SumFunctionOnSet(size, u) = Cardinality(upTo(u))
    BY <1>4
  <2>7. SumFunctionOnSet(size, u \cup {t}) = Cardinality(upTo(u \cup {t}))
    <3>. HIDE DEF upTo, class
    <3>. QED
      BY <2>1, <2>2, <2>3, <2>4, <2>5, <2>6 DEF AddsUp
  <2>. QED
    BY <2>7
<1>5. T \in Good
  <2>. HIDE DEF Good
  <2>. QED
    BY <1>2, <1>3, <1>4, SetInduction
<1>6. upTo(T) = S
  OBVIOUS
<1>. QED
  BY <1>5, <1>6

\* total is, for every t, the sum over what f maps to t
SumsByClass(total, weight, f, S, T) ==
    \A t \in T : total[t] = SumFunctionOnSet(weight, {x \in S : f[x] = t})

\* Sums of sums can be taken at once.
LEMMA SumOfSums ==
    ASSUME NEW S, IsFiniteSet(S), NEW T, IsFiniteSet(T), NEW f \in [S -> T], NEW weight,
           Naturals1(weight, S), NEW total, SumsByClass(total, weight, f, S, T)
    PROVE  SumFunctionOnSet(total, T) = SumFunctionOnSet(weight, S)
<1>. DEFINE class(s, t) == {x \in s : f[x] = t}
            sums(s) == [t \in T |-> SumFunctionOnSet(weight, class(s, t))]
            Good == {s \in SUBSET S :
                        SumFunctionOnSet(sums(s), T) = SumFunctionOnSet(weight, s)}
<1>1. ASSUME NEW s \in SUBSET S, NEW t \in T
      PROVE  class(s, t) \in SUBSET S /\ SumFunctionOnSet(weight, class(s, t)) \in Nat
  <2>1. Naturals1(weight, class(s, t))
    BY FS_Subset DEF Naturals1
  <2>2. SumFunctionOnSet(weight, class(s, t)) \in Nat
    <3>. HIDE DEF class
    <3>. QED
      BY <2>1, SumType
  <2>. QED
    BY <2>2
<1>2. \A s \in SUBSET S : Naturals1(sums(s), T)
  BY <1>1 DEF Naturals1
<1>3. {} \in Good
  <2>1. \A t \in T : class({}, t) = {}
    OBVIOUS
  <2>2. \A t \in T : sums({})[t] = IF t \in {} THEN 1 ELSE 0
    BY <2>1, SumEmpty
  <2>3. SumFunctionOnSet(sums({}), T) = Cardinality({})
    <3>. HIDE DEF sums
    <3>1. {} \in SUBSET T
      OBVIOUS
    <3>. QED
      BY <2>2, <3>1, SumOfOnes
  <2>. QED
    BY <2>3, SumEmpty, FS_EmptySet
<1>4. ASSUME NEW s \in SUBSET S, NEW x \in S \ s, s \in Good PROVE s \cup {x} \in Good
  <2>. DEFINE others == T \ {f[x]}
  <2>1. f[x] \in T /\ weight[x] \in Nat
    BY DEF Naturals1
  <2>2. AddsUp(weight, s, x)
    BY SumStep
  <2>3. class(s \cup {x}, f[x]) = class(s, f[x]) \cup {x} /\ x \in S \ class(s, f[x])
    OBVIOUS
  <2>4. AddsUp(weight, class(s, f[x]), x)
    <3>. HIDE DEF class
    <3>. QED
      BY <1>1, <2>1, <2>3, SumStep
  <2>5. \A t \in others : class(s \cup {x}, t) = class(s, t)
    OBVIOUS
  <2>6. \A t \in others : sums(s)[t] = sums(s \cup {x})[t]
    BY <2>5
  <2>7. Naturals1(sums(s), others) /\ Naturals1(sums(s), T) /\ Naturals1(sums(s \cup {x}), T)
    <3>1. IsFiniteSet(others) /\ s \cup {x} \in SUBSET S
      BY FS_Subset
    <3>2. Naturals1(sums(s), T) /\ Naturals1(sums(s \cup {x}), T)
      BY <1>2, <3>1
    <3>. QED
      BY <3>1, <3>2 DEF Naturals1
  <2>8. SumFunctionOnSet(sums(s), others) = SumFunctionOnSet(sums(s \cup {x}), others)
    <3>. HIDE DEF sums, others
    <3>. QED
      BY <2>6, <2>7, SumSame
  <2>9. /\ SumFunctionOnSet(sums(s), T) = sums(s)[f[x]] + SumFunctionOnSet(sums(s), others)
        /\ SumFunctionOnSet(sums(s \cup {x}), T)
              = sums(s \cup {x})[f[x]] + SumFunctionOnSet(sums(s \cup {x}), others)
    <3>. HIDE DEF sums
    <3>. QED
      BY <2>1, <2>7, SumRemove
  <2>10. sums(s \cup {x})[f[x]] = weight[x] + sums(s)[f[x]]
    BY <2>1, <2>3, <2>4 DEF AddsUp
  <2>11. SumFunctionOnSet(sums(s), others) \in Nat /\ sums(s)[f[x]] \in Nat
    <3>1. sums(s)[f[x]] \in Nat
      BY <2>1, <2>7 DEF Naturals1
    <3>. HIDE DEF sums, others
    <3>. QED
      BY <2>7, <3>1, SumType
  <2>12. SumFunctionOnSet(sums(s), T) = SumFunctionOnSet(weight, s)
    BY <1>4
  <2>13. SumFunctionOnSet(sums(s \cup {x}), T) = SumFunctionOnSet(weight, s \cup {x})
    <3>. HIDE DEF sums, others
    <3>. QED
      BY <2>1, <2>2, <2>8, <2>9, <2>10, <2>11, <2>12 DEF AddsUp
  <2>. QED
    BY <2>13
<1>5. S \in Good
  <2>. HIDE DEF Good
  <2>. QED
    BY <1>3, <1>4, SetInduction
<1>6. \A t \in T : sums(S)[t] = total[t]
  BY DEF SumsByClass
<1>7. SumFunctionOnSet(sums(S), T) = SumFunctionOnSet(total, T)
  <2>1. Naturals1(sums(S), T)
    BY <1>2
  <2>. HIDE DEF sums
  <2>. QED
    BY <1>6, <2>1, SumSame
<1>. QED
  BY <1>5, <1>7

(***************************************************************************)
(* Apportioning a total.                                                   *)
(***************************************************************************)

\* top is n elements of S, none below an element left out
IsTop(top, n, f, S) ==
    /\ top \in SUBSET S /\ Cardinality(top) = n
    /\ \A a \in top, b \in S \ top : f[a] >= f[b]

LEMMA TopExists ==
    ASSUME NEW S, NEW f, Naturals1(f, S), NEW n \in 0 .. Cardinality(S)
    PROVE  \E top : IsTop(top, n, f, S)
<1>. DEFINE Good == {k \in 0 .. Cardinality(S) : \E top : IsTop(top, k, f, S)}
<1>1. IsFiniteSet(S) /\ Cardinality(S) \in Nat /\ \A x \in S : f[x] \in Nat
  BY FS_CardinalityType DEF Naturals1
<1>2. 0 \in Good
  <2>1. IsTop({}, 0, f, S)
    BY FS_EmptySet DEF IsTop
  <2>. QED
    BY <1>1, <2>1
<1>3. ASSUME NEW k \in 0 .. Cardinality(S) - 1, k \in Good PROVE k + 1 \in Good
  <2>1. PICK top : IsTop(top, k, f, S)
    BY <1>3
  <2>2. S \ top # {}
    <3>1. top # S
      BY <1>1, <2>1 DEF IsTop
    <3>. QED
      BY <2>1, <3>1 DEF IsTop
  <2>. DEFINE below(b) == SumFunctionOnSet(f, S) - f[b]
              gaps == {below(b) : b \in S \ top}
  <2>3. gaps \subseteq Nat
    <3>1. ASSUME NEW b \in S PROVE below(b) \in Nat
      <4>1. SumFunctionOnSet(f, S) \in Nat /\ SumFunctionOnSet(f, S) >= f[b]
        BY SumType, SumAtLeast
      <4>. QED
        BY <1>1, <4>1
    <3>. QED
      BY <3>1
  <2>4. PICK g \in gaps : \A h \in gaps : g <= h
    <3>1. gaps # {}
      BY <2>2
    <3>. HIDE DEF gaps
    <3>. QED
      BY <2>3, <3>1, LeastOfNaturals
  <2>5. PICK b \in S \ top : g = below(b)
    BY <2>4
  <2>6. \A c \in S \ top : f[b] >= f[c]
    <3>1. TAKE c \in S \ top
    <3>2. below(b) <= below(c)
      BY <2>4, <2>5
    <3>3. SumFunctionOnSet(f, S) \in Nat
      BY SumType
    <3>. QED
      BY <1>1, <3>2, <3>3
  <2>7. Cardinality(top \cup {b}) = k + 1
    <3>1. IsFiniteSet(top) /\ Cardinality(top) = k /\ b \notin top
      BY <1>1, <2>1, FS_Subset DEF IsTop
    <3>. QED
      BY <3>1, FS_AddElement
  <2>8. IsTop(top \cup {b}, k + 1, f, S)
    BY <1>1, <2>1, <2>6, <2>7 DEF IsTop
  <2>. QED
    BY <1>1, <2>8
<1>4. 0 .. Cardinality(S) \subseteq Good
  <2>. HIDE DEF Good
  <2>. QED
    BY <1>1, <1>2, <1>3, UpTo
<1>. QED
  BY <1>4

LEMMA DivMod ==
    ASSUME NEW a \in Nat, NEW c \in Nat, c > 0
    PROVE  /\ a \div c \in Nat /\ a % c \in Nat /\ a % c < c
           /\ a = c * (a \div c) + (a % c)
OBVIOUS

\* share splits total over the weighted members of mix, each within one of its proportion
IsSplit(share, total, mix) ==
    /\ share \in [Weighted(mix) -> Nat]
    /\ SumFunctionOnSet(share, Weighted(mix)) = total
    /\ \A k \in Weighted(mix) :
        Near(share[k] * SumFunctionOnSet(mix, Weighted(mix)), total * mix[k],
             SumFunctionOnSet(mix, Weighted(mix)))

\* The largest remainders make up exactly what rounding down leaves.
LEMMA ApportionSplits ==
    ASSUME NEW total \in Nat, NEW K, NEW mix, IsMix(mix, K), IsFiniteSet(DOMAIN mix),
           Weighted(mix) # {}
    PROVE  IsSplit(Apportion(total, mix), total, mix)
<1>. DEFINE keys == Weighted(mix)
            scale == SumFunctionOnSet(mix, keys)
            whole == [k \in keys |-> (total * mix[k]) \div scale]
            rest == [k \in keys |-> (total * mix[k]) % scale]
            leftover == total - SumFunction(whole)
            IsLucky(top) == /\ Cardinality(top) = leftover
                            /\ \A a \in top, b \in keys \ top : rest[a] >= rest[b]
            lucky == CHOOSE top \in SUBSET keys : IsLucky(top)
            share == [k \in keys |-> whole[k] + (IF k \in lucky THEN 1 ELSE 0)]
            weight == [k \in keys |-> total * mix[k]]
            floors == [k \in keys |-> scale * whole[k]]
<1>1. Apportion(total, mix) = share
  BY DEF Apportion
<1>2. IsFiniteSet(keys) /\ \A k \in keys : mix[k] \in Nat /\ mix[k] > 0
  BY FS_Subset DEF Weighted, IsMix
<1>. HIDE DEF keys
<1>3. Naturals1(mix, keys)
  BY <1>2 DEF Naturals1
<1>4. scale \in Nat /\ scale > 0
  <2>1. PICK k \in keys : TRUE
    BY DEF keys
  <2>2. scale \in Nat /\ scale >= mix[k]
    BY <1>3, SumType, SumAtLeast
  <2>. QED
    BY <1>2, <2>1, <2>2
<1>. HIDE DEF scale
<1>5. ASSUME NEW k \in keys
      PROVE  /\ whole[k] \in Nat /\ rest[k] \in Nat /\ rest[k] < scale /\ weight[k] \in Nat
             /\ weight[k] = floors[k] + rest[k] /\ floors[k] \in Nat
  <2>1. total * mix[k] \in Nat
    BY <1>2
  <2>2. /\ (total * mix[k]) \div scale \in Nat /\ (total * mix[k]) % scale \in Nat
        /\ (total * mix[k]) % scale < scale
        /\ total * mix[k] = scale * ((total * mix[k]) \div scale) + ((total * mix[k]) % scale)
    BY <1>4, <2>1, DivMod
  <2>3. scale * ((total * mix[k]) \div scale) \in Nat
    BY <1>4, <2>2
  <2>. QED
    BY <2>1, <2>2, <2>3
<1>6. /\ Naturals1(whole, keys) /\ Naturals1(rest, keys) /\ Naturals1(weight, keys)
      /\ Naturals1(floors, keys) /\ \A k \in keys : weight[k] = floors[k] + rest[k]
  <2>. HIDE DEF whole, rest, weight, floors
  <2>. QED
    BY <1>2, <1>5 DEF Naturals1
<1>7. SumFunctionOnSet(weight, keys) = total * scale
  <2>1. \A k \in keys : weight[k] = total * mix[k]
    OBVIOUS
  <2>. HIDE DEF weight
  <2>. QED
    BY <1>3, <2>1, SumTimes DEF scale
<1>8. SumFunctionOnSet(floors, keys) = scale * SumFunctionOnSet(whole, keys)
  <2>1. \A k \in keys : floors[k] = scale * whole[k]
    OBVIOUS
  <2>. HIDE DEF floors, whole
  <2>. QED
    BY <1>4, <1>6, <2>1, SumTimes
<1>9. SumFunctionOnSet(weight, keys) = SumFunctionOnSet(floors, keys) + SumFunctionOnSet(rest, keys)
  <2>. HIDE DEF floors, rest, weight
  <2>. QED
    BY <1>6, SumPlus
<1>10. SumFunctionOnSet(rest, keys) \in Nat /\ SumFunctionOnSet(rest, keys) < scale * Cardinality(keys)
  <2>1. \A k \in keys : rest[k] < scale
    BY <1>5
  <2>2. keys # {}
    BY DEF keys
  <2>. HIDE DEF rest
  <2>. QED
    BY <1>4, <1>6, <2>1, <2>2, SumType, SumBelow
<1>11. SumFunction(whole) = SumFunctionOnSet(whole, keys)
  <2>1. DOMAIN whole = keys
    OBVIOUS
  <2>. HIDE DEF whole
  <2>. QED
    BY <2>1 DEF SumFunction
<1>12. SumFunctionOnSet(whole, keys) \in Nat
  <2>. HIDE DEF whole
  <2>. QED
    BY <1>6, SumType
<1>13. leftover \in 0 .. Cardinality(keys)
  <2>. DEFINE W == SumFunctionOnSet(whole, keys)
              R == SumFunctionOnSet(rest, keys)
              C == Cardinality(keys)
  <2>1. total * scale = scale * W + R /\ leftover = total - W
    BY <1>7, <1>8, <1>9, <1>11
  <2>2. W \in Nat /\ R \in Nat /\ R < scale * C /\ C \in Nat
    BY <1>2, <1>10, <1>12, FS_CardinalityType
  <2>. HIDE DEF W, R, C, leftover
  <2>3. leftover \in Int /\ scale * leftover = R
    <3>1. scale * (total - W) = scale * total - scale * W
      BY <1>4, <2>2
    <3>2. scale * total = total * scale
      BY <1>4
    <3>. QED
      BY <1>4, <2>1, <2>2, <3>1, <3>2
  <2>4. leftover >= 0
    <3>1. SUFFICES ASSUME leftover <= -1 PROVE FALSE
      BY <2>3
    <3>2. scale * leftover < 0
      BY <1>4, <2>3, <3>1
    <3>. QED
      BY <2>2, <2>3, <3>2
  <2>5. leftover <= C
    <3>1. SUFFICES ASSUME leftover >= C PROVE leftover <= C
      BY <2>2, <2>3
    <3>2. scale * leftover >= scale * C
      BY <1>4, <2>2, <2>3, <3>1
    <3>3. scale * C \in Int
      BY <1>4, <2>2
    <3>. QED
      BY <2>2, <2>3, <3>2, <3>3
  <2>. QED
    BY <2>2, <2>3, <2>4, <2>5 DEF C
<1>14. \E top \in SUBSET keys : IsLucky(top)
  <2>. HIDE DEF leftover, rest
  <2>1. PICK top : IsTop(top, leftover, rest, keys)
    BY <1>6, <1>13, TopExists
  <2>. QED
    BY <2>1 DEF IsTop
<1>15. lucky \in SUBSET keys /\ Cardinality(lucky) = leftover
  <2>1. lucky \in SUBSET keys /\ IsLucky(lucky)
    <3>. HIDE DEF IsLucky
    <3>. QED
      BY <1>14
  <2>. QED
    BY <2>1
<1>. HIDE DEF lucky
<1>. DEFINE one == [k \in keys |-> IF k \in lucky THEN 1 ELSE 0]
<1>16. SumFunctionOnSet(one, keys) = leftover
  <2>1. \A k \in keys : one[k] = IF k \in lucky THEN 1 ELSE 0
    OBVIOUS
  <2>. HIDE DEF one, leftover
  <2>. QED
    BY <1>2, <1>15, <2>1, SumOfOnes
<1>17. SumFunctionOnSet(share, keys) = SumFunctionOnSet(whole, keys) + SumFunctionOnSet(one, keys)
  <2>1. \A k \in keys : share[k] = whole[k] + one[k]
    OBVIOUS
  <2>2. Naturals1(one, keys)
    BY <1>2 DEF Naturals1
  <2>. HIDE DEF share, whole, one
  <2>. QED
    BY <1>6, <2>1, <2>2, SumPlus
<1>18. share \in [keys -> Nat]
  <2>1. \A k \in keys : whole[k] + (IF k \in lucky THEN 1 ELSE 0) \in Nat
    BY <1>5
  <2>. QED
    BY <2>1
<1>19. SumFunctionOnSet(share, keys) = total
  <2>. HIDE DEF share, one, whole
  <2>. QED
    BY <1>11, <1>12, <1>16, <1>17
<1>20. ASSUME NEW k \in keys PROVE Near(share[k] * scale, total * mix[k], scale)
  <2>1. share[k] = whole[k] \/ share[k] = whole[k] + 1
    BY <1>5
  <2>2. total * mix[k] = scale * whole[k] + rest[k]
    BY <1>5
  <2>3. whole[k] \in Nat /\ rest[k] \in Nat /\ rest[k] < scale
    BY <1>5
  <2>4. \A w \in Nat : /\ w * scale = scale * w /\ (w + 1) * scale = scale * w + scale
                       /\ scale * w \in Nat
    BY <1>4
  <2>. HIDE DEF share, whole, rest
  <2>5. share[k] * scale = scale * whole[k] \/ share[k] * scale = scale * whole[k] + scale
    BY <2>1, <2>3, <2>4
  <2>6. scale * whole[k] \in Nat
    BY <2>3, <2>4
  <2>. QED
    BY <1>4, <2>2, <2>3, <2>5, <2>6 DEF Near
<1>. QED
  BY <1>1, <1>18, <1>19, <1>20 DEF IsSplit, keys, scale

(***************************************************************************)
(* Worlds: the invariant of the stages `generate` goes through.            *)
(***************************************************************************)
Made == {"world", "aiming", "arriving", "asking", "asked"}
Making == {"placing", "churn", "naming", "look-alikes"}
Churned == {"naming", "look-alikes"} \cup Made

SpecInv == spec \in Specs /\ IsValid(spec)

TypesInv ==
    /\ \A i \in Real : type[i] \in Types
    /\ \A t \in Types : Cardinality({i \in Real : type[i] = t})
                           = Share(Apportion(Cardinality(Real), spec.typeMix), t)

Related(x) ==
    /\ x.subject # x.object
    /\ x.predicate # Vague => <<type[x.subject], type[x.object]>> \in Signatures[x.predicate]

TypedEdge(t) ==
    /\ t \in [subject : Real, predicate : Predicates \cup {Vague}, object : Real]
    /\ Related(t)

VagueEdges == {t \in edges : t.predicate = Vague}

\* noise comes last
EdgesInv ==
    stage = "placing" =>
        /\ facts = {} /\ unvisited = {}
        /\ IsFiniteSet(edges)
        /\ \A t \in edges : TypedEdge(t)
        /\ Placed <= spec.edges
        /\ Cardinality(VagueEdges) = IF Placed <= Core THEN 0 ELSE Placed - Core

RealFact(f) ==
    /\ f \in [subject : Real, predicate : Predicates \cup {Vague}, object : Real,
              from : StartYear .. EndYear, to : (StartYear + 1 .. EndYear) \cup {Never}]
    /\ Related(f)
    /\ f.to # Never => f.from < f.to

GhostFact(f) ==
    /\ f \in [subject : LookAlikes, predicate : Predicates, object : LookAlikes,
              from : {StartYear}, to : {Never}]
    /\ f.subject \in DOMAIN name /\ f.object \in DOMAIN name
    /\ Related(f)

FactsInv ==
    /\ IsFiniteSet(facts)
    /\ \A f \in facts : RealFact(f) \/ GhostFact(f)
    /\ \A f, g \in facts : TripleOf(f) = TripleOf(g) => f = g
    /\ stage \in Making => \A f \in facts : RealFact(f)

FirstOf(F) == {f \in F : f.from = StartYear /\ f.subject \in Real}
FirstVagueOf(F) == {f \in F : f.from = StartYear /\ f.subject \in Real /\ f.predicate = Vague}
LaterOf(F) == {f \in F : f.from # StartYear}
OverOf(F) == {f \in F : f.to # Never}

\* how many of which facts there are, once edges are dated
CountsInv ==
    stage \in {"churn"} \cup Churned =>
        /\ Cardinality(FirstOf(facts)) = spec.edges
        /\ Cardinality(FirstVagueOf(facts)) = Noise
        /\ Replaced <= spec.replaced
        /\ Ended >= Replaced /\ Retracted <= spec.retracted

UnvisitedInv ==
    stage = "churn" => \A t \in unvisited : TypedEdge(t) /\ Fact(t, StartYear, Never) \in facts

ChurnedInv == stage \in Churned => ChurnDone

\* the names of the real entities and of the look-alikes
NamesInv ==
    /\ stage \in {"placing", "churn", "naming"} => name = [i \in Real |-> i]
    /\ stage \in {"look-alikes"} \cup Made =>
        /\ \A i \in Real : name[i] \in Real
        /\ \A i, j \in Real : name[j] \notin aliases[i]
        /\ Cardinality({name[i] : i \in Real}) = Cardinality(Real) - spec.homonyms
        /\ Cardinality({i \in Real : aliases[i] # {}}) = spec.aliased
    /\ stage = "look-alikes" => DOMAIN name = Real
    /\ stage \in Made =>
        /\ DOMAIN name \ Real \in kSubset(spec.distractors, LookAlikes)
        /\ Real \subseteq DOMAIN name
        /\ \A d \in DOMAIN name \ Real : name[d] = d /\ aliases[d] = {}

WorldInv ==
    /\ stage \in Making \cup Made \cup {"failed"}
    /\ SpecInv /\ TypesInv /\ EdgesInv /\ FactsInv /\ CountsInv /\ UnvisitedInv /\ ChurnedInv
    /\ NamesInv

(***************************************************************************)
(* What the invariant needs of the spec.                                   *)
(***************************************************************************)
LEMMA SpecNumbers ==
    ASSUME SpecInv
    PROVE  /\ spec.edges \in Nat \ {0} /\ spec.noise \in Nat /\ spec.noise <= spec.edges
           /\ spec.closing \in Nat /\ spec.replaced \in Nat /\ spec.retracted \in Nat
           /\ spec.homonyms \in Nat /\ spec.aliased \in Nat /\ spec.distractors \in Nat
           /\ spec.aliased <= Cardinality(Real)
           /\ Noise \in Nat /\ Noise < spec.edges /\ Noise <= spec.noise /\ spec.noise <= Noise + 1
           /\ Core \in Nat /\ Core + Noise = spec.edges
           /\ StartYear \in Nat /\ EndYear \in Nat /\ StartYear < EndYear /\ Never \notin Nat
<1>1. /\ spec.edges \in Nat \ {0} /\ spec.noise \in Nat /\ spec.noise <= spec.edges
      /\ spec.closing \in Nat /\ spec.replaced \in Nat /\ spec.retracted \in Nat
      /\ spec.homonyms \in Nat /\ spec.aliased \in Nat /\ spec.distractors \in Nat
      /\ spec.aliased <= Cardinality(Real)
  BY WorldAssumption DEF SpecInv
<1>2. StartYear \in Nat /\ EndYear \in Nat /\ StartYear < EndYear /\ Never \notin Nat
  BY WorldAssumption DEF SpecInv, IsValid
<1>3. /\ Noise \in Nat /\ Noise < spec.edges /\ Noise <= spec.noise /\ spec.noise <= Noise + 1
      /\ Core \in Nat /\ Core + Noise = spec.edges
  BY <1>1 DEF Noise, Core
<1>. QED
  BY <1>1, <1>2, <1>3

LEMMA FeasibleTyped ==
    ASSUME NEW p \in DOMAIN Feasible, NEW pair \in Feasible[p]
    PROVE  p \in Predicates /\ p # Vague /\ pair \in Signatures[p] /\ pair = <<pair[1], pair[2]>>
<1>1. p \in Predicates /\ pair \in Signatures[p]
  BY DEF Feasible, FeasiblePairs
<1>2. pair \in Types \X Types
  BY <1>1, WorldAssumption
<1>. QED
  BY <1>1, <1>2, WorldAssumption

(***************************************************************************)
(* Placing.                                                                *)
(***************************************************************************)
LEMMA InitWorldInv == Init => WorldInv
<1>. SUFFICES ASSUME Init PROVE WorldInv
  OBVIOUS
<1>1. SpecInv
  BY DEF Init, SpecInv
<1>2. stage = "placing" /\ edges = {} /\ facts = {} /\ unvisited = {} /\ name = [i \in Real |-> i]
  BY DEF Init
<1>3. TypesInv
  <2>. DEFINE shares == [t \in Types |-> Share(Apportion(Cardinality(Real), spec.typeMix), t)]
  <2>1. type \in [Real -> Types] /\ Shuffled(type, shares)
    BY DEF Init
  <2>2. \A t \in Types : Cardinality({i \in Real : type[i] = t}) = shares[t]
    BY <2>1 DEF Shuffled
  <2>. QED
    BY <2>1, <2>2 DEF TypesInv
<1>4. Placed = 0 /\ VagueEdges = {} /\ Cardinality(VagueEdges) = 0 /\ IsFiniteSet(edges)
  BY <1>2, FS_EmptySet DEF Placed, VagueEdges
<1>5. EdgesInv
  BY <1>1, <1>2, <1>4, SpecNumbers DEF EdgesInv
<1>6. FactsInv
  BY <1>2, FS_EmptySet DEF FactsInv
<1>. QED
  BY <1>1, <1>2, <1>3, <1>5, <1>6
     DEF WorldInv, Making, Made, Churned, CountsInv, UnvisitedInv, ChurnedInv, NamesInv

\* what a step of drawing may do
LEMMA AddKeepsWorldInv ==
    ASSUME WorldInv, stage = "placing", NEW s, NEW p, NEW o, Add(s, p, o),
           s # o => TypedEdge(Triple(s, p, o)),
           IF p = Vague THEN Placed >= Core /\ Placed < spec.edges ELSE Placed < Core
    PROVE  WorldInv'
<1>. DEFINE t == Triple(s, p, o)
<1>0. SpecInv
  BY DEF WorldInv
<1>1. /\ spec.edges \in Nat \ {0} /\ Core \in Nat /\ Noise \in Nat /\ Core + Noise = spec.edges
  BY <1>0, SpecNumbers
<1>2. /\ facts = {} /\ unvisited = {} /\ IsFiniteSet(edges) /\ \A e \in edges : TypedEdge(e)
      /\ Placed <= spec.edges /\ Placed \in Nat
      /\ Cardinality(VagueEdges) = IF Placed <= Core THEN 0 ELSE Placed - Core
  BY FS_CardinalityType DEF WorldInv, EdgesInv, Placed
<1>3. /\ UNCHANGED <<spec, stage, type, community, unvisited, facts, name, aliases>>
      /\ edges' = edges \/ (s # o /\ edges' = edges \cup {t})
  BY DEF Add
<1>4. Core' = Core /\ Noise' = Noise
  BY <1>3 DEF Core, Noise
<1>5. CASE edges' = edges
  BY <1>3, <1>4, <1>5
     DEF WorldInv, SpecInv, TypesInv, EdgesInv, FactsInv, CountsInv, UnvisitedInv, ChurnedInv,
         NamesInv, Placed, VagueEdges, TypedEdge, Related, RealFact, GhostFact, Churned, Made,
         Making
<1>6. CASE s # o /\ t \notin edges /\ edges' = edges \cup {t}
  <2>1. IsFiniteSet(edges') /\ Placed' = Placed + 1
    BY <1>2, <1>6, FS_AddElement DEF Placed
  <2>2. \A e \in edges' : TypedEdge(e)'
    BY <1>2, <1>3, <1>6 DEF TypedEdge, Related
  <2>3. t.predicate = p
    BY DEF Triple
  <2>4. Cardinality(VagueEdges') = IF Placed' <= Core THEN 0 ELSE Placed' - Core
    <3>1. CASE p = Vague
      <4>1. VagueEdges' = VagueEdges \cup {t} /\ t \notin VagueEdges
        BY <1>6, <2>3, <3>1 DEF VagueEdges
      <4>2. IsFiniteSet(VagueEdges)
        BY <1>2, FS_Subset DEF VagueEdges
      <4>3. Cardinality(VagueEdges') = Cardinality(VagueEdges) + 1
        BY <4>1, <4>2, FS_AddElement
      <4>. QED
        BY <1>1, <1>2, <2>1, <3>1, <4>3
    <3>2. CASE p # Vague
      <4>1. VagueEdges' = VagueEdges
        BY <1>6, <2>3, <3>2 DEF VagueEdges
      <4>. QED
        BY <1>1, <1>2, <2>1, <3>2, <4>1
    <3>. QED
      BY <3>1, <3>2
  <2>5. Placed' <= spec.edges
    BY <1>1, <1>2, <2>1
  <2>6. EdgesInv'
    BY <1>2, <1>3, <1>4, <2>1, <2>2, <2>4, <2>5 DEF EdgesInv
  <2>7. FactsInv'
    BY <1>2, <1>3, FS_EmptySet DEF FactsInv
  <2>. QED
    BY <1>3, <2>6, <2>7
       DEF WorldInv, SpecInv, TypesInv, CountsInv, UnvisitedInv, ChurnedInv, NamesInv, Churned,
           Made, Making
<1>. QED
  BY <1>3, <1>5, <1>6

\* where the loops of drawing are
LEMMA Loops ==
    ASSUME WorldInv, stage = "placing"
    PROVE  /\ Loop \in {"base", "fallback", "closing"} => Placed < Core
           /\ Loop = "noise" => Placed >= Core /\ Placed < spec.edges
<1>1. Placed \in Nat /\ Core \in Nat /\ Closing \in Nat
  <2>1. SpecInv /\ IsFiniteSet(edges)
    BY DEF WorldInv, EdgesInv
  <2>. QED
    BY <2>1, SpecNumbers, FS_CardinalityType DEF Closing, Placed
<1>2. Placed < Core - Closing => Placed < Core
  BY <1>1
<1>3. Loop \in {"base", "fallback", "closing"} =>
         Placed < Core - Closing \/ (Placed >= Core - Closing /\ Placed < Core)
  <2>1. Loop = "base" => Placed < Core - Closing
    BY DEF Loop
  <2>2. Loop = "closing" => Placed < Core
    BY <1>2 DEF Loop
  <2>3. Loop = "fallback" => Placed < Core
    BY <1>2 DEF Loop
  <2>. QED
    BY <1>1, <2>1, <2>2, <2>3
<1>4. Loop = "noise" => Placed >= Core /\ Placed < spec.edges
  BY DEF Loop
<1>. QED
  BY <1>2, <1>3, <1>4

FailKeeps == stage' = "failed" /\ UNCHANGED <<spec, type, facts, name, aliases>>

LEMMA FailKeepsWorldInv == ASSUME WorldInv, FailKeeps PROVE WorldInv'
BY DEF FailKeeps, WorldInv, SpecInv, TypesInv, EdgesInv, FactsInv, CountsInv, UnvisitedInv,
       ChurnedInv, NamesInv, Related, RealFact, GhostFact, Churned, Made, Making

DrawStep == DrawBase \/ DrawClosing \/ MissClosing \/ DrawNoise

LEMMA DrawKeepsWorldInv == ASSUME WorldInv, DrawStep PROVE WorldInv'
<1>1. CASE DrawBase
  <2>1. PICK p \in DOMAIN Feasible : \E pair \in Feasible[p] : \E s, o \in Real :
            type[s] = pair[1] /\ type[o] = pair[2] /\ Add(s, p, o)
    BY <1>1 DEF DrawBase
  <2>2. PICK pair \in Feasible[p] : \E s, o \in Real :
            type[s] = pair[1] /\ type[o] = pair[2] /\ Add(s, p, o)
    BY <2>1
  <2>3. PICK s \in Real, o \in Real : type[s] = pair[1] /\ type[o] = pair[2] /\ Add(s, p, o)
    BY <2>2
  <2>4. p \in Predicates /\ p # Vague /\ pair \in Signatures[p] /\ pair = <<pair[1], pair[2]>>
    BY FeasibleTyped
  <2>5. s # o => TypedEdge(Triple(s, p, o))
    BY <2>3, <2>4 DEF TypedEdge, Related, Triple
  <2>6. stage = "placing" /\ Loop \in {"base", "fallback", "closing"}
    BY <1>1 DEF DrawBase
  <2>7. Placed < Core
    BY <2>6, Loops
  <2>. QED
    BY <2>3, <2>4, <2>5, <2>6, <2>7, AddKeepsWorldInv
<1>2. CASE DrawClosing
  <2>1. stage = "placing" /\ Loop \in {"base", "fallback", "closing"}
    BY <1>2 DEF DrawClosing
  <2>2. PICK e \in edges, f \in edges :
            \E p \in DOMAIN Feasible :
                /\ <<type[f.object], type[e.subject]>> \in Feasible[p]
                /\ Add(f.object, p, e.subject)
    BY <1>2 DEF DrawClosing
  <2>3. PICK p \in DOMAIN Feasible :
            /\ <<type[f.object], type[e.subject]>> \in Feasible[p]
            /\ Add(f.object, p, e.subject)
    BY <2>2
  <2>4. p \in Predicates /\ p # Vague /\ <<type[f.object], type[e.subject]>> \in Signatures[p]
    BY <2>3, FeasibleTyped
  <2>5. f.object \in Real /\ e.subject \in Real
    BY <2>1 DEF WorldInv, EdgesInv, TypedEdge
  <2>6. f.object # e.subject => TypedEdge(Triple(f.object, p, e.subject))
    BY <2>4, <2>5 DEF TypedEdge, Related, Triple
  <2>7. Placed < Core
    BY <2>1, Loops
  <2>. QED
    BY <2>1, <2>3, <2>4, <2>6, <2>7, AddKeepsWorldInv
<1>3. CASE MissClosing
  BY <1>3
     DEF MissClosing, WorldInv, SpecInv, TypesInv, EdgesInv, FactsInv, CountsInv, UnvisitedInv,
         ChurnedInv, NamesInv, Placed, VagueEdges, Core, Noise, TypedEdge, Related, RealFact,
         GhostFact, Churned, Made, Making
<1>4. CASE DrawNoise
  <2>1. stage = "placing" /\ Loop = "noise"
    BY <1>4 DEF DrawNoise
  <2>2. PICK s \in Real, o \in Real : Add(s, Vague, o)
    BY <1>4 DEF DrawNoise
  <2>3. s # o => TypedEdge(Triple(s, Vague, o))
    BY DEF TypedEdge, Related, Triple
  <2>. QED
    BY <2>1, <2>2, <2>3, Loops, AddKeepsWorldInv
<1>. QED
  BY <1>1, <1>2, <1>3, <1>4 DEF DrawStep

(***************************************************************************)
(* Dating.                                                                 *)
(***************************************************************************)
LEMMA FactFields ==
    ASSUME NEW t, NEW from, NEW to
    PROVE  /\ Fact(t, from, to).subject = t.subject /\ Fact(t, from, to).predicate = t.predicate
           /\ Fact(t, from, to).object = t.object /\ Fact(t, from, to).from = from
           /\ Fact(t, from, to).to = to
           /\ TripleOf(Fact(t, from, to)) = Triple(t.subject, t.predicate, t.object)
BY DEF Fact, TripleOf, Triple

LEMMA FactIsReal ==
    ASSUME NEW t, TypedEdge(t), NEW from \in StartYear .. EndYear,
           NEW to \in (StartYear + 1 .. EndYear) \cup {Never}, to # Never => from < to
    PROVE  RealFact(Fact(t, from, to)) /\ t = Triple(t.subject, t.predicate, t.object)
BY DEF Fact, RealFact, TypedEdge, Related, Triple

LEMMA RealFactFields ==
    ASSUME NEW f, RealFact(f)
    PROVE  /\ f.subject \in Real /\ f.object \in Real /\ f.subject # f.object
           /\ f.predicate \in Predicates \cup {Vague}
           /\ f.from \in StartYear .. EndYear
           /\ f.to \in (StartYear + 1 .. EndYear) \cup {Never}
           /\ f = Fact(TripleOf(f), f.from, f.to)
           /\ TypedEdge(TripleOf(f))
BY DEF Fact, RealFact, TypedEdge, Related, Triple, TripleOf

\* All edges start in the first year.
LEMMA EndPlacingKeepsWorldInv == ASSUME WorldInv, EndPlacing PROVE WorldInv'
<1>0. SpecInv /\ stage = "placing"
  BY DEF WorldInv, EndPlacing
<1>1. CASE Placed < spec.edges
  BY <1>1, FailKeepsWorldInv DEF EndPlacing, Fail, FailKeeps
<1>2. CASE ~(Placed < spec.edges)
  <2>. DEFINE first(t) == Fact(t, StartYear, Never)
  <2>1. /\ stage' = "churn" /\ facts' = {first(t) : t \in edges} /\ unvisited' = edges
        /\ UNCHANGED <<spec, type, community, edges, budget, name, aliases>>
    BY <1>2 DEF EndPlacing
  <2>2. /\ spec.edges \in Nat /\ Core \in Nat /\ Noise \in Nat /\ Core + Noise = spec.edges
        /\ StartYear \in Nat /\ EndYear \in Nat /\ StartYear < EndYear /\ Never \notin Nat
        /\ spec.replaced \in Nat /\ spec.retracted \in Nat
    BY <1>0, SpecNumbers
  <2>3. /\ IsFiniteSet(edges) /\ \A t \in edges : TypedEdge(t)
        /\ Placed <= spec.edges /\ Placed \in Nat
        /\ Cardinality(VagueEdges) = IF Placed <= Core THEN 0 ELSE Placed - Core
    BY <1>0, FS_CardinalityType DEF WorldInv, EdgesInv, Placed
  <2>4. Placed = spec.edges /\ Cardinality(VagueEdges) = Noise
    BY <1>2, <2>2, <2>3
  <2>5. \A t \in edges : /\ RealFact(first(t)) /\ t = Triple(t.subject, t.predicate, t.object)
                         /\ TripleOf(first(t)) = t
    <3>1. StartYear \in StartYear .. EndYear
      BY <2>2
    <3>2. ASSUME NEW t \in edges
          PROVE  RealFact(first(t)) /\ t = Triple(t.subject, t.predicate, t.object)
      BY <2>3, <3>1, FactIsReal
    <3>. QED
      BY <3>2, FactFields
  <2>6. IsFiniteSet(facts')
    <3>. DEFINE h == [t \in edges |-> first(t)]
    <3>1. {h[t] : t \in edges} = {first(t) : t \in edges}
      OBVIOUS
    <3>2. IsFiniteSet({h[t] : t \in edges})
      <4>. HIDE DEF h
      <4>. QED
        BY <2>3, ImageSize
    <3>. QED
      BY <2>1, <3>1, <3>2
  <2>7. \A f \in facts' : RealFact(f)'
    BY <2>1, <2>5 DEF RealFact, Related
  <2>8. \A f, g \in facts' : TripleOf(f) = TripleOf(g) => f = g
    BY <2>1, <2>5
  <2>9. FactsInv'
    BY <2>6, <2>7, <2>8 DEF FactsInv
  <2>10. ASSUME NEW E \in SUBSET edges
         PROVE  Cardinality({first(t) : t \in E}) = Cardinality(E)
    <3>. DEFINE h == [t \in E |-> first(t)]
    <3>1. IsFiniteSet(E)
      BY <2>3, FS_Subset
    <3>2. \A t, u \in E : h[t] = h[u] => t = u
      BY <2>5
    <3>3. {h[t] : t \in E} = {first(t) : t \in E}
      OBVIOUS
    <3>4. Cardinality({h[t] : t \in E}) = Cardinality(E)
      <4>. HIDE DEF h
      <4>. QED
        BY <3>1, <3>2, ImageSize
    <3>. QED
      BY <3>3, <3>4
  <2>11. FirstOf(facts') = {first(t) : t \in edges} /\ FirstVagueOf(facts') = {first(t) : t \in VagueEdges}
    <3>1. \A t \in edges : first(t).from = StartYear /\ first(t).subject \in Real
                           /\ first(t).predicate = t.predicate
      BY <2>3, FactFields DEF TypedEdge
    <3>. HIDE DEF first
    <3>. QED
      BY <2>1, <3>1 DEF FirstOf, FirstVagueOf, VagueEdges
  <2>12. Cardinality(FirstOf(facts')) = spec.edges /\ Cardinality(FirstVagueOf(facts')) = Noise
    <3>1. edges \in SUBSET edges /\ VagueEdges \in SUBSET edges
      BY DEF VagueEdges
    <3>. QED
      BY <2>4, <2>10, <2>11, <3>1 DEF Placed
  <2>13. LaterOf(facts') = {} /\ OverOf(facts') = {}
    <3>1. \A t \in edges : first(t).from = StartYear /\ first(t).to = Never
      BY FactFields
    <3>. HIDE DEF first
    <3>. QED
      BY <2>1, <3>1 DEF LaterOf, OverOf
  <2>14. Replaced' = 0 /\ Ended' = 0
    BY <2>13, FS_EmptySet DEF LaterOf, OverOf, Replaced, Ended
  <2>15. CountsInv'
    <3>1. Noise' = Noise /\ Retracted' = 0
      BY <2>1, <2>14 DEF Noise, Retracted
    <3>. QED
      BY <2>1, <2>2, <2>12, <2>14, <3>1 DEF CountsInv
  <2>16. UnvisitedInv'
    BY <2>1, <2>3 DEF UnvisitedInv, TypedEdge, Related
  <2>. QED
    BY <1>0, <2>1, <2>9, <2>15, <2>16
       DEF WorldInv, SpecInv, TypesInv, EdgesInv, ChurnedInv, NamesInv, Churned, Made, Making
<1>. QED
  BY <1>1, <1>2

LEMMA SwapSize ==
    ASSUME NEW S, IsFiniteSet(S), NEW a \in S, NEW b, b \notin S
    PROVE  IsFiniteSet((S \ {a}) \cup {b}) /\ Cardinality((S \ {a}) \cup {b}) = Cardinality(S)
<1>1. IsFiniteSet(S \ {a}) /\ Cardinality(S \ {a}) = Cardinality(S) - 1
  BY FS_RemoveElement
<1>2. b \notin S \ {a} /\ Cardinality(S) \in Nat /\ Cardinality(S \ {a}) \in Nat
  BY <1>1, FS_CardinalityType
<1>3. /\ IsFiniteSet((S \ {a}) \cup {b})
      /\ Cardinality((S \ {a}) \cup {b}) = Cardinality(S \ {a}) + 1
  BY <1>1, <1>2, FS_AddElement
<1>. QED
  BY <1>1, <1>2, <1>3

\* what ending a fact leaves
After(F, t, year, successors) ==
    (F \ {Fact(t, StartYear, Never)}) \cup {Fact(t, StartYear, year)} \cup successors

\* nothing, or one new fact from that year on
TakesOver(F, c, year, successors) ==
    \/ successors = {}
    \/ /\ successors = {c} /\ c.from = year /\ c.to = Never
       /\ RealFact(c) /\ TripleOf(c) \notin {TripleOf(f) : f \in F}

\* Ending a fact keeps the number of first facts, adds one to those over and one to the later
\* ones when another takes its place.
LEMMA EndFactCounts ==
    ASSUME NEW F, NEW t, NEW year \in Nat, NEW c, NEW successors, NEW G,
           IsFiniteSet(F), t.subject \in Real, StartYear \in Nat, StartYear < year,
           Never \notin Nat,
           Fact(t, StartYear, Never) \in F, Fact(t, StartYear, year) \notin F,
           TakesOver(F, c, year, successors), G = After(F, t, year, successors)
    PROVE  /\ IsFiniteSet(G)
           /\ Cardinality(FirstOf(G)) = Cardinality(FirstOf(F))
           /\ Cardinality(FirstVagueOf(G)) = Cardinality(FirstVagueOf(F))
           /\ Cardinality(OverOf(G)) = Cardinality(OverOf(F)) + 1
           /\ Cardinality(LaterOf(G))
                 = Cardinality(LaterOf(F)) + (IF successors = {} THEN 0 ELSE 1)
<1>. DEFINE a == Fact(t, StartYear, Never)
            b == Fact(t, StartYear, year)
<1>1. /\ a.from = StartYear /\ a.subject = t.subject /\ a.to = Never
      /\ b.from = StartYear /\ b.subject = t.subject /\ b.to = year
      /\ a.predicate = t.predicate /\ b.predicate = t.predicate
  BY FactFields
<1>2. year # Never /\ year # StartYear /\ a # b
  BY <1>1
<1>3. a \in F /\ b \notin F /\ G = (F \ {a}) \cup {b} \cup successors
  BY DEF After
<1>10. \/ successors = {}
       \/ successors = {c} /\ c \notin F /\ c.from = year /\ c.to = Never
  BY DEF TakesOver
<1>. HIDE DEF a, b
<1>4. /\ IsFiniteSet(FirstOf(F)) /\ IsFiniteSet(FirstVagueOf(F)) /\ IsFiniteSet(OverOf(F))
      /\ IsFiniteSet(LaterOf(F))
  BY FS_Subset DEF FirstOf, FirstVagueOf, OverOf, LaterOf
<1>5. IsFiniteSet(G)
  <2>1. IsFiniteSet(successors)
    <3>1. IsFiniteSet({}) /\ IsFiniteSet({c})
      BY FS_EmptySet, FS_Singleton
    <3>. QED
      BY <1>10, <3>1
  <2>2. IsFiniteSet((F \ {a}) \cup {b})
    BY <1>3, SwapSize
  <2>. DEFINE H == (F \ {a}) \cup {b}
  <2>3. IsFiniteSet(H) /\ G = H \cup successors
    BY <1>3, <2>2
  <2>. HIDE DEF H
  <2>4. IsFiniteSet(H \cup successors)
    BY <2>1, <2>3, FS_Union
  <2>. QED
    BY <2>3, <2>4
<1>6. FirstOf(G) = (FirstOf(F) \ {a}) \cup {b} /\ a \in FirstOf(F) /\ b \notin FirstOf(F)
  BY <1>1, <1>2, <1>3, <1>10 DEF FirstOf
<1>7. Cardinality(FirstOf(G)) = Cardinality(FirstOf(F))
  BY <1>4, <1>6, SwapSize
<1>8. Cardinality(FirstVagueOf(G)) = Cardinality(FirstVagueOf(F))
  <2>1. CASE t.predicate = Vague
    <3>1. /\ FirstVagueOf(G) = (FirstVagueOf(F) \ {a}) \cup {b}
          /\ a \in FirstVagueOf(F) /\ b \notin FirstVagueOf(F)
      BY <1>1, <1>2, <1>3, <1>10, <2>1 DEF FirstVagueOf
    <3>. QED
      BY <1>4, <3>1, SwapSize
  <2>2. CASE t.predicate # Vague
    <3>1. FirstVagueOf(G) = FirstVagueOf(F)
      BY <1>1, <1>2, <1>3, <1>10, <2>2 DEF FirstVagueOf
    <3>. QED
      BY <3>1
  <2>. QED
    BY <2>1, <2>2
<1>9. Cardinality(OverOf(G)) = Cardinality(OverOf(F)) + 1
  <2>1. OverOf(G) = OverOf(F) \cup {b} /\ b \notin OverOf(F)
    BY <1>1, <1>2, <1>3, <1>10 DEF OverOf
  <2>. QED
    BY <1>4, <2>1, FS_AddElement
<1>11. Cardinality(LaterOf(G)) = Cardinality(LaterOf(F)) + (IF successors = {} THEN 0 ELSE 1)
  <2>1. CASE successors = {}
    <3>1. LaterOf(G) = LaterOf(F)
      BY <1>1, <1>2, <1>3, <1>10, <2>1 DEF LaterOf
    <3>2. Cardinality(LaterOf(F)) \in Nat
      BY <1>4, FS_CardinalityType
    <3>. QED
      BY <2>1, <3>1, <3>2
  <2>2. CASE successors # {}
    <3>1. LaterOf(G) = LaterOf(F) \cup {c} /\ c \notin LaterOf(F)
      BY <1>1, <1>2, <1>3, <1>10, <2>2 DEF LaterOf
    <3>2. Cardinality(LaterOf(F) \cup {c}) = Cardinality(LaterOf(F)) + 1
      BY <1>4, <3>1, FS_AddElement
    <3>. QED
      BY <2>2, <3>1, <3>2
  <2>. QED
    BY <2>1, <2>2
<1>. QED
  BY <1>5, <1>7, <1>8, <1>9, <1>11

\* Ending a fact keeps facts typed and their triples different.
LEMMA EndFactKeeps ==
    ASSUME NEW F, NEW t, NEW year \in StartYear + 1 .. EndYear, NEW c, NEW successors, NEW G,
           TypedEdge(t), StartYear \in Nat, EndYear \in Nat, Never \notin Nat,
           Fact(t, StartYear, Never) \in F,
           \A f \in F : RealFact(f), \A f, g \in F : TripleOf(f) = TripleOf(g) => f = g,
           TakesOver(F, c, year, successors), G = After(F, t, year, successors)
    PROVE  /\ \A f \in G : RealFact(f)
           /\ \A f, g \in G : TripleOf(f) = TripleOf(g) => f = g
           /\ Fact(t, StartYear, year) \notin F
<1>. DEFINE a == Fact(t, StartYear, Never)
            b == Fact(t, StartYear, year)
<1>1. TripleOf(a) = TripleOf(b) /\ a.to = Never /\ b.to = year /\ year # Never
  BY FactFields
<1>2. RealFact(b)
  <2>1. StartYear \in StartYear .. EndYear /\ StartYear < year
    OBVIOUS
  <2>. QED
    BY <2>1, FactIsReal
<1>3. a \in F /\ G = (F \ {a}) \cup {b} \cup successors
  BY DEF After
<1>4. b \notin F
  BY <1>1, <1>3
<1>. HIDE DEF a, b
<1>5. \A f \in G : RealFact(f)
  BY <1>2, <1>3 DEF TakesOver
<1>6. successors # {} => successors = {c} /\ \A f \in F \cup {b} : TripleOf(c) # TripleOf(f)
  BY <1>1, <1>3 DEF TakesOver
<1>7. \A f, g \in (F \ {a}) \cup {b} : TripleOf(f) = TripleOf(g) => f = g
  BY <1>1, <1>3
<1>8. \A f, g \in G : TripleOf(f) = TripleOf(g) => f = g
  BY <1>3, <1>6, <1>7
<1>. QED
  BY <1>4, <1>5, <1>8 DEF a, b

\* a step of churn: a fact ends, and another may take its place
EndsOne(t, year, c, successors) ==
    /\ stage = "churn"
    /\ UNCHANGED <<spec, stage, type, community, edges, budget, name, aliases>>
    /\ t \in unvisited /\ unvisited' = unvisited \ {t}
    /\ year \in StartYear + 1 .. EndYear
    /\ TakesOver(facts, c, year, successors)
    /\ facts' = After(facts, t, year, successors)
    /\ IF successors = {} THEN Retracted < spec.retracted ELSE Replaced < spec.replaced

LEMMA EndsOneKeepsWorldInv ==
    ASSUME WorldInv, NEW t, NEW year, NEW c, NEW successors, EndsOne(t, year, c, successors)
    PROVE  WorldInv'
<1>0. SpecInv /\ stage = "churn" /\ stage' = "churn" /\ t \in unvisited
  BY DEF WorldInv, EndsOne
<1>1. /\ StartYear \in Nat /\ EndYear \in Nat /\ StartYear < EndYear /\ Never \notin Nat
      /\ spec.replaced \in Nat /\ spec.retracted \in Nat
  BY <1>0, SpecNumbers
<1>2. TypedEdge(t) /\ Fact(t, StartYear, Never) \in facts
  BY <1>0 DEF WorldInv, UnvisitedInv
<1>3. year \in StartYear + 1 .. EndYear /\ year \in Nat /\ StartYear < year
  BY <1>1 DEF EndsOne
<1>4. IsFiniteSet(facts) /\ \A f \in facts : RealFact(f)
  BY <1>0 DEF WorldInv, FactsInv, Making
<1>5. \A f, g \in facts : TripleOf(f) = TripleOf(g) => f = g
  BY DEF WorldInv, FactsInv
<1>6. /\ TakesOver(facts, c, year, successors)
      /\ facts' = After(facts, t, year, successors)
  BY DEF EndsOne
<1>7. /\ \A f \in facts' : RealFact(f)
      /\ \A f, g \in facts' : TripleOf(f) = TripleOf(g) => f = g
      /\ Fact(t, StartYear, year) \notin facts
  BY <1>1, <1>2, <1>3, <1>4, <1>5, <1>6, EndFactKeeps
<1>8. t.subject \in Real
  BY <1>2 DEF TypedEdge
<1>9. /\ IsFiniteSet(facts')
      /\ Cardinality(FirstOf(facts')) = Cardinality(FirstOf(facts))
      /\ Cardinality(FirstVagueOf(facts')) = Cardinality(FirstVagueOf(facts))
      /\ Cardinality(OverOf(facts')) = Cardinality(OverOf(facts)) + 1
      /\ Cardinality(LaterOf(facts'))
            = Cardinality(LaterOf(facts)) + (IF successors = {} THEN 0 ELSE 1)
  BY <1>1, <1>2, <1>3, <1>4, <1>6, <1>7, <1>8, EndFactCounts
<1>10. UNCHANGED <<spec, stage, type, community, edges, budget, name, aliases>>
  BY DEF EndsOne
<1>11. FactsInv'
  <2>1. \A f \in facts' : RealFact(f)'
    BY <1>7, <1>10 DEF RealFact, Related
  <2>. QED
    BY <1>7, <1>9, <2>1 DEF FactsInv
<1>12. CountsInv'
  <2>1. /\ Ended = Cardinality(OverOf(facts)) /\ Replaced = Cardinality(LaterOf(facts))
        /\ Ended' = Cardinality(OverOf(facts')) /\ Replaced' = Cardinality(LaterOf(facts'))
    BY DEF Ended, Replaced, OverOf, LaterOf
  <2>2. Ended \in Nat /\ Replaced \in Nat
    <3>1. IsFiniteSet(OverOf(facts)) /\ IsFiniteSet(LaterOf(facts))
      BY <1>4, FS_Subset DEF OverOf, LaterOf
    <3>. QED
      BY <2>1, <3>1, FS_CardinalityType
  <2>3. /\ Cardinality(FirstOf(facts)) = spec.edges
        /\ Cardinality(FirstVagueOf(facts)) = Noise
        /\ Replaced <= spec.replaced /\ Ended >= Replaced /\ Retracted <= spec.retracted
    BY <1>0 DEF WorldInv, CountsInv
  <2>4. Noise' = Noise
    BY <1>10 DEF Noise
  <2>5. Ended' = Ended + 1 /\ Replaced' = Replaced + (IF successors = {} THEN 0 ELSE 1)
    BY <1>9, <2>1
  <2>6. IF successors = {} THEN Retracted < spec.retracted ELSE Replaced < spec.replaced
    BY DEF EndsOne
  <2>7. Replaced' <= spec.replaced /\ Ended' >= Replaced' /\ Retracted' <= spec.retracted
    BY <1>1, <2>2, <2>3, <2>5, <2>6 DEF Retracted
  <2>. QED
    BY <1>9, <1>10, <2>3, <2>4, <2>7 DEF CountsInv
<1>13. UnvisitedInv'
  <2>1. ASSUME NEW u \in unvisited' PROVE TypedEdge(u)' /\ Fact(u, StartYear, Never) \in facts'
    <3>1. u \in unvisited /\ u # t
      BY DEF EndsOne
    <3>2. TypedEdge(u) /\ Fact(u, StartYear, Never) \in facts
      BY <1>0, <3>1 DEF WorldInv, UnvisitedInv
    <3>3. TripleOf(Fact(u, StartYear, Never)) = u /\ TripleOf(Fact(t, StartYear, Never)) = t
      BY <1>2, <3>2, FactFields DEF TypedEdge, Triple
    <3>4. Fact(u, StartYear, Never) # Fact(t, StartYear, Never)
      BY <3>1, <3>3
    <3>5. Fact(u, StartYear, Never) \in facts'
      BY <1>6, <3>2, <3>4 DEF After
    <3>. QED
      BY <1>10, <3>2, <3>5 DEF TypedEdge, Related
  <2>. QED
    BY <2>1 DEF UnvisitedInv
<1>. QED
  BY <1>0, <1>10, <1>11, <1>12, <1>13
     DEF WorldInv, SpecInv, TypesInv, EdgesInv, ChurnedInv, NamesInv, Churned, Made, Making

LEMMA ChurnKeepsWorldInv == ASSUME WorldInv, Churn PROVE WorldInv'
<1>0. stage = "churn" /\ SpecInv
  BY DEF Churn, WorldInv
<1>1. PICK t \in unvisited : \E year \in StartYear + 1 .. EndYear :
        /\ unvisited' = unvisited \ {t}
        /\ IF Replaced < spec.replaced /\ Replacements(t) # {} THEN Replace(t, year)
           ELSE IF Retracted < spec.retracted THEN EndFact(t, year, {})
           ELSE facts' = facts
  BY DEF Churn
<1>2. PICK year \in StartYear + 1 .. EndYear :
        /\ unvisited' = unvisited \ {t}
        /\ IF Replaced < spec.replaced /\ Replacements(t) # {} THEN Replace(t, year)
           ELSE IF Retracted < spec.retracted THEN EndFact(t, year, {})
           ELSE facts' = facts
  BY <1>1
<1>3. UNCHANGED <<spec, stage, type, community, edges, budget, name, aliases>>
  BY DEF Churn
<1>4. CASE Replaced < spec.replaced /\ Replace(t, year)
  <2>1. PICK c \in Replacements(t) :
            EndFact(t, year, {Fact(Triple(t.subject, t.predicate, c), year, Never)})
    BY <1>4 DEF Replace
  <2>. DEFINE new == Fact(Triple(t.subject, t.predicate, c), year, Never)
  <2>2. TypedEdge(t)
    BY <1>0 DEF WorldInv, UnvisitedInv
  <2>3. /\ c \in Real /\ type[c] = type[t.object] /\ c # t.subject
        /\ Triple(t.subject, t.predicate, c) \notin {TripleOf(f) : f \in facts}
    BY DEF Replacements
  <2>4. TypedEdge(Triple(t.subject, t.predicate, c))
    BY <2>2, <2>3 DEF TypedEdge, Related, Triple
  <2>5. year \in StartYear .. EndYear
    BY <1>0, SpecNumbers
  <2>6. RealFact(new)
    BY <2>4, <2>5, FactIsReal
  <2>7. new.from = year /\ new.to = Never /\ TripleOf(new) = Triple(t.subject, t.predicate, c)
    BY FactFields DEF Triple
  <2>8. facts' = After(facts, t, year, {new})
    BY <2>1 DEF EndFact, After
  <2>. HIDE DEF new
  <2>9. EndsOne(t, year, new, {new})
    BY <1>0, <1>2, <1>3, <1>4, <2>3, <2>6, <2>7, <2>8 DEF EndsOne, TakesOver
  <2>. QED
    BY <2>9, EndsOneKeepsWorldInv
<1>5. CASE Retracted < spec.retracted /\ EndFact(t, year, {})
  <2>1. EndsOne(t, year, t, {})
    BY <1>0, <1>2, <1>3, <1>5 DEF EndsOne, TakesOver, EndFact, After
  <2>. QED
    BY <2>1, EndsOneKeepsWorldInv
<1>6. CASE facts' = facts
  BY <1>0, <1>2, <1>3, <1>6
     DEF WorldInv, SpecInv, TypesInv, EdgesInv, FactsInv, CountsInv, UnvisitedInv, ChurnedInv,
         NamesInv, TypedEdge, Related, RealFact, GhostFact, Replaced, Ended, Retracted, Noise,
         Churned, Made, Making
<1>. QED
  BY <1>2, <1>4, <1>5, <1>6

LEMMA EndChurnKeepsWorldInv == ASSUME WorldInv, EndChurn PROVE WorldInv'
<1>1. CASE ~ChurnDone
  BY <1>1, FailKeepsWorldInv DEF EndChurn, Fail, FailKeeps
<1>2. CASE ChurnDone
  <2>1. /\ stage = "churn" /\ stage' = "naming"
        /\ UNCHANGED <<spec, type, community, edges, budget, facts, name, aliases>>
    BY <1>2 DEF EndChurn
  <2>2. /\ Replaced' = Replaced /\ Ended' = Ended /\ Retracted' = Retracted /\ Noise' = Noise
        /\ ChurnDone'
    BY <1>2, <2>1 DEF Replaced, Ended, Retracted, Noise, ChurnDone
  <2>3. SpecInv' /\ TypesInv' /\ EdgesInv' /\ UnvisitedInv' /\ ChurnedInv' /\ NamesInv'
    BY <2>1, <2>2
       DEF WorldInv, SpecInv, TypesInv, EdgesInv, UnvisitedInv, ChurnedInv, NamesInv, Churned, Made
  <2>4. FactsInv'
    BY <2>1 DEF WorldInv, FactsInv, RealFact, GhostFact, Related, Making
  <2>5. CountsInv'
    BY <2>1, <2>2 DEF WorldInv, CountsInv, Churned, FirstOf, FirstVagueOf
  <2>. QED
    BY <2>1, <2>3, <2>4, <2>5 DEF WorldInv, Making
<1>. QED
  BY <1>1, <1>2

(***************************************************************************)
(* Naming, and the steps after the world is finished.                      *)
(***************************************************************************)
LEMMA NameEntitiesKeepsWorldInv == ASSUME WorldInv, NameEntities PROVE WorldInv'
<1>0. /\ SpecInv /\ stage = "naming" /\ stage' = "look-alikes"
      /\ UNCHANGED <<spec, type, community, edges, budget, unvisited, facts>>
  BY DEF NameEntities, WorldInv
<1>. DEFINE names(homonyms, twin) == [i \in Real |-> IF i \in homonyms THEN twin[i] ELSE i]
            nameable(n) == {i \in Real : FreeForms(i, n) # {}}
            wish(n) == IF spec.aliased < Cardinality(nameable(n)) THEN spec.aliased
                       ELSE Cardinality(nameable(n))
            Named1(n, chosen) ==
                /\ name' = n
                /\ aliases' \in
                     {f \in [Real -> SUBSET UNION {FreeForms(i, n) : i \in Real}] :
                        \A i \in Real :
                           IF i \in chosen THEN f[i] # {} /\ f[i] \subseteq FreeForms(i, n)
                           ELSE f[i] = {}}
<1>1. PICK homonyms \in kSubset(spec.homonyms, Real) :
        \E twin \in [homonyms -> Real \ homonyms] :
            \E chosen \in kSubset(wish(names(homonyms, twin)), nameable(names(homonyms, twin))) :
                Named1(names(homonyms, twin), chosen)
  BY DEF NameEntities
<1>2. PICK twin \in [homonyms -> Real \ homonyms] :
            \E chosen \in kSubset(wish(names(homonyms, twin)), nameable(names(homonyms, twin))) :
                Named1(names(homonyms, twin), chosen)
  BY <1>1
<1>. DEFINE n == names(homonyms, twin)
<1>3. PICK chosen \in kSubset(wish(n), nameable(n)) : Named1(n, chosen)
  BY <1>2
<1>4. IsFiniteSet(Real) /\ Cardinality(Real) \in Nat
  BY WorldAssumption, FS_CardinalityType
<1>5. homonyms \in SUBSET Real /\ Cardinality(homonyms) = spec.homonyms
  BY DEF kSubset
<1>6. \A i \in Real : n[i] \in Real
  BY <1>5
<1>7. {n[i] : i \in Real} = Real \ homonyms
  <2>1. \A i \in Real : n[i] \in Real \ homonyms
    BY <1>5
  <2>2. \A i \in Real \ homonyms : n[i] = i
    OBVIOUS
  <2>. HIDE DEF n
  <2>. QED
    BY <2>1, <2>2
<1>8. Cardinality({n[i] : i \in Real}) = Cardinality(Real) - spec.homonyms
  <2>1. Cardinality(Real \ homonyms) = Cardinality(Real) - Cardinality(homonyms)
    BY <1>4, <1>5, DifferenceSize
  <2>. QED
    BY <1>5, <1>7, <2>1
<1>9. nameable(n) = Real
  <2>1. ASSUME NEW i \in Real PROVE FreeForms(i, n) # {}
    <3>1. n[i] \in Real /\ {n[j] : j \in Real} \subseteq Real
      BY <1>6
    <3>2. Forms[n[i]] \ Real # {}
      BY <3>1, WorldAssumption
    <3>. HIDE DEF n
    <3>. QED
      BY <3>1, <3>2 DEF FreeForms
  <2>. HIDE DEF n
  <2>. QED
    BY <2>1
<1>10. wish(n) = spec.aliased
  <2>1. spec.aliased \in Nat /\ spec.aliased <= Cardinality(Real)
    BY <1>0, SpecNumbers
  <2>. HIDE DEF nameable, n
  <2>. QED
    BY <1>4, <1>9, <2>1
<1>11. chosen \in SUBSET Real /\ Cardinality(chosen) = spec.aliased
  <2>. HIDE DEF wish, nameable, n
  <2>. QED
    BY <1>9, <1>10 DEF kSubset
<1>12. /\ name' = n
       /\ \A i \in Real : IF i \in chosen THEN aliases'[i] # {} /\ aliases'[i] \subseteq FreeForms(i, n)
                          ELSE aliases'[i] = {}
  <2>. HIDE DEF n
  <2>. QED
    BY <1>3
<1>13. DOMAIN n = Real
  OBVIOUS
<1>. HIDE DEF n
<1>14. {i \in Real : aliases'[i] # {}} = chosen
  BY <1>11, <1>12
<1>15. \A i, j \in Real : n[j] \notin aliases'[i]
  BY <1>12 DEF FreeForms
<1>16. NamesInv'
  <2>1. stage' = "look-alikes" /\ spec' = spec /\ name' = n /\ DOMAIN name' = Real
    BY <1>0, <1>12, <1>13
  <2>2. Cardinality({name'[i] : i \in Real}) = Cardinality(Real) - spec.homonyms
    BY <1>8, <2>1
  <2>3. Cardinality({i \in Real : aliases'[i] # {}}) = spec.aliased
    BY <1>11, <1>14
  <2>. QED
    BY <1>6, <1>15, <2>1, <2>2, <2>3 DEF NamesInv, Made
<1>17. FactsInv'
  <2>1. \A f \in facts : RealFact(f)
    BY <1>0 DEF WorldInv, FactsInv, Making
  <2>2. \A f \in facts' : RealFact(f)'
    BY <1>0, <2>1 DEF RealFact, Related
  <2>. QED
    BY <1>0, <2>2 DEF WorldInv, FactsInv
<1>18. SpecInv' /\ TypesInv' /\ EdgesInv' /\ UnvisitedInv' /\ ChurnedInv'
  <2>1. ChurnDone
    BY <1>0 DEF WorldInv, ChurnedInv, Churned
  <2>2. ChurnDone'
    BY <1>0, <2>1 DEF ChurnDone, Replaced, Ended, Retracted
  <2>. QED
    BY <1>0, <2>2 DEF WorldInv, SpecInv, TypesInv, EdgesInv, UnvisitedInv, ChurnedInv
<1>19. CountsInv'
  <2>1. Replaced' = Replaced /\ Ended' = Ended /\ Retracted' = Retracted /\ Noise' = Noise
    BY <1>0 DEF Replaced, Ended, Retracted, Noise
  <2>. QED
    BY <1>0, <2>1 DEF WorldInv, CountsInv, Churned, FirstOf, FirstVagueOf
<1>. QED
  BY <1>0, <1>16, <1>17, <1>18, <1>19 DEF WorldInv, Making

LEMMA AddLookAlikesKeepsWorldInv == ASSUME WorldInv, AddLookAlikes PROVE WorldInv'
<1>0. /\ SpecInv /\ stage = "look-alikes" /\ stage' = "world"
      /\ UNCHANGED <<spec, community, edges, budget, unvisited>>
  BY DEF AddLookAlikes, WorldInv
<1>. DEFINE kind(added, model) == [d \in added |-> type[model[d]]]
            social(added, model) == {d \in added : Partnerships(d, kind(added, model)) # {}}
            Added(added, model) ==
              /\ \E link \in [social(added, model) ->
                                UNION {Partnerships(d, kind(added, model)) : d \in social(added, model)}] :
                /\ \A d \in social(added, model) : link[d] \in Partnerships(d, kind(added, model))
                /\ facts' = facts \cup {link[d] : d \in social(added, model)}
              /\ type' = [i \in Real \cup added |-> IF i \in Real THEN type[i] ELSE kind(added, model)[i]]
              /\ name' = [i \in Real \cup added |-> IF i \in Real THEN name[i] ELSE i]
              /\ aliases' = [i \in Real \cup added |-> IF i \in Real THEN aliases[i] ELSE {}]
<1>1. PICK added \in kSubset(spec.distractors, LookAlikes) :
        \E model \in [added -> Real] : Added(added, model)
  BY DEF AddLookAlikes
<1>2. PICK model \in [added -> Real] : Added(added, model)
  BY <1>1
<1>. DEFINE K == kind(added, model)
            S == social(added, model)
<1>3. PICK link : /\ \A d \in S : link[d] \in Partnerships(d, K)
                  /\ facts' = facts \cup {link[d] : d \in S}
  BY <1>2
<1>4. /\ type' = [i \in Real \cup added |-> IF i \in Real THEN type[i] ELSE K[i]]
      /\ name' = [i \in Real \cup added |-> IF i \in Real THEN name[i] ELSE i]
      /\ aliases' = [i \in Real \cup added |-> IF i \in Real THEN aliases[i] ELSE {}]
  BY <1>2
<1>5. S \subseteq added /\ DOMAIN K = added
  OBVIOUS
<1>. HIDE DEF S, K
<1>6. /\ added \in SUBSET LookAlikes /\ Cardinality(added) = spec.distractors
      /\ Real \cap LookAlikes = {} /\ IsFiniteSet(LookAlikes) /\ IsFiniteSet(added)
  BY WorldAssumption, FS_Subset DEF kSubset
<1>7. \A i \in Real : type'[i] = type[i] /\ name'[i] = name[i] /\ aliases'[i] = aliases[i]
  BY <1>4
<1>8. \A d \in added : type'[d] = K[d] /\ name'[d] = d /\ aliases'[d] = {}
  BY <1>4, <1>6
<1>9. DOMAIN name' = Real \cup added
  BY <1>4
<1>10. StartYear \in Nat /\ EndYear \in Nat /\ StartYear < EndYear /\ Never \notin Nat
  BY <1>0, SpecNumbers
<1>11. ASSUME NEW d \in S PROVE GhostFact(link[d])' /\ link[d].subject = d
  <2>. DEFINE pairs == FeasiblePairs(spec, Weighted(spec.typeMix))
  <2>1. link[d] \in Partnerships(d, K)
    BY <1>3
  <2>2. PICK c \in (DOMAIN pairs) \X (DOMAIN K) :
            /\ c[2] # d /\ <<K[d], K[c[2]]>> \in pairs[c[1]]
            /\ link[d] = Fact(Triple(d, c[1], c[2]), StartYear, Never)
    BY <2>1 DEF Partnerships
  <2>3. c[1] \in Predicates /\ <<K[d], K[c[2]]>> \in Signatures[c[1]] /\ c[2] \in added /\ d \in added
    BY <1>5, <2>2 DEF FeasiblePairs
  <2>4. /\ link[d] = [subject |-> d, predicate |-> c[1], object |-> c[2],
                      from |-> StartYear, to |-> Never]
    BY <2>2 DEF Fact, Triple
  <2>. HIDE DEF pairs
  <2>5. type'[d] = K[d] /\ type'[c[2]] = K[c[2]] /\ d # c[2]
    BY <1>8, <2>2, <2>3
  <2>6. GhostFact(link[d])'
    BY <1>6, <1>9, <2>3, <2>4, <2>5 DEF GhostFact, Related
  <2>. QED
    BY <2>4, <2>6
<1>. DEFINE ghosts == {link[d] : d \in S}
<1>12. \A f \in ghosts : GhostFact(f)' /\ f.subject \notin Real /\ f.from = StartYear /\ f.to = Never
  BY <1>6, <1>11 DEF GhostFact
<1>13. \A f, g \in ghosts : f.subject = g.subject => f = g
  BY <1>11
<1>14. IsFiniteSet(ghosts)
  <2>1. IsFiniteSet(S)
    BY <1>5, <1>6, FS_Subset
  <2>. QED
    BY <2>1, ImageSize
<1>15. facts' = facts \cup ghosts
  BY <1>3
<1>. HIDE DEF ghosts
<1>16. /\ IsFiniteSet(facts) /\ \A f \in facts : RealFact(f)
       /\ \A f, g \in facts : TripleOf(f) = TripleOf(g) => f = g
  BY <1>0 DEF WorldInv, FactsInv, Making
<1>17. \A f \in facts : RealFact(f)' /\ f.subject \in Real
  <2>1. ASSUME NEW f \in facts PROVE RealFact(f)' /\ f.subject \in Real
    <3>1. RealFact(f)
      BY <1>16
    <3>2. f.subject \in Real /\ f.object \in Real
      BY <3>1, RealFactFields
    <3>3. type'[f.subject] = type[f.subject] /\ type'[f.object] = type[f.object]
      BY <1>7, <3>2
    <3>. QED
      BY <3>1, <3>2, <3>3 DEF RealFact, Related
  <2>. QED
    BY <2>1
<1>18. \A f, g \in facts' : TripleOf(f) = TripleOf(g) => f = g
  <2>1. \A f, g : TripleOf(f) = TripleOf(g) => f.subject = g.subject
    BY DEF TripleOf, Triple
  <2>. QED
    BY <1>12, <1>13, <1>15, <1>16, <1>17, <2>1
<1>19. FactsInv'
  <2>1. IsFiniteSet(facts')
    BY <1>14, <1>15, <1>16, FS_Union
  <2>. QED
    BY <1>0, <1>12, <1>15, <1>17, <1>18, <2>1 DEF FactsInv, Making
<1>20. /\ FirstOf(facts') = FirstOf(facts) /\ FirstVagueOf(facts') = FirstVagueOf(facts)
       /\ LaterOf(facts') = LaterOf(facts) /\ OverOf(facts') = OverOf(facts)
  BY <1>12, <1>15 DEF FirstOf, FirstVagueOf, LaterOf, OverOf
<1>21. Replaced' = Replaced /\ Ended' = Ended /\ Retracted' = Retracted /\ Noise' = Noise
  BY <1>0, <1>20 DEF Replaced, Ended, Retracted, Noise, LaterOf, OverOf
<1>22. CountsInv'
  BY <1>0, <1>20, <1>21 DEF WorldInv, CountsInv, Churned
<1>23. TypesInv'
  <2>1. \A t : {i \in Real : type'[i] = t} = {i \in Real : type[i] = t}
    BY <1>7
  <2>. QED
    BY <1>0, <1>7, <2>1 DEF WorldInv, TypesInv
<1>24. NamesInv'
  <2>1. /\ \A i \in Real : name[i] \in Real
        /\ \A i, j \in Real : name[j] \notin aliases[i]
        /\ Cardinality({name[i] : i \in Real}) = Cardinality(Real) - spec.homonyms
        /\ Cardinality({i \in Real : aliases[i] # {}}) = spec.aliased
    BY <1>0 DEF WorldInv, NamesInv
  <2>2. {name'[i] : i \in Real} = {name[i] : i \in Real}
    BY <1>7
  <2>3. {i \in Real : aliases'[i] # {}} = {i \in Real : aliases[i] # {}}
    BY <1>7
  <2>4. DOMAIN name' \ Real = added
    BY <1>6, <1>9
  <2>. QED
    BY <1>0, <1>6, <1>7, <1>8, <1>9, <2>1, <2>2, <2>3, <2>4 DEF NamesInv, Made, kSubset
<1>25. SpecInv' /\ EdgesInv' /\ UnvisitedInv' /\ ChurnedInv'
  BY <1>0, <1>21
     DEF WorldInv, SpecInv, EdgesInv, UnvisitedInv, ChurnedInv, ChurnDone, Churned, Made
<1>. QED
  BY <1>0, <1>19, <1>22, <1>23, <1>24, <1>25 DEF WorldInv, Made

\* what happens to a finished world: nothing, until it is given up
LaterStep ==
    /\ stage \in Made /\ stage' \in Made \cup {"failed"}
    /\ UNCHANGED <<spec, type, community, edges, budget, unvisited, facts, name, aliases>>

LEMMA LaterStepKeepsWorldInv == ASSUME WorldInv, LaterStep PROVE WorldInv'
<1>1. CASE stage' = "failed"
  BY <1>1, FailKeepsWorldInv DEF LaterStep, FailKeeps
<1>2. CASE stage' \in Made
  <2>1. /\ stage \in Made
        /\ UNCHANGED <<spec, type, community, edges, budget, unvisited, facts, name, aliases>>
    BY DEF LaterStep
  <2>2. Replaced' = Replaced /\ Ended' = Ended /\ Retracted' = Retracted /\ Noise' = Noise
    BY <2>1 DEF Replaced, Ended, Retracted, Noise
  <2>3. SpecInv' /\ TypesInv' /\ EdgesInv' /\ UnvisitedInv' /\ ChurnedInv'
    BY <1>2, <2>1, <2>2
       DEF WorldInv, SpecInv, TypesInv, EdgesInv, UnvisitedInv, ChurnedInv, ChurnDone, Churned, Made
  <2>4. FactsInv'
    BY <1>2, <2>1 DEF WorldInv, FactsInv, RealFact, GhostFact, Related, Making, Made
  <2>5. CountsInv'
    BY <1>2, <2>1, <2>2 DEF WorldInv, CountsInv, Churned, FirstOf, FirstVagueOf
  <2>6. NamesInv'
    BY <1>2, <2>1 DEF WorldInv, NamesInv, Made
  <2>. QED
    BY <1>2, <2>3, <2>4, <2>5, <2>6 DEF WorldInv
<1>. QED
  BY <1>1, <1>2 DEF LaterStep

LEMMA GenerateKeepsWorldInv == ASSUME WorldInv, Generate PROVE WorldInv'
<1>1. CASE NoRelation \/ CloseNothing
  BY <1>1, FailKeepsWorldInv DEF NoRelation, CloseNothing, Fail, FailKeeps
<1>2. CASE DrawStep
  BY <1>2, DrawKeepsWorldInv
<1>3. CASE EndPlacing
  BY <1>3, EndPlacingKeepsWorldInv
<1>4. CASE Churn
  BY <1>4, ChurnKeepsWorldInv
<1>5. CASE EndChurn
  BY <1>5, EndChurnKeepsWorldInv
<1>6. CASE NameEntities
  BY <1>6, NameEntitiesKeepsWorldInv
<1>7. CASE AddLookAlikes
  BY <1>7, AddLookAlikesKeepsWorldInv
<1>. QED
  BY <1>1, <1>2, <1>3, <1>4, <1>5, <1>6, <1>7 DEF Generate, DrawStep

(***************************************************************************)
(* The whole generator keeps the invariant.                                *)
(***************************************************************************)
WorldSame == UNCHANGED <<spec, stage, type, community, edges, budget, unvisited, facts, name, aliases>>

LEMMA SameKeepsWorldInv == ASSUME WorldInv, WorldSame PROVE WorldInv'
<1>1. SpecInv' /\ TypesInv' /\ UnvisitedInv' /\ NamesInv'
  BY DEF WorldInv, WorldSame, SpecInv, TypesInv, UnvisitedInv, NamesInv, TypedEdge, Related
<1>2. EdgesInv'
  BY DEF WorldInv, WorldSame, EdgesInv, TypedEdge, Related, Placed, VagueEdges, Core, Noise
<1>3. FactsInv'
  BY DEF WorldInv, WorldSame, FactsInv, RealFact, GhostFact, Related
<1>4. CountsInv' /\ ChurnedInv'
  <2>1. Replaced' = Replaced /\ Ended' = Ended /\ Retracted' = Retracted /\ Noise' = Noise
    BY DEF WorldSame, Replaced, Ended, Retracted, Noise
  <2>. QED
    BY <2>1 DEF WorldInv, WorldSame, CountsInv, ChurnedInv, ChurnDone, FirstOf, FirstVagueOf
<1>. QED
  BY <1>1, <1>2, <1>3, <1>4 DEF WorldInv, WorldSame

\* a question is kept
KeepsOne(job) == Current(job) /\ \E q : Keep(job, q)

LEMMA AskKeepsOne == ASSUME NEW job, Ask(job) PROVE KeepsOne(job)
<1>1. AskEntity(job) => KeepsOne(job)
  BY DEF AskEntity, KeepsOne
<1>2. AskSet(job) => KeepsOne(job)
  BY DEF AskSet, KeepsOne
<1>3. AskCompare(job) => KeepsOne(job)
  BY DEF AskCompare, KeepsOne
<1>4. AskSuperlative(job) => KeepsOne(job)
  BY DEF AskSuperlative, KeepsOne
<1>5. AskUnanswerable(job) => KeepsOne(job)
  BY DEF AskUnanswerable, KeepsOne
<1>6. AskFalsePremise(job) => KeepsOne(job)
  BY DEF AskFalsePremise, KeepsOne
<1>7. AskAsOf(job) => KeepsOne(job)
  BY DEF AskAsOf, KeepsOne
<1>8. AskLatest(job) => KeepsOne(job)
  BY DEF AskLatest, KeepsOne
<1>9. AskRetracted(job) => KeepsOne(job)
  BY DEF AskRetracted, KeepsOne
<1>10. AskPath(job) => KeepsOne(job)
  BY DEF AskPath, KeepsOne
<1>11. AskOpenEnded(job) => KeepsOne(job)
  BY DEF AskOpenEnded, KeepsOne
<1>. QED
  BY <1>1, <1>2, <1>3, <1>4, <1>5, <1>6, <1>7, <1>8, <1>9, <1>10, <1>11 DEF Ask

QuestionStep ==
    Plan \/ NothingToAsk \/ PlanEntities \/ \E job \in DOMAIN todo : Ask(job) \/ GiveUp(job)

LEMMA QuestionStepIsLater == ASSUME QuestionStep PROVE LaterStep
<1>1. Plan => LaterStep
  BY DEF Plan, LaterStep, Made
<1>2. NothingToAsk => LaterStep
  BY DEF NothingToAsk, Fail, LaterStep, Made
<1>3. PlanEntities => LaterStep
  BY DEF PlanEntities, LaterStep, Made
<1>4. ASSUME NEW job, Ask(job) PROVE LaterStep
  BY <1>4, AskKeepsOne DEF KeepsOne, Keep, Current, LaterStep, Made
<1>5. ASSUME NEW job, GiveUp(job) PROVE LaterStep
  BY <1>5 DEF GiveUp, Fail, Current, LaterStep, Made
<1>. QED
  BY <1>1, <1>2, <1>3, <1>4, <1>5 DEF QuestionStep

LEMMA ScenarioStepIsLater == ASSUME ScenarioNext PROVE LaterStep
<1>1. DrawTargets => LaterStep
  BY DEF DrawTargets, LaterStep, Made
<1>2. ASSUME NEW t, Aim(t) PROVE LaterStep
  BY <1>2 DEF Aim, LaterStep, Made
<1>3. Schedule => LaterStep
  BY DEF Schedule, LaterStep, Made
<1>4. ASSUME NEW e, Arrive(e) PROVE LaterStep
  BY <1>4 DEF Arrive, LaterStep, Made
<1>. QED
  BY <1>1, <1>2, <1>3, <1>4 DEF ScenarioNext

\* the kinds of steps
LEMMA StepKinds ==
    ASSUME [GeneratorNext]_<<vars, scenarioVars>>
    PROVE  \/ Generate /\ UNCHANGED questionVars /\ UNCHANGED scenarioVars
           \/ QuestionStep /\ UNCHANGED scenarioVars
           \/ ScenarioNext /\ UNCHANGED questionVars
           \/ WorldSame /\ UNCHANGED questionVars /\ UNCHANGED scenarioVars
BY DEF GeneratorNext, QuestionsNext, QuestionStep, vars, questionVars, WorldSame

LEMMA NextKeepsWorldInv ==
    ASSUME WorldInv, [GeneratorNext]_<<vars, scenarioVars>> PROVE WorldInv'
BY StepKinds, GenerateKeepsWorldInv, QuestionStepIsLater, ScenarioStepIsLater,
   LaterStepKeepsWorldInv, SameKeepsWorldInv

THEOREM WorldInvHolds == GeneratorSpec => []WorldInv
<1>1. GeneratorInit => WorldInv
  BY InitWorldInv DEF GeneratorInit, QuestionsInit
<1>2. WorldInv /\ [GeneratorNext]_<<vars, scenarioVars>> => WorldInv'
  BY NextKeepsWorldInv
<1>. QED
  BY <1>1, <1>2, PTL DEF GeneratorSpec

(***************************************************************************)
(* What the invariant says of a world.                                     *)
(***************************************************************************)
LEMMA FactKinds ==
    ASSUME WorldInv, NEW f \in facts
    PROVE  /\ f.subject # f.object /\ (f.subject \in Real <=> f.object \in Real)
           /\ f.predicate # Vague => <<type[f.subject], type[f.object]>> \in Signatures[f.predicate]
           /\ f.from \in StartYear .. EndYear
           /\ f.to # Never => f.to \in StartYear + 1 .. EndYear /\ f.from < f.to
           /\ f.subject \in Real => RealFact(f)
           /\ f.subject \notin Real => GhostFact(f)
<1>1. RealFact(f) \/ GhostFact(f)
  BY DEF WorldInv, FactsInv
<1>2. StartYear \in Nat /\ EndYear \in Nat /\ StartYear < EndYear /\ Never \notin Nat
  BY SpecNumbers DEF WorldInv
<1>3. CASE RealFact(f)
  BY <1>3 DEF RealFact, Related
<1>4. CASE GhostFact(f)
  <2>1. f.subject \notin Real /\ f.object \notin Real
    BY <1>4, WorldAssumption DEF GhostFact
  <2>. QED
    BY <1>2, <1>4, <2>1 DEF GhostFact, Related
<1>. QED
  BY <1>1, <1>3, <1>4

LEMMA FactsAreRelated == ASSUME WorldInv PROVE FactsFitTheirRelation
BY FactKinds DEF FactsFitTheirRelation

\* The facts that are over are never those of a look-alike.
LEMMA OverIsReal == ASSUME WorldInv PROVE \A f \in OverOf(facts) \cup LaterOf(facts) : f.subject \in Real
<1>1. \A f \in facts : f.subject \notin Real => f.from = StartYear /\ f.to = Never
  BY FactKinds DEF GhostFact
<1>. QED
  BY <1>1 DEF OverOf, LaterOf

LEMMA WorldCounts ==
    ASSUME WorldInv, stage \in Churned
    PROVE  /\ Replaced = spec.replaced /\ Retracted = spec.retracted
           /\ Ended = spec.replaced + spec.retracted
           /\ Cardinality(FirstOf(facts)) = spec.edges
           /\ Cardinality(FirstVagueOf(facts)) = Noise
           /\ Cardinality({f \in CurrentEdges : f.subject \in Real}) = spec.edges - spec.retracted
<1>0. SpecInv
  BY DEF WorldInv
<1>1. spec.replaced \in Nat /\ spec.retracted \in Nat /\ spec.edges \in Nat
  BY <1>0, SpecNumbers
<1>2. IsFiniteSet(facts)
  BY DEF WorldInv, FactsInv
<1>3. Replaced \in Nat /\ Ended \in Nat
  <2>1. IsFiniteSet(LaterOf(facts)) /\ IsFiniteSet(OverOf(facts))
    BY <1>2, FS_Subset DEF LaterOf, OverOf
  <2>. QED
    BY <2>1, FS_CardinalityType DEF Replaced, Ended, LaterOf, OverOf
<1>4. /\ Cardinality(FirstOf(facts)) = spec.edges /\ Cardinality(FirstVagueOf(facts)) = Noise
      /\ Replaced <= spec.replaced /\ Ended >= Replaced /\ Retracted <= spec.retracted
  BY DEF WorldInv, CountsInv
<1>5. Replaced >= spec.replaced /\ Retracted >= spec.retracted
  BY DEF WorldInv, ChurnedInv, ChurnDone
<1>6. Replaced = spec.replaced /\ Retracted = spec.retracted /\ Ended = spec.replaced + spec.retracted
  BY <1>1, <1>3, <1>4, <1>5 DEF Retracted
<1>. DEFINE own == {f \in facts : f.subject \in Real}
<1>7. IsFiniteSet(own)
  BY <1>2, FS_Subset
<1>8. Cardinality(own) = spec.edges + spec.replaced
  <2>1. LaterOf(facts) \in SUBSET own /\ own \ LaterOf(facts) = FirstOf(facts)
    BY OverIsReal DEF FirstOf, LaterOf
  <2>2. /\ Cardinality(own \ LaterOf(facts)) = Cardinality(own) - Cardinality(LaterOf(facts))
        /\ Cardinality(own) \in Nat /\ Cardinality(LaterOf(facts)) = Replaced
    BY <1>7, <2>1, DifferenceSize, FS_CardinalityType DEF LaterOf, Replaced
  <2>3. spec.edges = Cardinality(own) - spec.replaced
    BY <1>4, <1>6, <2>1, <2>2
  <2>. HIDE DEF own
  <2>. QED
    BY <1>1, <2>2, <2>3
<1>9. Cardinality({f \in CurrentEdges : f.subject \in Real}) = spec.edges - spec.retracted
  <2>1. OverOf(facts) \in SUBSET own /\ own \ OverOf(facts) = {f \in CurrentEdges : f.subject \in Real}
    BY OverIsReal DEF CurrentEdges, OverOf
  <2>2. /\ Cardinality(own \ OverOf(facts)) = Cardinality(own) - Cardinality(OverOf(facts))
        /\ Cardinality(OverOf(facts)) = Ended
    BY <1>7, <2>1, DifferenceSize DEF OverOf, Ended
  <2>3. Cardinality({f \in CurrentEdges : f.subject \in Real})
           = (spec.edges + spec.replaced) - (spec.replaced + spec.retracted)
    BY <1>6, <1>8, <2>1, <2>2
  <2>. QED
    BY <1>1, <2>3
<1>. QED
  BY <1>4, <1>6, <1>9

LEMMA ChurnIsAddedUp == ASSUME WorldInv PROVE ChurnAddsUp
<1>1. StartYear \in Nat /\ EndYear \in Nat /\ StartYear < EndYear /\ Never \notin Nat
  BY SpecNumbers DEF WorldInv
<1>2. ASSUME NEW f \in facts
      PROVE  (HoldsIn(f, EndYear) <=> f.to = Never) /\ (HoldsIn(f, StartYear) <=> f.from = StartYear)
  <2>1. /\ f.from \in StartYear .. EndYear
        /\ f.to # Never => f.to \in StartYear + 1 .. EndYear /\ f.from < f.to
    BY FactKinds
  <2>. QED
    BY <1>1, <2>1 DEF HoldsIn
<1>3. EdgesAsOf(EndYear) = CurrentEdges /\ EdgesAsOf(StartYear) = {f \in facts : f.from = StartYear}
  BY <1>2 DEF EdgesAsOf, CurrentEdges
<1>4. Dated => stage \in Churned
  BY DEF Dated, Named, Churned, Made
<1>. QED
  BY <1>3, <1>4, WorldCounts DEF ChurnAddsUp

LEMMA NamesAreApart == ASSUME WorldInv PROVE NamesAreKept
<1>1. SUFFICES ASSUME Named PROVE NamesAreKept
  BY DEF NamesAreKept
<1>2. stage \in {"look-alikes"} \cup Made
  BY <1>1 DEF Named, Made
<1>3. \A i, j \in Real : name[j] \notin aliases[i]
  BY <1>2 DEF WorldInv, NamesInv
<1>4. ASSUME NEW d \in DOMAIN name \ Real PROVE UniquelyNamed(d)
  <2>1. stage # "look-alikes" /\ stage \in Made
    BY <1>2 DEF WorldInv, NamesInv
  <2>2. /\ \A i \in Real : name[i] \in Real
        /\ \A e \in DOMAIN name \ Real : name[e] = e
    BY <1>2, <2>1 DEF WorldInv, NamesInv
  <2>. QED
    BY <2>2 DEF UniquelyNamed
<1>5. \A f \in facts : f.subject \in Real <=> f.object \in Real
  BY FactKinds
<1>. QED
  BY <1>3, <1>4, <1>5 DEF NamesAreKept

\* Every knob is realised exactly, but the shares of types, which rounding moves by less than
\* one entity, and the noise, which leaves room for one edge that is none.
LEMMA KnobsRealised == ASSUME WorldInv PROVE KnobsAreRealised
<1>. SUFFICES ASSUME Measured PROVE \A knob \in DOMAIN CheckAgainstSpec : CheckAgainstSpec[knob]
  BY DEF KnobsAreRealised
<1>0. stage = "world" /\ stage \in Churned /\ stage \in Made /\ SpecInv
  BY DEF Measured, Churned, Made, WorldInv
<1>. DEFINE total == SumFunctionOnSet(spec.typeMix, Weighted(spec.typeMix))
            n == Cardinality(Real)
            typed(t) == Cardinality({i \in Real : type[i] = t})
            knobs == CheckAgainstSpec
<1>1. /\ spec.edges \in Nat /\ spec.noise \in Nat /\ spec.replaced \in Nat /\ spec.retracted \in Nat
      /\ spec.homonyms \in Nat /\ spec.aliased \in Nat /\ spec.distractors \in Nat
      /\ Noise \in Nat /\ Noise <= spec.noise /\ spec.noise <= Noise + 1
  BY <1>0, SpecNumbers
<1>2. /\ Replaced = spec.replaced /\ Ended = spec.replaced + spec.retracted
      /\ Cardinality(FirstOf(facts)) = spec.edges
      /\ Cardinality(FirstVagueOf(facts)) = Noise
  BY <1>0, WorldCounts
<1>3. \A a \in Nat : Near(a, a, 1) /\ Near(20 * a, 20 * a, a + 20)
  BY DEF Near
<1>4. /\ BaseEdges = FirstOf(facts)
      /\ {f \in BaseEdges : f.predicate = Vague} = FirstVagueOf(facts)
  BY FactKinds DEF BaseEdges, FirstOf, FirstVagueOf
<1>5. knobs.avg_degree /\ knobs.noise_rate
  <2>1. Near(20 * Cardinality(BaseEdges), 20 * spec.edges, spec.edges + 20)
    BY <1>1, <1>2, <1>3, <1>4
  <2>2. Near(Cardinality({f \in BaseEdges : f.predicate = Vague}), spec.noise, 1)
    <3>1. Near(Noise, spec.noise, 1)
      BY <1>1 DEF Near
    <3>. QED
      BY <1>2, <1>4, <3>1
  <2>. QED
    BY <2>1, <2>2 DEF CheckAgainstSpec
<1>6. knobs.churn_rate /\ knobs.retraction_rate
  <2>1. StartYear \in Nat /\ EndYear \in Nat
    BY <1>0, SpecNumbers
  <2>2. \A f \in facts : f.from > StartYear <=> f.from # StartYear
    <3>1. \A f \in facts : f.from \in StartYear .. EndYear
      BY FactKinds
    <3>. QED
      BY <2>1, <3>1
  <2>3. Cardinality(Successors) = spec.replaced
    BY <1>2, <2>2 DEF Successors, Replaced
  <2>4. Cardinality(EndedFacts) = spec.replaced + spec.retracted
    BY <1>2 DEF EndedFacts, Ended
  <2>5. Near(Cardinality(Successors), spec.replaced, 1)
    BY <1>1, <1>3, <2>3
  <2>6. Near(Cardinality(EndedFacts) - Cardinality(Successors), spec.retracted, 1)
    <3>1. Cardinality(EndedFacts) - Cardinality(Successors) = spec.retracted
      BY <1>1, <2>3, <2>4
    <3>. QED
      BY <1>1, <1>3, <3>1
  <2>. QED
    BY <2>5, <2>6 DEF CheckAgainstSpec
<1>7. knobs.alias_rate /\ knobs.homonym_rate /\ knobs.distractor_rate
  <2>1. /\ Cardinality({name[i] : i \in Real}) = n - spec.homonyms
        /\ Cardinality(Aliased) = spec.aliased
        /\ Cardinality(Distractors) = spec.distractors
    BY <1>0 DEF WorldInv, NamesInv, Aliased, Distractors, kSubset
  <2>2. n \in Nat
    BY WorldAssumption, FS_CardinalityType
  <2>3. SharedNames = spec.homonyms
    BY <1>1, <2>1, <2>2 DEF SharedNames
  <2>4. /\ Near(Cardinality(Aliased), spec.aliased, 1) /\ Near(SharedNames, spec.homonyms, 1)
        /\ Near(Cardinality(Distractors), spec.distractors, 1)
    BY <1>1, <1>3, <2>1, <2>3
  <2>. QED
    BY <2>4 DEF CheckAgainstSpec
<1>8. knobs.type_mix
  <2>1. /\ IsMix(spec.typeMix, Types) /\ Weighted(spec.typeMix) # {} /\ IsFiniteSet(Types)
    BY <1>0, WorldAssumption DEF SpecInv, IsValid
  <2>2. /\ DOMAIN spec.typeMix \subseteq Types /\ IsFiniteSet(DOMAIN spec.typeMix)
        /\ \A t \in DOMAIN spec.typeMix : spec.typeMix[t] \in Nat
    BY <2>1, FS_Subset DEF IsMix
  <2>3. n \in Nat
    BY WorldAssumption, FS_CardinalityType
  <2>. DEFINE share == Apportion(n, spec.typeMix)
  <2>4. IsSplit(share, n, spec.typeMix)
    BY <2>1, <2>2, <2>3, ApportionSplits
  <2>. HIDE DEF share
  <2>5. total \in Nat
    <3>1. Naturals1(spec.typeMix, Weighted(spec.typeMix))
      BY <2>2, FS_Subset DEF Naturals1, Weighted
    <3>. QED
      BY <3>1, SumType
  <2>6. ASSUME NEW t \in DOMAIN spec.typeMix
        PROVE  Near(typed(t) * total, n * spec.typeMix[t], total)
    <3>1. typed(t) = Share(share, t)
      BY <2>2 DEF WorldInv, TypesInv, share
    <3>2. DOMAIN share = Weighted(spec.typeMix)
      BY <2>4 DEF IsSplit
    <3>3. CASE t \in Weighted(spec.typeMix)
      <4>1. typed(t) = share[t]
        BY <3>1, <3>2, <3>3 DEF Share
      <4>2. Near(share[t] * total, n * spec.typeMix[t], total)
        BY <2>4, <3>3 DEF IsSplit
      <4>. HIDE DEF total, typed
      <4>. QED
        BY <4>1, <4>2
    <3>4. CASE t \notin Weighted(spec.typeMix)
      <4>1. typed(t) = 0
        BY <3>1, <3>2, <3>4 DEF Share
      <4>2. spec.typeMix[t] = 0
        BY <2>2, <3>4 DEF Weighted
      <4>. HIDE DEF total, typed
      <4>3. typed(t) * total = 0 /\ n * spec.typeMix[t] = 0
        BY <2>3, <2>5, <4>1, <4>2
      <4>. QED
        BY <2>5, <4>3 DEF Near
    <3>. QED
      BY <3>3, <3>4
  <2>. QED
    BY <2>6 DEF CheckAgainstSpec
<1>9. DOMAIN knobs = {"avg_degree", "type_mix", "alias_rate", "homonym_rate", "distractor_rate",
                      "noise_rate", "churn_rate", "retraction_rate"}
  BY DEF CheckAgainstSpec
<1>. HIDE DEF knobs
<1>10. \A knob \in DOMAIN knobs : knobs[knob]
  BY <1>5, <1>6, <1>7, <1>8, <1>9
<1>. QED
  BY <1>10 DEF knobs

(***************************************************************************)
(* Distances and components.                                               *)
(***************************************************************************)
N == Cardinality(Real)

\* what a breadth-first search is
IsSearch(d, source) ==
    d = [n \in 0 .. N |->
            IF n = 0 THEN {source} ELSE Neighbours(d[n - 1]) \ FoundBy(d, n - 1)]

LEMMA AdjacentIsReal ==
    ASSUME WorldInv, NEW i
    PROVE  /\ Adjacent(i) \in SUBSET Real
           /\ \A j : j \in Adjacent(i) <=> \E f \in BaseEdges : Ends(f) = {i, j}
<1>1. \A f \in BaseEdges : f.subject \in Real /\ f.object \in Real
  BY DEF BaseEdges
<1>2. ASSUME NEW j
      PROVE  j \in Adjacent(i) <=> \E f \in BaseEdges : Ends(f) = {i, j}
  <2>1. \A f : Ends(f) = {i, j} <=> (f.subject = i /\ f.object = j) \/ (f.subject = j /\ f.object = i)
    BY DEF Ends
  <2>. QED
    BY <2>1 DEF Adjacent
<1>. QED
  BY <1>1, <1>2 DEF Adjacent

LEMMA RealSize == N \in Nat /\ IsFiniteSet(Real)
BY WorldAssumption, FS_CardinalityType DEF N

\* The definition of Search by rounds has a solution: layer and what is seen, round by round.
LEMMA SearchIsSearch == ASSUME WorldInv, NEW source \in Real PROVE IsSearch(Search(source), source)
<1>. DEFINE V == (SUBSET Real) \X (SUBSET Real)
            next(v) == Neighbours(v[1]) \ v[2]
            move == [v \in V |-> <<next(v), v[2] \cup next(v)>>]
            step == [n \in 1 .. N |-> move]
            a == <<{source}, {source}>>
<1>1. N \in Nat
  BY RealSize
<1>2. a \in V
  OBVIOUS
<1>3. \A v \in V : next(v) \in SUBSET Real
  <2>1. \A i : Adjacent(i) \in SUBSET Real
    BY AdjacentIsReal
  <2>2. \A S : Neighbours(S) \in SUBSET Real
    BY <2>1 DEF Neighbours
  <2>. QED
    BY <2>2
<1>4. step \in [1 .. N -> [V -> V]]
  <2>1. \A v \in V : <<next(v), v[2] \cup next(v)>> \in V
    <3>1. TAKE v \in V
    <3>2. next(v) \in SUBSET Real /\ v[2] \in SUBSET Real
      BY <1>3
    <3>. HIDE DEF next
    <3>. QED
      BY <3>2
  <2>2. move \in [V -> V]
    <3>. HIDE DEF V, next
    <3>. QED
      BY <2>1
  <2>. HIDE DEF V, move
  <2>. QED
    BY <2>2
<1>5. PICK g \in [0 .. N -> V] : Goes(g, N, a, step)
  <2>. HIDE DEF V, step, a
  <2>. QED
    BY <1>1, <1>2, <1>4, StepsLead
<1>6. g[0] = a /\ \A n \in 1 .. N : g[n] = <<next(g[n - 1]), g[n - 1][2] \cup next(g[n - 1])>>
  <2>1. ASSUME NEW n \in 1 .. N PROVE g[n] = <<next(g[n - 1]), g[n - 1][2] \cup next(g[n - 1])>>
    <3>1. g[n] = step[n][g[n - 1]]
      BY <1>5 DEF Goes
    <3>2. n - 1 \in 0 .. N
      BY <1>1
    <3>3. g[n - 1] \in V
      BY <3>2
    <3>. HIDE DEF V, next
    <3>. QED
      BY <3>1, <3>3
  <2>. QED
    BY <1>5, <2>1 DEF Goes
<1>. DEFINE d == [n \in 0 .. N |-> g[n][1]]
            Good == {n \in 0 .. N : g[n][2] = FoundBy(d, n)}
<1>7. 0 \in Good
  <2>1. {d[m] : m \in 0 .. 0} = {d[0]} /\ d[0] = {source}
    BY <1>1, <1>6
  <2>. HIDE DEF d
  <2>. QED
    BY <1>1, <1>6, <2>1 DEF FoundBy
<1>8. ASSUME NEW n \in 0 .. N - 1, n \in Good PROVE n + 1 \in Good
  <2>1. n + 1 \in 1 .. N /\ (n + 1) - 1 = n
    BY <1>1
  <2>2. g[n + 1] = <<next(g[n]), g[n][2] \cup next(g[n])>>
    BY <1>6, <2>1
  <2>3. d[n + 1] = next(g[n]) /\ g[n + 1][2] = g[n][2] \cup next(g[n])
    BY <2>1, <2>2
  <2>4. FoundBy(d, n + 1) = FoundBy(d, n) \cup d[n + 1]
    <3>1. 0 .. n + 1 = (0 .. n) \cup {n + 1}
      BY <1>1
    <3>. HIDE DEF d
    <3>2. \A y : (\E m \in 0 .. n + 1 : y \in d[m]) <=> (\E m \in 0 .. n : y \in d[m]) \/ y \in d[n + 1]
      BY <3>1
    <3>3. \A y : y \in FoundBy(d, n + 1) <=> y \in FoundBy(d, n) \cup d[n + 1]
      BY <3>2 DEF FoundBy
    <3>. QED
      BY <3>3
  <2>5. g[n][2] = FoundBy(d, n)
    BY <1>8
  <2>. HIDE DEF d, next
  <2>6. g[n + 1][2] = FoundBy(d, n + 1)
    BY <2>3, <2>4, <2>5
  <2>. QED
    BY <2>1, <2>6
<1>9. 0 .. N \subseteq Good
  <2>. HIDE DEF Good
  <2>. QED
    BY <1>1, <1>7, <1>8, UpTo
<1>10. IsSearch(d, source)
  <2>1. d[0] = {source}
    BY <1>1, <1>6
  <2>2. ASSUME NEW n \in 1 .. N
        PROVE  d[n] = Neighbours(d[n - 1]) \ FoundBy(d, n - 1)
    <3>0. n - 1 \in 0 .. N /\ n \in 0 .. N
      BY <1>1
    <3>1. d[n] = next(g[n - 1]) /\ d[n - 1] = g[n - 1][1]
      <4>1. d[n] = g[n][1] /\ d[n - 1] = g[n - 1][1]
        BY <3>0
      <4>2. g[n][1] = next(g[n - 1])
        <5>. HIDE DEF next
        <5>. QED
          BY <1>6
      <4>. HIDE DEF d, next
      <4>. QED
        BY <4>1, <4>2
    <3>2. g[n - 1][2] = FoundBy(d, n - 1)
      BY <1>9, <3>0
    <3>. HIDE DEF d
    <3>. QED
      BY <3>1, <3>2
  <2>3. d = [n \in 0 .. N |-> d[n]]
    OBVIOUS
  <2>4. \A n \in 0 .. N : n = 0 \/ n \in 1 .. N
    BY <1>1
  <2>. HIDE DEF d
  <2>. QED
    BY <2>1, <2>2, <2>3, <2>4 DEF IsSearch
<1>11. Search(source) = CHOOSE h : IsSearch(h, source)
  BY DEF Search, IsSearch, Neighbours, FoundBy, N
<1>. QED
  BY <1>10, <1>11

LEMMA SearchRounds ==
    ASSUME WorldInv, NEW source \in Real
    PROVE  /\ Search(source)[0] = {source}
           /\ \A n \in 0 .. N - 1 :
                Search(source)[n + 1] = Neighbours(Search(source)[n]) \ FoundBy(Search(source), n)
<1>. DEFINE d == Search(source)
<1>1. d = [n \in 0 .. N |->
            IF n = 0 THEN {source} ELSE Neighbours(d[n - 1]) \ FoundBy(d, n - 1)]
  BY SearchIsSearch DEF IsSearch
<1>2. N \in Nat
  BY RealSize
<1>. HIDE DEF d
<1>3. d[0] = {source}
  BY <1>1, <1>2
<1>4. ASSUME NEW n \in 0 .. N - 1
      PROVE  d[n + 1] = Neighbours(d[n]) \ FoundBy(d, n)
  <2>1. n + 1 \in 0 .. N /\ n + 1 # 0 /\ (n + 1) - 1 = n
    BY <1>2
  <2>2. d[n + 1] = IF n + 1 = 0 THEN {source}
                   ELSE Neighbours(d[(n + 1) - 1]) \ FoundBy(d, (n + 1) - 1)
    BY <1>1, <2>1
  <2>. QED
    BY <2>1, <2>2
<1>. QED
  BY <1>3, <1>4 DEF d

(***************************************************************************)
(* Chains of edges.                                                        *)
(***************************************************************************)
LEMMA ApartNone == ASSUME NEW i \in Real, NEW j PROVE Apart(i, j, 0) <=> i = j
<1>1. ASSUME i = j PROVE Apart(i, j, 0)
  <2>. DEFINE p == [k \in 0 .. 0 |-> i]
  <2>1. p \in [0 .. 0 -> Real] /\ p[0] = i /\ p[0] = j /\ 1 .. 0 = {}
    BY <1>1
  <2>. HIDE DEF p
  <2>. QED
    BY <2>1 DEF Apart
<1>. QED
  BY <1>1 DEF Apart

LEMMA ApartMore ==
    ASSUME WorldInv, NEW i \in Real, NEW j \in Real, NEW n \in Nat
    PROVE  Apart(i, j, n + 1) <=> \E k \in Real : Apart(i, k, n) /\ j \in Adjacent(k)
<1>1. ASSUME Apart(i, j, n + 1) PROVE \E k \in Real : Apart(i, k, n) /\ j \in Adjacent(k)
  <2>1. PICK p \in [0 .. n + 1 -> Real] :
            /\ p[0] = i /\ p[n + 1] = j
            /\ \A k \in 1 .. n + 1 : \E f \in BaseEdges : Ends(f) = {p[k - 1], p[k]}
    BY <1>1 DEF Apart
  <2>. DEFINE q == [k \in 0 .. n |-> p[k]]
  <2>2. q \in [0 .. n -> Real] /\ q[0] = i /\ q[n] = p[n] /\ p[n] \in Real
    BY <2>1
  <2>3. \A k \in 1 .. n : \E f \in BaseEdges : Ends(f) = {q[k - 1], q[k]}
    <3>1. TAKE k \in 1 .. n
    <3>2. k \in 1 .. n + 1 /\ q[k - 1] = p[k - 1] /\ q[k] = p[k]
      OBVIOUS
    <3>. HIDE DEF q
    <3>. QED
      BY <2>1, <3>2
  <2>4. Apart(i, p[n], n)
    <3>. HIDE DEF q
    <3>. QED
      BY <2>2, <2>3 DEF Apart
  <2>5. j \in Adjacent(p[n])
    <3>1. n + 1 \in 1 .. n + 1 /\ (n + 1) - 1 = n
      OBVIOUS
    <3>2. \E f \in BaseEdges : Ends(f) = {p[n], j}
      BY <2>1, <3>1
    <3>. QED
      BY <3>2, AdjacentIsReal
  <2>. QED
    BY <2>2, <2>4, <2>5
<1>2. ASSUME NEW x \in Real, Apart(i, x, n), j \in Adjacent(x) PROVE Apart(i, j, n + 1)
  <2>1. PICK p \in [0 .. n -> Real] :
            /\ p[0] = i /\ p[n] = x
            /\ \A k \in 1 .. n : \E f \in BaseEdges : Ends(f) = {p[k - 1], p[k]}
    BY <1>2 DEF Apart
  <2>. DEFINE q == [k \in 0 .. n + 1 |-> IF k = n + 1 THEN j ELSE p[k]]
  <2>2. q \in [0 .. n + 1 -> Real] /\ q[0] = i /\ q[n + 1] = j
    BY <2>1
  <2>3. \A k \in 1 .. n + 1 : \E f \in BaseEdges : Ends(f) = {q[k - 1], q[k]}
    <3>1. TAKE k \in 1 .. n + 1
    <3>2. CASE k = n + 1
      <4>1. q[k - 1] = x /\ q[k] = j
        BY <2>1, <3>2
      <4>2. \E f \in BaseEdges : Ends(f) = {x, j}
        BY <1>2, AdjacentIsReal
      <4>. HIDE DEF q
      <4>. QED
        BY <4>1, <4>2
    <3>3. CASE k # n + 1
      <4>1. k \in 1 .. n /\ q[k - 1] = p[k - 1] /\ q[k] = p[k]
        BY <3>3
      <4>. HIDE DEF q
      <4>. QED
        BY <2>1, <4>1
    <3>. QED
      BY <3>2, <3>3
  <2>. HIDE DEF q
  <2>. QED
    BY <2>2, <2>3 DEF Apart
<1>. QED
  BY <1>1, <1>2

\* an entity found first after n steps
FirstAt(i, n) == {j \in Real : Apart(i, j, n) /\ \A m \in 0 .. n - 1 : ~Apart(i, j, m)}

NextTo(i, n) == Neighbours(FirstAt(i, n))
Before(i, n) == UNION {FirstAt(i, m) : m \in 0 .. n}
Late(i, n, j) == \A m \in 0 .. n : ~Apart(i, j, m)

\* Who is found at all was found first at some number of steps.
LEMMA FoundFirst ==
    ASSUME NEW i \in Real, NEW j \in Real, NEW n \in Nat, Apart(i, j, n)
    PROVE  \E m \in 0 .. n : j \in FirstAt(i, m)
<1>. DEFINE T == {m \in 0 .. n : Apart(i, j, m)}
<1>1. PICK m \in T : \A k \in T : m <= k
  <2>1. T \subseteq Nat /\ n \in T
    OBVIOUS
  <2>. HIDE DEF T
  <2>. QED
    BY <2>1, LeastOfNaturals
<1>2. \A k \in 0 .. m - 1 : ~Apart(i, j, k)
  <2>1. \A k \in 0 .. m - 1 : k \in 0 .. n /\ ~(m <= k)
    OBVIOUS
  <2>. QED
    BY <1>1, <2>1
<1>. QED
  BY <1>1, <1>2 DEF FirstAt

\* Who is found first after n + 1 steps is next to one found first after n.
LEMMA FirstAtStep ==
    ASSUME WorldInv, NEW i \in Real, NEW n \in Nat
    PROVE  FirstAt(i, n + 1) = {j \in NextTo(i, n) : Late(i, n, j)}
<1>1. ASSUME NEW j \in FirstAt(i, n + 1) PROVE \E k \in FirstAt(i, n) : j \in Adjacent(k)
  <2>0. j \in Real /\ Apart(i, j, n + 1) /\ \A m \in 0 .. (n + 1) - 1 : ~Apart(i, j, m)
    BY DEF FirstAt
  <2>1. PICK k \in Real : Apart(i, k, n) /\ j \in Adjacent(k)
    BY <2>0, ApartMore
  <2>2. ASSUME NEW m \in 0 .. n - 1, Apart(i, k, m) PROVE FALSE
    <3>1. m \in Nat /\ m + 1 \in 0 .. (n + 1) - 1
      OBVIOUS
    <3>2. Apart(i, j, m + 1)
      BY <2>0, <2>1, <2>2, <3>1, ApartMore
    <3>. QED
      BY <2>0, <3>1, <3>2
  <2>. QED
    BY <2>1, <2>2 DEF FirstAt
<1>2. ASSUME NEW k \in FirstAt(i, n), NEW j \in Adjacent(k) PROVE j \in Real /\ Apart(i, j, n + 1)
  <2>1. k \in Real /\ Apart(i, k, n) /\ j \in Real
    BY AdjacentIsReal DEF FirstAt
  <2>. QED
    BY <2>1, ApartMore
<1>3. (n + 1) - 1 = n
  OBVIOUS
<1>4. \A j \in FirstAt(i, n + 1) : \A m \in 0 .. n : ~Apart(i, j, m)
  BY <1>3 DEF FirstAt
<1>5. \A j \in UNION {Adjacent(k) : k \in FirstAt(i, n)} :
         (\A m \in 0 .. n : ~Apart(i, j, m)) => j \in FirstAt(i, n + 1)
  BY <1>2, <1>3 DEF FirstAt
<1>. QED
  BY <1>1, <1>4, <1>5 DEF NextTo, Neighbours, Late

\* The search finds each entity at its distance.
LEMMA SearchFindsFirst ==
    ASSUME WorldInv, NEW i \in Real
    PROVE  \A n \in 0 .. N : Search(i)[n] = FirstAt(i, n)
<1>. DEFINE Good == {n \in 0 .. N : \A m \in 0 .. n : Search(i)[m] = FirstAt(i, m)}
<1>1. N \in Nat
  BY RealSize
<1>2. 0 \in Good
  <2>1. FirstAt(i, 0) = {i}
    BY ApartNone DEF FirstAt
  <2>2. Search(i)[0] = {i}
    BY SearchRounds
  <2>. QED
    BY <1>1, <2>1, <2>2
<1>3. ASSUME NEW n \in 0 .. N - 1, n \in Good PROVE n + 1 \in Good
  <2>1. \A m \in 0 .. n : Search(i)[m] = FirstAt(i, m)
    BY <1>3
  <2>2. n \in Nat /\ n \in 0 .. n /\ n + 1 \in 0 .. N /\ 0 .. n + 1 = (0 .. n) \cup {n + 1}
    BY <1>1
  <2>3. FoundBy(Search(i), n) = Before(i, n)
    BY <2>1 DEF Before, FoundBy
  <2>4. \A j \in Real : j \in Before(i, n) <=> ~Late(i, n, j)
    <3>1. TAKE j \in Real
    <3>2. ASSUME NEW m \in 0 .. n, Apart(i, j, m) PROVE \E k \in 0 .. n : j \in FirstAt(i, k)
      <4>1. PICK k \in 0 .. m : j \in FirstAt(i, k)
        BY <3>2, FoundFirst
      <4>2. k \in 0 .. n
        OBVIOUS
      <4>. QED
        BY <4>1, <4>2
    <3>3. ASSUME NEW m \in 0 .. n, j \in FirstAt(i, m) PROVE \E k \in 0 .. n : Apart(i, j, k)
      BY <3>3 DEF FirstAt
    <3>. QED
      BY <3>2, <3>3 DEF Before, Late
  <2>5. \A k : Adjacent(k) \in SUBSET Real
    BY AdjacentIsReal
  <2>6. Search(i)[n] = FirstAt(i, n)
    BY <2>1, <2>2
  <2>7. Search(i)[n + 1] = NextTo(i, n) \ Before(i, n)
    <3>1. Search(i)[n + 1] = Neighbours(Search(i)[n]) \ FoundBy(Search(i), n)
      BY SearchRounds
    <3>. QED
      BY <2>3, <2>6, <3>1 DEF NextTo
  <2>8. FirstAt(i, n + 1) = {j \in NextTo(i, n) : Late(i, n, j)}
    BY <2>2, FirstAtStep
  <2>9. NextTo(i, n) \in SUBSET Real
    BY <2>5 DEF NextTo, Neighbours
  <2>10. Search(i)[n + 1] = FirstAt(i, n + 1)
    BY <2>4, <2>7, <2>8, <2>9
  <2>. QED
    BY <2>1, <2>2, <2>10
<1>4. 0 .. N \subseteq Good
  <2>. HIDE DEF Good
  <2>. QED
    BY <1>1, <1>2, <1>3, UpTo
<1>5. \A n \in 0 .. N : n \in 0 .. n
  BY <1>1
<1>. QED
  BY <1>4, <1>5

(***************************************************************************)
(* Components.                                                             *)
(***************************************************************************)
Reaches(i, j) == \E n \in Nat : Apart(i, j, n)

Component(i) == FoundBy(Search(i), N)

\* No entity is found first later than after as many steps as there are entities.
LEMMA FoundInTime ==
    ASSUME WorldInv, NEW i \in Real, NEW m \in Nat, FirstAt(i, m) # {}
    PROVE  m \in 0 .. N
<1>. DEFINE Good == {k \in 0 .. m : FirstAt(i, m - k) # {}}
<1>1. 0 \in Good
  OBVIOUS
<1>2. ASSUME NEW k \in 0 .. m - 1, k \in Good PROVE k + 1 \in Good
  <2>1. m - (k + 1) \in Nat /\ (m - (k + 1)) + 1 = m - k /\ k + 1 \in 0 .. m
    OBVIOUS
  <2>2. FirstAt(i, m - k) = {j \in NextTo(i, m - (k + 1)) : Late(i, m - (k + 1), j)}
    BY <2>1, FirstAtStep
  <2>3. NextTo(i, m - (k + 1)) # {}
    BY <1>2, <2>2
  <2>4. FirstAt(i, m - (k + 1)) # {}
    BY <2>3 DEF NextTo, Neighbours
  <2>. QED
    BY <2>1, <2>4
<1>3. 0 .. m \subseteq Good
  <2>. HIDE DEF Good
  <2>. QED
    BY <1>1, <1>2, UpTo
<1>4. \A n \in 0 .. m : FirstAt(i, n) # {}
  <2>1. TAKE n \in 0 .. m
  <2>2. m - n \in 0 .. m /\ m - (m - n) = n
    OBVIOUS
  <2>. QED
    BY <1>3, <2>2
<1>. DEFINE w == [n \in 0 .. m |-> CHOOSE j \in FirstAt(i, n) : TRUE]
<1>5. \A n \in 0 .. m : w[n] \in FirstAt(i, n)
  BY <1>4
<1>6. IsFiniteSet(0 .. m) /\ Cardinality(0 .. m) = m + 1
  BY FS_Interval
<1>. HIDE DEF w
<1>7. ASSUME NEW a \in 0 .. m, NEW b \in 0 .. m, w[a] = w[b] PROVE a = b
  <2>1. w[a] \in FirstAt(i, a) /\ w[a] \in FirstAt(i, b)
    BY <1>5, <1>7
  <2>2. ~(a \in 0 .. b - 1) /\ ~(b \in 0 .. a - 1)
    BY <2>1 DEF FirstAt
  <2>. QED
    BY <2>2
<1>8. Cardinality({w[n] : n \in 0 .. m}) = m + 1
  BY <1>6, <1>7, ImageSize
<1>9. {w[n] : n \in 0 .. m} \subseteq Real
  BY <1>5 DEF FirstAt
<1>10. Cardinality({w[n] : n \in 0 .. m}) <= N
  BY <1>9, RealSize, FS_Subset DEF N
<1>. QED
  BY <1>8, <1>10, RealSize

\* A search finds whoever a chain of edges leads to.
LEMMA ComponentIs == ASSUME WorldInv, NEW i \in Real PROVE Component(i) = {j \in Real : Reaches(i, j)}
<1>1. N \in Nat /\ \A n \in 0 .. N : Search(i)[n] = FirstAt(i, n)
  BY RealSize, SearchFindsFirst
<1>2. ASSUME NEW j \in Component(i) PROVE j \in Real /\ Reaches(i, j)
  <2>1. PICK n \in 0 .. N : j \in Search(i)[n]
    BY DEF Component, FoundBy
  <2>2. j \in FirstAt(i, n) /\ n \in Nat
    BY <1>1, <2>1
  <2>. QED
    BY <2>2 DEF FirstAt, Reaches
<1>3. ASSUME NEW j \in Real, Reaches(i, j) PROVE j \in Component(i)
  <2>1. PICK n \in Nat : Apart(i, j, n)
    BY <1>3 DEF Reaches
  <2>2. PICK m \in 0 .. n : j \in FirstAt(i, m)
    BY <2>1, FoundFirst
  <2>3. m \in 0 .. N
    BY <2>2, FoundInTime
  <2>4. j \in Search(i)[m]
    BY <1>1, <2>2, <2>3
  <2>. QED
    BY <2>3, <2>4 DEF Component, FoundBy
<1>. QED
  BY <1>2, <1>3

\* Chains of edges can be walked back and put end to end.
LEMMA ApartBack ==
    ASSUME NEW i \in Real, NEW j \in Real, NEW n \in Nat, Apart(i, j, n)
    PROVE  Apart(j, i, n)
<1>1. PICK p \in [0 .. n -> Real] :
          /\ p[0] = i /\ p[n] = j
          /\ \A k \in 1 .. n : \E f \in BaseEdges : Ends(f) = {p[k - 1], p[k]}
  BY DEF Apart
<1>. DEFINE q == [k \in 0 .. n |-> p[n - k]]
<1>2. q \in [0 .. n -> Real] /\ q[0] = j /\ q[n] = i
  BY <1>1
<1>3. \A k \in 1 .. n : \E f \in BaseEdges : Ends(f) = {q[k - 1], q[k]}
  <2>1. TAKE k \in 1 .. n
  <2>2. n - k + 1 \in 1 .. n /\ k - 1 \in 0 .. n /\ k \in 0 .. n
        /\ n - (k - 1) = n - k + 1 /\ (n - k + 1) - 1 = n - k
    OBVIOUS
  <2>3. q[k - 1] = p[n - k + 1] /\ q[k] = p[(n - k + 1) - 1]
    BY <2>2
  <2>4. PICK f \in BaseEdges : Ends(f) = {p[(n - k + 1) - 1], p[n - k + 1]}
    BY <1>1, <2>2
  <2>. HIDE DEF q
  <2>. QED
    BY <2>3, <2>4
<1>. HIDE DEF q
<1>. QED
  BY <1>2, <1>3 DEF Apart

LEMMA ReachesOn ==
    ASSUME WorldInv, NEW i \in Real, NEW j \in Real, NEW k \in Real, Reaches(i, j), Reaches(j, k)
    PROVE  Reaches(i, k)
<1>1. PICK a \in Nat : Apart(i, j, a)
  BY DEF Reaches
<1>2. PICK b \in Nat : Apart(j, k, b)
  BY DEF Reaches
<1>. DEFINE Good == {c \in 0 .. b : \A x \in Real : Apart(j, x, c) => Apart(i, x, a + c)}
<1>3. 0 \in Good
  <2>1. a + 0 = a /\ 0 \in 0 .. b
    OBVIOUS
  <2>. QED
    BY <1>1, <2>1, ApartNone
<1>4. ASSUME NEW c \in 0 .. b - 1, c \in Good PROVE c + 1 \in Good
  <2>1. c \in Nat /\ a + c \in Nat /\ a + (c + 1) = (a + c) + 1 /\ c + 1 \in 0 .. b
    OBVIOUS
  <2>2. ASSUME NEW x \in Real, Apart(j, x, c + 1) PROVE Apart(i, x, (a + c) + 1)
    <3>1. PICK y \in Real : Apart(j, y, c) /\ x \in Adjacent(y)
      BY <2>1, <2>2, ApartMore
    <3>2. Apart(i, y, a + c)
      BY <1>4, <3>1
    <3>. QED
      BY <2>1, <3>1, <3>2, ApartMore
  <2>. QED
    BY <2>1, <2>2
<1>5. 0 .. b \subseteq Good
  <2>. HIDE DEF Good
  <2>. QED
    BY <1>3, <1>4, UpTo
<1>6. Apart(i, k, a + b) /\ a + b \in Nat
  BY <1>2, <1>5
<1>. QED
  BY <1>6 DEF Reaches

LEMMA ComponentsSplit ==
    ASSUME WorldInv
    PROVE  SumFunction([c \in Components |-> Cardinality(c)]) = Cardinality(Real)
<1>. DEFINE f == [i \in Real |-> Component(i)]
            size == [c \in Components |-> Cardinality(c)]
<1>1. Components = {Component(i) : i \in Real}
  BY DEF Components, Component, N
<1>2. IsFiniteSet(Components) /\ f \in [Real -> Components]
  <2>1. f \in [Real -> Components]
    BY <1>1
  <2>2. Components = {f[i] : i \in Real}
    BY <1>1
  <2>3. IsFiniteSet(Real)
    BY RealSize
  <2>. HIDE DEF f
  <2>4. IsFiniteSet({f[i] : i \in Real})
    BY <2>3, ImageSize
  <2>. QED
    BY <2>1, <2>2, <2>4
<1>3. ASSUME NEW x \in Real, NEW i \in Real PROVE Component(x) = Component(i) <=> x \in Component(i)
  <2>1. Component(x) = {j \in Real : Reaches(x, j)} /\ Component(i) = {j \in Real : Reaches(i, j)}
    BY ComponentIs
  <2>2. Reaches(x, x)
    BY ApartNone DEF Reaches
  <2>3. Reaches(i, x) => Reaches(x, i)
    BY ApartBack DEF Reaches
  <2>4. ASSUME Reaches(i, x), NEW j \in Real PROVE Reaches(x, j) <=> Reaches(i, j)
    BY <2>3, <2>4, ReachesOn
  <2>. QED
    BY <2>1, <2>2, <2>4
<1>4. ASSUME NEW t \in Components PROVE size[t] = Cardinality({x \in Real : f[x] = t})
  <2>1. PICK i \in Real : t = Component(i)
    BY <1>1
  <2>2. t \in SUBSET Real
    BY <2>1, ComponentIs
  <2>3. {x \in Real : f[x] = t} = t
    BY <1>3, <2>1, <2>2
  <2>. QED
    BY <2>3
<1>5. SumFunctionOnSet(size, Components) = Cardinality(Real)
  <2>. HIDE DEF size, f
  <2>. QED
    BY <1>2, <1>4, RealSize, SumOfClasses
<1>6. DOMAIN size = Components
  OBVIOUS
<1>7. SumFunction(size) = SumFunctionOnSet(size, Components)
  <2>. HIDE DEF size
  <2>. QED
    BY <1>6 DEF SumFunction
<1>. QED
  BY <1>5, <1>7

LEMMA DistancesAreRight == ASSUME WorldInv PROVE DistancesAreShortest
<1>1. ASSUME NEW i \in Real, NEW j \in Real, NEW n \in 0 .. Cardinality(Real) - 1
      PROVE  (j \in Search(i)[n]) <=> (Apart(i, j, n) /\ \A m \in 0 .. n - 1 : ~Apart(i, j, m))
  <2>1. n \in 0 .. N
    BY RealSize DEF N
  <2>. QED
    BY <2>1, SearchFindsFirst DEF FirstAt
<1>. QED
  BY <1>1, ComponentsSplit DEF DistancesAreShortest

\* A world that was not given up is the one its spec describes: its facts fit their relations,
\* its dates add up, its names can be kept apart, each knob is realised and its statistics tell
\* distances and components as chains of edges do.
THEOREM WorldIsRight == GeneratorSpec => []WorldIsAsSpecified
<1>1. WorldInv => WorldIsAsSpecified
  BY FactsAreRelated, ChurnIsAddedUp, NamesAreApart, KnobsRealised, DistancesAreRight
     DEF WorldIsAsSpecified
<1>. QED
  BY <1>1, WorldInvHolds, PTL

(***************************************************************************)
(* Scenarios.                                                              *)
(***************************************************************************)
Idle == aims = {} /\ changes = {} /\ ready = {} /\ stored = {}

Replaying == {"aiming", "arriving"}

\* what is true now, and what of it is about real entities
Now == {TripleOf(f) : f \in CurrentEdges}
RealNow == {TripleOf(f) : f \in {x \in CurrentEdges : x.subject \in Real /\ x.object \in Real}}

\* an update moves a fact to an object its relation allows
Moves(e) ==
    /\ e.fact.subject # e.fact.object
    /\ e.fact.predicate # Vague
    /\ <<type[e.fact.subject], type[e.fact.object]>> \in Signatures[e.fact.predicate]
    /\ e.fact \notin {TripleOf(f) : f \in facts}

\* what has been aimed at is aimed at once
ChangesInv ==
    /\ \A e \in changes :
        /\ e.kind \in {"update", "delete"}
        /\ e.target \in RealNow \ aims
        /\ e.kind = "update" => Moves(e)
    /\ \A e, c \in changes : e.target = c.target => e = c
    /\ \A e, c \in OfChange("update") : e.fact = c.fact => e = c

\* an event not yet ready whose add is through has arrived
Arrived(e) == e \notin ready /\ AddOf(e.target) \notin ready

OldItem(t) == Item(Id(t), t)
NewItem(e) == Item(NewId(e.target), e.fact)

\* facts that are added, and neither updated nor deleted yet
Kept == {t \in Now : AddOf(t) \notin ready /\ \A c \in changes : c.target = t => ~Arrived(c)}

Moved == {e \in OfChange("update") : Arrived(e)}

ArrivingInv ==
    /\ ready \subseteq Adds \cup changes
    /\ \A e \in ready \cap changes : AddOf(e.target) \notin ready
    /\ stored = {OldItem(t) : t \in Kept} \cup {NewItem(e) : e \in Moved}

ScenarioInv ==
    /\ stage \notin Replaying => Idle
    /\ aims \subseteq RealNow
    /\ ChangesInv
    /\ stage = "aiming" => ready = {} /\ stored = {}
    /\ stage = "arriving" => aims = {} /\ ArrivingInv

LEMMA IdleKeepsScenarioInv == ASSUME Idle', stage' \notin Replaying PROVE ScenarioInv'
BY DEF Idle, Replaying, ScenarioInv, ChangesInv, OfChange

\* Nothing but a scenario's own steps changes what is scheduled.
LEMMA OtherKeepsScenarioInv ==
    ASSUME ScenarioInv, stage \notin Replaying, stage' \notin Replaying, UNCHANGED scenarioVars
    PROVE  ScenarioInv'
<1>1. Idle'
  BY DEF ScenarioInv, Idle, scenarioVars
<1>. QED
  BY <1>1, IdleKeepsScenarioInv

LEMMA SameKeepsScenarioInv ==
    ASSUME ScenarioInv, WorldSame, UNCHANGED scenarioVars PROVE ScenarioInv'
<1>1. /\ stage' = stage /\ facts' = facts /\ type' = type
      /\ aims' = aims /\ changes' = changes /\ ready' = ready /\ stored' = stored
  BY DEF WorldSame, scenarioVars
<1>2. Now' = Now /\ RealNow' = RealNow /\ Adds' = Adds
  BY <1>1 DEF Now, RealNow, Adds, CurrentEdges
<1>3. ChangesInv'
  BY <1>1, <1>2 DEF ScenarioInv, ChangesInv, Moves, OfChange
<1>4. Kept' = Kept /\ Moved' = Moved
  BY <1>1, <1>2 DEF Kept, Moved, Arrived, OfChange
<1>5. stage = "arriving" => ArrivingInv'
  BY <1>1, <1>2, <1>4 DEF ScenarioInv, ArrivingInv
<1>. QED
  BY <1>1, <1>2, <1>3, <1>5 DEF ScenarioInv, Idle

LEMMA DrawTargetsKeepsScenarioInv == ASSUME ScenarioInv, DrawTargets PROVE ScenarioInv'
<1>1. /\ stage = "world" /\ stage' = "aiming" /\ facts' = facts
      /\ changes' = changes /\ ready' = ready /\ stored' = stored
      /\ aims' \in SUBSET RealNow
  BY DEF DrawTargets, RealNow, kSubset
<1>2. Idle
  BY <1>1 DEF ScenarioInv, Replaying
<1>3. RealNow' = RealNow
  BY <1>1 DEF RealNow, CurrentEdges
<1>4. ChangesInv'
  BY <1>1, <1>2 DEF Idle, ChangesInv, OfChange
<1>. QED
  BY <1>1, <1>2, <1>3, <1>4 DEF ScenarioInv, Idle, Replaying

\* what a target may become
MadeOf(e, t) ==
    /\ e.kind \in {"update", "delete"} /\ e.target = t
    /\ e.kind = "update" => Moves(e) /\ \A c \in OfChange("update") : c.fact # e.fact

LEMMA AimMakes ==
    ASSUME NEW t, Aim(t)
    PROVE  changes' = changes \/ \E e : changes' = changes \cup {e} /\ MadeOf(e, t)
<1>1. CASE \E o \in Retargets(t) :
             changes' = changes \cup {UpdateOf(t, Triple(t.subject, t.predicate, o))}
  <2>1. PICK o \in Retargets(t) :
            changes' = changes \cup {UpdateOf(t, Triple(t.subject, t.predicate, o))}
    BY <1>1
  <2>. DEFINE new == Triple(t.subject, t.predicate, o)
              e == UpdateOf(t, new)
  <2>2. /\ t.predicate # Vague /\ o # t.subject /\ new \notin Taken
        /\ <<type[t.subject], type[o]>> \in Signatures[t.predicate]
    BY DEF Retargets
  <2>3. new.subject = t.subject /\ new.predicate = t.predicate /\ new.object = o
    BY DEF Triple
  <2>4. e.kind = "update" /\ e.target = t /\ e.fact = new
    BY DEF UpdateOf
  <2>. HIDE DEF new, e
  <2>5. Moves(e)
    BY <2>2, <2>3, <2>4 DEF Moves, Taken
  <2>6. \A c \in OfChange("update") : c.fact # e.fact
    BY <2>2, <2>4 DEF Taken
  <2>7. changes' = changes \cup {e}
    BY <2>1 DEF e, new
  <2>. QED
    BY <2>4, <2>5, <2>6, <2>7 DEF MadeOf
<1>2. CASE changes' = changes \cup {DeleteOf(t)}
  <2>1. DeleteOf(t).kind = "delete" /\ DeleteOf(t).target = t
    BY DEF DeleteOf
  <2>. QED
    BY <1>2, <2>1 DEF MadeOf
<1>. QED
  BY <1>1, <1>2 DEF Aim

LEMMA AimKeepsScenarioInv == ASSUME ScenarioInv, NEW t, Aim(t) PROVE ScenarioInv'
<1>1. /\ stage = "aiming" /\ stage' = "aiming" /\ facts' = facts /\ type' = type
      /\ ready' = ready /\ stored' = stored /\ t \in aims /\ aims' = aims \ {t}
  BY DEF Aim
<1>2. RealNow' = RealNow
  BY <1>1 DEF RealNow, CurrentEdges
<1>3. \A e : Moves(e)' <=> Moves(e)
  BY <1>1 DEF Moves
<1>4. CASE changes' = changes
  BY <1>1, <1>2, <1>3, <1>4 DEF ScenarioInv, ChangesInv, OfChange, Replaying
<1>5. ASSUME NEW e, changes' = changes \cup {e}, MadeOf(e, t) PROVE ChangesInv'
  <2>1. /\ aims \subseteq RealNow
        /\ \A c \in changes :
             /\ c.kind \in {"update", "delete"}
             /\ c.target \in RealNow \ aims
             /\ c.kind = "update" => Moves(c)
        /\ \A c, d \in changes : c.target = d.target => c = d
        /\ \A c, d \in OfChange("update") : c.fact = d.fact => c = d
    BY DEF ScenarioInv, ChangesInv
  <2>2. /\ e.kind \in {"update", "delete"} /\ e.target = t
        /\ e.kind = "update" => Moves(e) /\ \A c \in OfChange("update") : c.fact # e.fact
    BY <1>5 DEF MadeOf
  <2>3. \A c \in changes' : /\ c.kind \in {"update", "delete"}
                            /\ c.target \in RealNow' \ aims'
                            /\ c.kind = "update" => Moves(c)'
    BY <1>1, <1>2, <1>3, <1>5, <2>1, <2>2
  <2>4. \A c, d \in changes' : c.target = d.target => c = d
    BY <1>1, <1>5, <2>1, <2>2
  <2>5. OfChange("update")' \subseteq OfChange("update") \cup (IF e.kind = "update" THEN {e} ELSE {})
    BY <1>5 DEF OfChange
  <2>6. \A c, d \in OfChange("update")' : c.fact = d.fact => c = d
    BY <2>1, <2>2, <2>5
  <2>. QED
    BY <2>3, <2>4, <2>6 DEF ChangesInv
<1>6. ChangesInv'
  <2>1. CASE changes' = changes
    BY <1>1, <1>2, <1>3, <2>1 DEF ScenarioInv, ChangesInv, OfChange
  <2>. QED
    BY <1>5, <2>1, AimMakes
<1>. QED
  BY <1>1, <1>2, <1>6 DEF ScenarioInv, Replaying

LEMMA AddFields == \A t : AddOf(t).kind = "add" /\ AddOf(t).target = t /\ AddOf(t).fact = t
BY DEF AddOf

LEMMA AddsAre == Adds = {AddOf(t) : t \in Now}
BY DEF Adds, Now

LEMMA ScheduleKeepsScenarioInv == ASSUME ScenarioInv, Schedule PROVE ScenarioInv'
<1>1. /\ stage = "aiming" /\ stage' = "arriving" /\ facts' = facts /\ type' = type
      /\ aims = {} /\ aims' = aims /\ changes' = changes /\ ready' = Adds /\ stored' = stored
  BY DEF Schedule
<1>2. Now' = Now /\ RealNow' = RealNow /\ Adds' = Adds
  BY <1>1 DEF Now, RealNow, Adds, CurrentEdges
<1>3. ChangesInv'
  BY <1>1, <1>2 DEF ScenarioInv, ChangesInv, Moves, OfChange
<1>4. Kept' = {}
  <2>1. \A t \in Now : AddOf(t) \in ready'
    BY <1>1, AddsAre
  <2>. QED
    BY <1>2, <2>1 DEF Kept
<1>5. \A e \in changes : e.target \in Now /\ e.kind # "add"
  BY DEF ScenarioInv, ChangesInv, RealNow, Now
<1>6. Moved' = {}
  <2>1. \A e \in changes : AddOf(e.target) \in ready'
    BY <1>1, <1>5, AddsAre
  <2>. QED
    BY <1>1, <2>1 DEF Moved, Arrived, OfChange
<1>7. \A e \in Adds : e \notin changes
  BY <1>5, AddFields, AddsAre
<1>8. stored' = {}
  BY <1>1 DEF ScenarioInv
<1>9. ArrivingInv'
  BY <1>1, <1>2, <1>4, <1>6, <1>7, <1>8 DEF ArrivingInv
<1>. QED
  BY <1>1, <1>2, <1>3, <1>9 DEF ScenarioInv, Replaying

LEMMA ChangeIsNoAdd ==
    ASSUME ScenarioInv, NEW e \in changes
    PROVE  e.target \in RealNow /\ e.target \in Now /\ e.kind \in {"update", "delete"} /\ \A t : e # AddOf(t)
BY AddFields DEF ScenarioInv, ChangesInv, RealNow, Now

LEMMA ItemsDiffer ==
    /\ \A s, t : OldItem(s) = OldItem(t) => s = t
    /\ \A s, e : OldItem(s) # NewItem(e)
<1>1. \A id, t : Item(id, t).id = id /\ Item(id, t).fact = t
  BY DEF Item
<1>2. \A s, t : Id(s) # NewId(t)
  BY DEF Id, NewId
<1>. QED
  BY <1>1, <1>2 DEF OldItem, NewItem

ReadySame == stage = "arriving" /\ stage' = "arriving"
             /\ UNCHANGED <<facts, type, aims, changes>>

ChangesOf(t) == {c \in changes : c.target = t}

AddStep(t) ==
    /\ AddOf(t) \in ready
    /\ ready' = (ready \ {AddOf(t)}) \cup ChangesOf(t)
    /\ stored' = stored \cup {OldItem(t)}

ChangeStep(e) ==
    /\ e \in ready
    /\ ready' = ready \ {e}
    /\ stored' = (stored \ {OldItem(e.target)}) \cup (IF e.kind = "update" THEN {NewItem(e)} ELSE {})

\* an add makes its fact kept
LEMMA AddArrives == ASSUME ScenarioInv, ReadySame, NEW t \in Now, AddStep(t) PROVE ArrivingInv'
<1>0. /\ AddOf(t) \in ready /\ stored' = stored \cup {OldItem(t)}
      /\ ready' = (ready \ {AddOf(t)}) \cup ChangesOf(t)
  BY DEF AddStep
<1>1. ArrivingInv /\ changes' = changes
  BY DEF ScenarioInv, ReadySame
<1>2. Now' = Now /\ Adds' = Adds
  BY DEF ReadySame, Now, Adds, CurrentEdges
<1>3. \A s : AddOf(s) \in ready' <=> AddOf(s) \in ready /\ s # t
  BY <1>0, ChangeIsNoAdd, AddFields DEF ChangesOf
<1>4. \A c \in changes : c \in ready' <=> c \in ready \/ c.target = t
  BY <1>0, ChangeIsNoAdd DEF ChangesOf
<1>5. \A c \in changes : Arrived(c)' <=> Arrived(c)
  BY <1>0, <1>3, <1>4 DEF Arrived
<1>6. \A c \in changes : c.target = t => ~Arrived(c)
  BY <1>0 DEF Arrived
<1>7. Moved' = Moved
  BY <1>1, <1>5 DEF Moved, OfChange
<1>8. Kept' = Kept \cup {t}
  <2>1. ASSUME NEW s \in Now PROVE s \in Kept' <=> s \in Kept \/ s = t
    BY <1>1, <1>2, <1>3, <1>5, <1>6 DEF Kept
  <2>. QED
    BY <1>2, <2>1 DEF Kept
<1>9. ready' \subseteq Adds' \cup changes'
  BY <1>0, <1>1, <1>2 DEF ArrivingInv, ChangesOf
<1>10. \A e \in ready' \cap changes' : AddOf(e.target) \notin ready'
  BY <1>1, <1>3, <1>4 DEF ArrivingInv
<1>11. stored' = {OldItem(s) : s \in Kept'} \cup {NewItem(e) : e \in Moved'}
  BY <1>0, <1>1, <1>7, <1>8 DEF ArrivingInv
<1>. QED
  BY <1>9, <1>10, <1>11 DEF ArrivingInv

\* a change takes its fact away, and an update brings another
LEMMA ChangeArrives == ASSUME ScenarioInv, ReadySame, NEW e \in changes, ChangeStep(e) PROVE ArrivingInv'
<1>0. /\ e \in ready /\ ready' = ready \ {e}
      /\ stored' = (stored \ {OldItem(e.target)})
                      \cup (IF e.kind = "update" THEN {NewItem(e)} ELSE {})
  BY DEF ChangeStep
<1>1. ArrivingInv /\ changes' = changes
  BY DEF ScenarioInv, ReadySame
<1>2. Now' = Now /\ Adds' = Adds
  BY DEF ReadySame, Now, Adds, CurrentEdges
<1>3. /\ \A s : AddOf(s) \in ready' <=> AddOf(s) \in ready
      /\ e.target \in Now /\ AddOf(e.target) \notin ready
      /\ \A c \in changes : c.target = e.target => c = e
  BY <1>0, <1>1, ChangeIsNoAdd DEF ArrivingInv, ScenarioInv, ChangesInv
<1>4. \A c \in changes : Arrived(c)' <=> Arrived(c) \/ c = e
  BY <1>0, <1>3 DEF Arrived
<1>5. ~Arrived(e)
  BY <1>0 DEF Arrived
<1>6. Moved' = Moved \cup (IF e.kind = "update" THEN {e} ELSE {})
  BY <1>1, <1>4 DEF Moved, OfChange
<1>7. Kept' = Kept \ {e.target}
  <2>1. ASSUME NEW s \in Now PROVE s \in Kept' <=> s \in Kept /\ s # e.target
    <3>1. CASE s = e.target
      BY <1>1, <1>4, <3>1 DEF Kept
    <3>2. CASE s # e.target
      BY <1>1, <1>2, <1>3, <1>4, <3>2 DEF Kept
    <3>. QED
      BY <3>1, <3>2
  <2>. QED
    BY <1>2, <2>1 DEF Kept
<1>8. stored = {OldItem(s) : s \in Kept} \cup {NewItem(c) : c \in Moved}
  BY <1>1 DEF ArrivingInv
<1>9. {OldItem(s) : s \in Kept} \ {OldItem(e.target)} = {OldItem(s) : s \in Kept'}
  BY <1>7, ItemsDiffer
<1>10. stored' = {OldItem(s) : s \in Kept'} \cup {NewItem(c) : c \in Moved'}
  BY <1>0, <1>6, <1>8, <1>9, ItemsDiffer
<1>11. ready' \subseteq Adds' \cup changes'
  BY <1>0, <1>1, <1>2 DEF ArrivingInv
<1>12. \A c \in ready' \cap changes' : AddOf(c.target) \notin ready'
  BY <1>0, <1>1, <1>3 DEF ArrivingInv
<1>. QED
  BY <1>10, <1>11, <1>12 DEF ArrivingInv

LEMMA ArriveKeepsScenarioInv ==
    ASSUME ScenarioInv, NEW e \in ready, Arrive(e) PROVE ScenarioInv'
<1>1. /\ stage = "arriving" /\ stage' = stage
      /\ facts' = facts /\ type' = type /\ aims' = aims /\ changes' = changes
      /\ ready' = (ready \ {e}) \cup Waiting(e) /\ stored' = Apply(stored, e)
  BY DEF Arrive
<1>2. ReadySame /\ ready \subseteq Adds \cup changes
  BY <1>1 DEF ReadySame, ScenarioInv, ArrivingInv
<1>3. ASSUME e \in Adds PROVE ArrivingInv'
  <2>1. PICK t \in Now : e = AddOf(t)
    BY <1>3, AddsAre
  <2>2. Waiting(e) = ChangesOf(t)
    BY <2>1, AddFields DEF Waiting, ChangesOf
  <2>3. stored' = stored \cup {OldItem(t)}
    BY <1>1, <2>1, AddFields DEF Apply, OldItem
  <2>4. AddStep(t)
    BY <1>1, <2>1, <2>2, <2>3 DEF AddStep
  <2>. QED
    BY <1>2, <2>4, AddArrives
<1>4. ASSUME e \in changes PROVE ArrivingInv'
  <2>1. e.kind \in {"update", "delete"}
    BY <1>4, ChangeIsNoAdd
  <2>2. ready' = ready \ {e}
    BY <1>1, <2>1 DEF Waiting
  <2>3. stored' = (stored \ {OldItem(e.target)})
                    \cup (IF e.kind = "update" THEN {NewItem(e)} ELSE {})
    BY <1>1, <2>1 DEF Apply, OldItem, NewItem
  <2>4. ChangeStep(e)
    BY <2>2, <2>3 DEF ChangeStep
  <2>. QED
    BY <1>2, <1>4, <2>4, ChangeArrives
<1>5. ArrivingInv'
  BY <1>2, <1>3, <1>4
<1>6. RealNow' = RealNow
  BY <1>1 DEF RealNow, CurrentEdges
<1>7. ChangesInv'
  BY <1>1, <1>6 DEF ScenarioInv, ChangesInv, Moves, OfChange
<1>. QED
  BY <1>1, <1>5, <1>6, <1>7 DEF ScenarioInv, Replaying

LEMMA NextKeepsScenarioInv ==
    ASSUME ScenarioInv, [GeneratorNext]_<<vars, scenarioVars>> PROVE ScenarioInv'
<1>1. CASE Generate /\ UNCHANGED questionVars /\ UNCHANGED scenarioVars
  <2>1. stage \notin Replaying /\ stage' \notin Replaying
    BY <1>1 DEF Generate, NoRelation, DrawBase, DrawClosing, MissClosing, CloseNothing, DrawNoise,
                EndPlacing, Churn, EndChurn, NameEntities, AddLookAlikes, Fail, Add, Replaying
  <2>. QED
    BY <1>1, <2>1, OtherKeepsScenarioInv
<1>2. CASE QuestionStep /\ UNCHANGED scenarioVars
  <2>1. Plan \/ NothingToAsk \/ PlanEntities => stage \notin Replaying /\ stage' \notin Replaying
    BY DEF Plan, NothingToAsk, PlanEntities, Fail, Replaying
  <2>2. ASSUME NEW job, Ask(job) PROVE stage \notin Replaying /\ stage' \notin Replaying
    BY <2>2, AskKeepsOne DEF KeepsOne, Keep, Current, Replaying
  <2>3. ASSUME NEW job, GiveUp(job) PROVE stage \notin Replaying /\ stage' \notin Replaying
    BY <2>3 DEF GiveUp, Fail, Current, Replaying
  <2>4. stage \notin Replaying /\ stage' \notin Replaying
    BY <1>2, <2>1, <2>2, <2>3 DEF QuestionStep
  <2>. QED
    BY <1>2, <2>4, OtherKeepsScenarioInv
<1>3. CASE ScenarioNext
  BY <1>3, DrawTargetsKeepsScenarioInv, AimKeepsScenarioInv, ScheduleKeepsScenarioInv,
     ArriveKeepsScenarioInv DEF ScenarioNext
<1>4. CASE WorldSame /\ UNCHANGED questionVars /\ UNCHANGED scenarioVars
  BY <1>4, SameKeepsScenarioInv
<1>. QED
  BY <1>1, <1>2, <1>3, <1>4, StepKinds

\* A scenario's changes are about different current facts, and what its store holds is decided
\* by which events have arrived, not by their order.
THEOREM ScenarioInvHolds == GeneratorSpec => []ScenarioInv
<1>1. GeneratorInit => ScenarioInv
  <2>. SUFFICES ASSUME GeneratorInit PROVE ScenarioInv
    OBVIOUS
  <2>1. Idle /\ stage = "placing"
    BY DEF GeneratorInit, QuestionsInit, Init, ScenarioInit, Idle
  <2>. QED
    BY <2>1 DEF Idle, Replaying, ScenarioInv, ChangesInv, OfChange
<1>2. ScenarioInv /\ [GeneratorNext]_<<vars, scenarioVars>> => ScenarioInv'
  BY NextKeepsScenarioInv
<1>. QED
  BY <1>1, <1>2, PTL DEF GeneratorSpec

\* A scenario can be replayed in any order it may be shuffled to: its updates are facts a world
\* could have, no event needs one that comes later, and every order ends alike.
THEOREM ScenariosAreRight == GeneratorSpec => []ScenariosReplay
<1>1. ScenarioInv => UpdatesStayTyped
  <2>. SUFFICES ASSUME ScenarioInv PROVE UpdatesStayTyped
    OBVIOUS
  <2>1. \A e \in OfChange("update") : e \in changes /\ Moves(e)
    BY DEF ScenarioInv, ChangesInv, OfChange
  <2>2. \A e, c \in OfChange("update") : e.fact = c.fact => e = c
    BY DEF ScenarioInv, ChangesInv
  <2>. QED
    BY <2>1, <2>2 DEF UpdatesStayTyped, Moves
<1>2. ScenarioInv => NoEventComesEarly
  <2>. SUFFICES ASSUME ScenarioInv, stage = "arriving", NEW e \in ready \cap changes
                PROVE  Item(Id(e.target), e.target) \in stored
    BY DEF NoEventComesEarly
  <2>1. e.target \in Now /\ AddOf(e.target) \notin ready
    BY ChangeIsNoAdd DEF ScenarioInv, ArrivingInv
  <2>2. \A c \in changes : c.target = e.target => ~Arrived(c)
    BY DEF ScenarioInv, ChangesInv, Arrived
  <2>3. e.target \in Kept
    BY <2>1, <2>2 DEF Kept
  <2>. QED
    BY <2>3 DEF ScenarioInv, ArrivingInv, OldItem
<1>3. ScenarioInv => EveryOrderEndsAlike
  <2>. SUFFICES ASSUME ScenarioInv, stage = "arriving", ready = {} PROVE stored = Expected
    BY DEF EveryOrderEndsAlike
  <2>. DEFINE old == {OldItem(t) : t \in Now}
              updated == {OldItem(e.target) : e \in OfChange("update")}
              deleted == {OldItem(e.target) : e \in OfChange("delete")}
              new == {NewItem(e) : e \in OfChange("update")}
  <2>1. Moved = OfChange("update")
    BY DEF Moved, Arrived
  <2>2. Kept = {t \in Now : \A c \in changes : c.target # t}
    BY DEF Kept, Arrived
  <2>3. {OldItem(t) : t \in Kept} = (old \ updated) \ deleted
    <3>1. \A c \in changes : c \in OfChange("update") \/ c \in OfChange("delete")
      BY ChangeIsNoAdd DEF OfChange
    <3>2. OfChange("update") \subseteq changes /\ OfChange("delete") \subseteq changes
      BY DEF OfChange
    <3>. QED
      BY <2>2, <3>1, <3>2, ItemsDiffer
  <2>4. stored = ((old \ updated) \ deleted) \cup new
    BY <2>1, <2>3 DEF ScenarioInv, ArrivingInv
  <2>5. {Item(Id(e.fact), e.fact) : e \in Adds} = old
    BY AddsAre, AddFields DEF OldItem
  <2>6. Expected = ((old \ updated) \cup new) \ deleted
    <3>1. Expected = ((({Item(Id(e.fact), e.fact) : e \in Adds} \ updated) \cup new) \ deleted) \cup {}
      BY DEF Expected, OldItem, NewItem
    <3>. HIDE DEF updated, new, deleted, old
    <3>. QED
      BY <2>5, <3>1
  <2>7. new \cap deleted = {}
    BY ItemsDiffer
  <2>. HIDE DEF old, updated, deleted, new
  <2>. QED
    BY <2>4, <2>6, <2>7
<1>4. ScenarioInv => ScenariosReplay
  BY <1>1, <1>2, <1>3 DEF ScenariosReplay
<1>. QED
  BY <1>4, ScenarioInvHolds, PTL

(***************************************************************************)
(* Steps and walks.                                                        *)
(***************************************************************************)

\* What is live is what is true in the last year.
LEMMA LiveIs ==
    ASSUME WorldInv
    PROVE  /\ Live = TrueIn(EndYear) /\ IsFiniteSet(Live)
           /\ \A f \in Live : /\ f \in facts /\ RealFact(f) /\ f.to = Never
                              /\ f.subject \in Real /\ f.object \in Real /\ f.subject # f.object
                              /\ f.predicate \in Predicates
<1>1. StartYear \in Nat /\ EndYear \in Nat /\ StartYear < EndYear /\ Never \notin Nat
  BY SpecNumbers DEF WorldInv
<1>2. ASSUME NEW f \in facts, f.subject \in Real
      PROVE  /\ f.to = Never <=> f.from <= EndYear /\ (f.to = Never \/ EndYear < f.to)
             /\ f.predicate # Vague <=> f.predicate \in Predicates
             /\ RealFact(f) /\ f.subject # f.object
  <2>1. RealFact(f)
    BY <1>2, FactKinds
  <2>2. /\ f.from \in StartYear .. EndYear /\ f.to \in (StartYear + 1 .. EndYear) \cup {Never}
        /\ f.predicate \in Predicates \cup {Vague} /\ f.subject # f.object
    BY <2>1 DEF RealFact, Related
  <2>. QED
    BY <1>1, <2>1, <2>2, WorldAssumption
<1>3. Live = TrueIn(EndYear)
  BY <1>2 DEF Live, CurrentEdges, TrueIn
<1>4. IsFiniteSet(Live)
  <2>1. Live \subseteq facts
    BY DEF Live, CurrentEdges
  <2>. QED
    BY <2>1, FS_Subset DEF WorldInv, FactsInv
<1>. QED
  BY <1>2, <1>3, <1>4 DEF Live, CurrentEdges

LEMMA StepFields ==
    ASSUME WorldInv, NEW st \in Steps
    PROVE  /\ st.fact \in Live /\ st.forward \in BOOLEAN
           /\ Source(st) \in Real /\ Target(st) \in Real /\ Source(st) # Target(st)
           /\ Relation(st) \in Relations
           /\ Holds(st.fact, Source(st), Relation(st), Target(st))
<1>1. st.fact \in Live /\ st.forward \in BOOLEAN
  BY DEF Steps
<1>2. Relation(st).predicate = st.fact.predicate /\ Relation(st).forward = st.forward
  BY DEF Relation
<1>. QED
  BY <1>1, <1>2, LiveIs DEF Source, Target, Relations, Holds

StepOf(f, r) == [fact |-> f, forward |-> r.forward]

\* Whatever a relation holds for is a step.
LEMMA HoldsIsStep ==
    ASSUME WorldInv, NEW r \in Relations, NEW f \in Live, NEW x, NEW y, Holds(f, x, r, y)
    PROVE  /\ StepOf(f, r) \in Steps /\ StepOf(f, r).fact = f
           /\ Source(StepOf(f, r)) = x /\ Target(StepOf(f, r)) = y
           /\ Relation(StepOf(f, r)) = r
           /\ x \in Real /\ y \in Real
<1>1. PICK st \in Steps : r = Relation(st)
  BY DEF Relations
<1>2. r = [predicate |-> r.predicate, forward |-> r.forward] /\ r.forward \in BOOLEAN
  BY <1>1 DEF Relation, Steps
<1>3. StepOf(f, r).fact = f /\ StepOf(f, r).forward = r.forward /\ StepOf(f, r) \in Steps
  BY <1>2 DEF StepOf, Steps
<1>4. Relation(StepOf(f, r)) = [predicate |-> f.predicate, forward |-> r.forward]
  BY <1>3 DEF Relation
<1>. QED
  BY <1>2, <1>3, <1>4, LiveIs DEF Holds, Source, Target

LEMMA ReachIs ==
    ASSUME WorldInv, NEW r \in Relations, NEW S
    PROVE  /\ Reach(S, r) \in SUBSET Real
           /\ \A y : y \in Reach(S, r) <=> \E x \in S : \E f \in Live : Holds(f, x, r, y)
<1>1. ASSUME NEW y \in Reach(S, r) PROVE y \in Real /\ \E x \in S : \E f \in Live : Holds(f, x, r, y)
  <2>1. PICK st \in Steps : Relation(st) = r /\ Source(st) \in S /\ y = Target(st)
    BY DEF Reach
  <2>. QED
    BY <2>1, StepFields
<1>2. ASSUME NEW y, NEW x \in S, NEW f \in Live, Holds(f, x, r, y) PROVE y \in Reach(S, r)
  BY <1>2, HoldsIsStep DEF Reach
<1>. QED
  BY <1>1, <1>2

\* where a walk is after k steps
Place(start, steps, k) == IF k = 0 THEN start ELSE Target(steps[k])

IsWalk(start, steps) ==
    /\ steps \in Seq(Steps)
    /\ \A k \in 1 .. Len(steps) : Source(steps[k]) = Place(start, steps, k - 1)

WalksOf(start, n) == {steps \in Seq(Steps) : Len(steps) = n /\ IsWalk(start, steps)}

\* A step from where a walk ends makes a walk one step longer.
LEMMA AppendWalk ==
    ASSUME NEW start, NEW n \in Nat, NEW steps \in WalksOf(start, n), NEW st \in Steps,
           Source(st) = EndOf(start, steps)
    PROVE  Append(steps, st) \in WalksOf(start, n + 1)
<1>. DEFINE longer == Append(steps, st)
<1>2. steps \in Seq(Steps) /\ Len(steps) = n /\ IsWalk(start, steps)
  BY DEF WalksOf
<1>3. /\ longer \in Seq(Steps) /\ Len(longer) = n + 1 /\ longer[n + 1] = st
      /\ \A k \in 1 .. n : longer[k] = steps[k]
  BY <1>2, AppendProperties
<1>4. EndOf(start, steps) = Place(start, steps, n)
  <2>1. steps = <<>> <=> n = 0
    BY <1>2, EmptySeq
  <2>. QED
    BY <1>2, <2>1 DEF EndOf, Place
<1>5. ASSUME NEW k \in 1 .. n + 1 PROVE Source(longer[k]) = Place(start, longer, k - 1)
  <2>1. \A m \in 0 .. n : Place(start, longer, m) = Place(start, steps, m)
    BY <1>3 DEF Place
  <2>2. CASE k = n + 1
    BY <1>3, <1>4, <2>1, <2>2
  <2>3. CASE k # n + 1
    <3>1. k \in 1 .. n /\ k - 1 \in 0 .. n
      BY <2>3
    <3>2. Source(steps[k]) = Place(start, steps, k - 1)
      BY <1>2, <3>1 DEF IsWalk
    <3>. QED
      BY <1>3, <2>1, <3>1, <3>2
  <2>. QED
    BY <2>2, <2>3
<1>. QED
  BY <1>3, <1>5 DEF WalksOf, IsWalk

LEMMA FurtherWalks ==
    ASSUME NEW start, NEW n \in Nat, NEW walks \in SUBSET WalksOf(start, n)
    PROVE  Further(start, walks) \in SUBSET WalksOf(start, n + 1)
<1>. SUFFICES ASSUME NEW longer \in Further(start, walks) PROVE longer \in WalksOf(start, n + 1)
  OBVIOUS
<1>1. PICK steps \in walks, st \in Steps :
          longer = Append(steps, st) /\ Source(st) = EndOf(start, steps)
  BY DEF Further
<1>. QED
  BY <1>1, AppendWalk

IsFrom(d, start, hops) ==
    d = [n \in 0 .. hops |-> IF n = 0 THEN {<<>>} ELSE Further(start, d[n - 1])]

LEMMA WalksAreWalks ==
    ASSUME NEW start, NEW hops \in Nat PROVE Walks(start, hops) \in SUBSET WalksOf(start, hops)
<1>. DEFINE V == SUBSET Seq(Steps)
            move == [v \in V |-> Further(start, v)]
            step == [n \in 1 .. hops |-> move]
            d == CHOOSE d : IsFrom(d, start, hops)
<1>1. \A v \in V : Further(start, v) \in V
  <2>1. TAKE v \in V
  <2>2. ASSUME NEW steps \in v, NEW st \in Steps PROVE Append(steps, st) \in Seq(Steps)
    BY AppendProperties
  <2>. QED
    BY <2>2 DEF Further
<1>2. step \in [1 .. hops -> [V -> V]] /\ {<<>>} \in V
  <2>1. move \in [V -> V]
    BY <1>1
  <2>. HIDE DEF move
  <2>. QED
    BY <2>1, EmptySeq
<1>3. PICK g \in [0 .. hops -> V] : Goes(g, hops, {<<>>}, step)
  <2>. HIDE DEF V, step
  <2>. QED
    BY <1>2, StepsLead
<1>4. \A n \in 1 .. hops : g[n] = Further(start, g[n - 1])
  <2>1. TAKE n \in 1 .. hops
  <2>2. g[n - 1] \in V
    OBVIOUS
  <2>3. g[n] = move[g[n - 1]]
    BY <1>3 DEF Goes
  <2>. HIDE DEF V
  <2>. QED
    BY <2>2, <2>3
<1>5. IsFrom(g, start, hops)
  BY <1>3, <1>4 DEF IsFrom, Goes
<1>6. IsFrom(d, start, hops)
  BY <1>5
<1>7. Walks(start, hops) = d[hops]
  BY DEF Walks, IsFrom
<1>. HIDE DEF d
<1>. DEFINE Good == {n \in 0 .. hops : d[n] \in SUBSET WalksOf(start, n)}
<1>8. 0 \in Good
  <2>1. <<>> \in WalksOf(start, 0)
    BY EmptySeq DEF WalksOf, IsWalk
  <2>. QED
    BY <1>6, <2>1 DEF IsFrom
<1>9. ASSUME NEW n \in 0 .. hops - 1, n \in Good PROVE n + 1 \in Good
  <2>1. n + 1 \in 0 .. hops /\ n + 1 # 0 /\ (n + 1) - 1 = n /\ n \in Nat
    OBVIOUS
  <2>2. d[n + 1] = Further(start, d[n])
    BY <1>6, <2>1 DEF IsFrom
  <2>. QED
    BY <1>9, <2>1, <2>2, FurtherWalks
<1>10. 0 .. hops \subseteq Good
  <2>. HIDE DEF Good
  <2>. QED
    BY <1>8, <1>9, UpTo
<1>. QED
  BY <1>7, <1>10

(***************************************************************************)
(* What relations denote.                                                  *)
(***************************************************************************)

\* p goes along n of these relations, from the start
GoesAlong(p, start, relations, n) ==
    /\ p \in [0 .. n -> Real] /\ p[0] = start
    /\ \A k \in 1 .. n : \E f \in Live : Holds(f, p[k - 1], relations[k], p[k])

\* the entities that n of these relations lead to
Led(start, relations, n) == {y \in Real : \E p : GoesAlong(p, start, relations, n) /\ p[n] = y}

LEMMA LedNowhere == ASSUME NEW start \in Real, NEW relations PROVE Led(start, relations, 0) = {start}
<1>. DEFINE p == [k \in 0 .. 0 |-> start]
<1>1. p \in [0 .. 0 -> Real] /\ p[0] = start /\ 1 .. 0 = {}
  OBVIOUS
<1>. HIDE DEF p
<1>2. GoesAlong(p, start, relations, 0)
  BY <1>1 DEF GoesAlong
<1>. QED
  BY <1>1, <1>2 DEF Led, GoesAlong

LEMMA LedFurther ==
    ASSUME WorldInv, NEW start \in Real, NEW n \in Nat, NEW relations, relations[n + 1] \in Relations
    PROVE  Led(start, relations, n + 1) = Reach(Led(start, relations, n), relations[n + 1])
<1>. DEFINE r == relations[n + 1]
<1>1. ASSUME NEW y \in Led(start, relations, n + 1)
      PROVE  \E x \in Led(start, relations, n) : \E f \in Live : Holds(f, x, r, y)
  <2>1. PICK p : GoesAlong(p, start, relations, n + 1) /\ p[n + 1] = y
    BY DEF Led
  <2>2. /\ p \in [0 .. n + 1 -> Real] /\ p[0] = start
        /\ \A k \in 1 .. n + 1 : \E f \in Live : Holds(f, p[k - 1], relations[k], p[k])
    BY <2>1 DEF GoesAlong
  <2>. DEFINE q == [k \in 0 .. n |-> p[k]]
  <2>3. q \in [0 .. n -> Real] /\ q[0] = start /\ q[n] = p[n] /\ p[n] \in Real
    BY <2>2
  <2>4. \A k \in 1 .. n : k \in 1 .. n + 1 /\ q[k - 1] = p[k - 1] /\ q[k] = p[k]
    OBVIOUS
  <2>. HIDE DEF q
  <2>5. GoesAlong(q, start, relations, n)
    BY <2>2, <2>3, <2>4 DEF GoesAlong
  <2>6. p[n] \in Led(start, relations, n)
    BY <2>3, <2>5 DEF Led
  <2>7. n + 1 \in 1 .. n + 1 /\ (n + 1) - 1 = n
    OBVIOUS
  <2>8. \E f \in Live : Holds(f, p[n], r, y)
    BY <2>1, <2>2, <2>7
  <2>. QED
    BY <2>6, <2>8
<1>2. ASSUME NEW x \in Led(start, relations, n), NEW f \in Live, NEW y \in Real, Holds(f, x, r, y)
      PROVE  y \in Led(start, relations, n + 1)
  <2>1. PICK p : GoesAlong(p, start, relations, n) /\ p[n] = x
    BY DEF Led
  <2>2. /\ p \in [0 .. n -> Real] /\ p[0] = start
        /\ \A k \in 1 .. n : \E g \in Live : Holds(g, p[k - 1], relations[k], p[k])
    BY <2>1 DEF GoesAlong
  <2>. DEFINE q == [k \in 0 .. n + 1 |-> IF k = n + 1 THEN y ELSE p[k]]
  <2>3. q \in [0 .. n + 1 -> Real] /\ q[0] = start /\ q[n + 1] = y /\ q[n] = x
    BY <2>1, <2>2
  <2>4. \A k \in 1 .. n + 1 : k = n + 1 \/ (k \in 1 .. n /\ q[k - 1] = p[k - 1] /\ q[k] = p[k])
    OBVIOUS
  <2>. HIDE DEF q
  <2>5. \A k \in 1 .. n + 1 : \E g \in Live : Holds(g, q[k - 1], relations[k], q[k])
    <3>1. TAKE k \in 1 .. n + 1
    <3>2. CASE k = n + 1
      <4>1. k - 1 = n
        BY <3>2
      <4>. QED
        BY <1>2, <2>3, <3>2, <4>1
    <3>. QED
      BY <2>2, <2>4, <3>2
  <2>6. GoesAlong(q, start, relations, n + 1)
    BY <2>3, <2>5 DEF GoesAlong
  <2>. QED
    BY <2>3, <2>6 DEF Led
<1>3. Led(start, relations, n + 1) \in SUBSET Real
  BY DEF Led
<1>. HIDE DEF r
<1>4. r \in Relations
  BY DEF r
<1>5. Led(start, relations, n + 1) = Reach(Led(start, relations, n), r)
  BY <1>1, <1>2, <1>3, <1>4, ReachIs
<1>. QED
  BY <1>5 DEF r

\* Only the relations gone along matter.
LEMMA LedSame ==
    ASSUME NEW start, NEW n \in Nat, NEW R, NEW S, \A k \in 1 .. n : R[k] = S[k]
    PROVE  Led(start, R, n) = Led(start, S, n)
<1>1. \A p : GoesAlong(p, start, R, n) <=> GoesAlong(p, start, S, n)
  BY DEF GoesAlong
<1>. QED
  BY <1>1 DEF Led

LEMMA DenotedIs ==
    ASSUME WorldInv, NEW start, NEW relations, NEW n \in Nat, Len(relations) = n
    PROVE  Denoted(start, relations, EndYear) = Led(start, relations, n)
<1>1. Live = TrueIn(EndYear)
  BY LiveIs
<1>. DEFINE fits(q) == /\ q[0] = start
                       /\ \A i \in 1 .. n : \E f \in TrueIn(EndYear) : Holds(f, q[i - 1], relations[i], q[i])
<1>2. Denoted(start, relations, EndYear) = {p[n] : p \in {q \in [0 .. n -> Real] : fits(q)}}
  BY DEF Denoted
<1>3. \A q : q \in [0 .. n -> Real] /\ fits(q) <=> GoesAlong(q, start, relations, n)
  BY <1>1 DEF GoesAlong
<1>. HIDE DEF fits
<1>4. n \in 0 .. n
  OBVIOUS
<1>. QED
  BY <1>2, <1>3, <1>4 DEF Led

IsFrontier(d, start, steps) ==
    d = [n \in 0 .. Len(steps) |->
            IF n = 0 THEN {start} ELSE Reach(d[n - 1], Relation(steps[n]))]

LEMMA RelationsOfSteps ==
    ASSUME NEW steps \in Seq(Steps)
    PROVE  /\ Len(RelationsOf(steps)) = Len(steps) /\ Len(FactsOf(steps)) = Len(steps)
           /\ FactsOf(steps) \in Seq(Live)
           /\ Len(steps) \in Nat
           /\ \A k \in 1 .. Len(steps) : /\ RelationsOf(steps)[k] = Relation(steps[k])
                                         /\ RelationsOf(steps)[k] \in Relations
                                         /\ FactsOf(steps)[k] = steps[k].fact
                                         /\ steps[k] \in Steps
<1>1. Len(steps) \in Nat /\ DOMAIN steps = 1 .. Len(steps) /\ \A k \in 1 .. Len(steps) : steps[k] \in Steps
  BY LenProperties, ElementOfSeq
<1>2. RelationsOf(steps) \in Seq(Relations) /\ Len(RelationsOf(steps)) = Len(steps)
  <2>1. \A k \in 1 .. Len(steps) : Relation(steps[k]) \in Relations
    BY <1>1 DEF Relations
  <2>2. RelationsOf(steps) = [k \in 1 .. Len(steps) |-> Relation(steps[k])]
    BY <1>1 DEF RelationsOf
  <2>. QED
    BY <1>1, <2>1, <2>2, IsASeq
<1>3. Len(FactsOf(steps)) = Len(steps) /\ FactsOf(steps) \in Seq(Live)
  <2>1. \A k \in 1 .. Len(steps) : steps[k].fact \in Live
    BY <1>1 DEF Steps
  <2>2. FactsOf(steps) = [k \in 1 .. Len(steps) |-> steps[k].fact]
    BY <1>1 DEF FactsOf
  <2>. QED
    BY <1>1, <2>1, <2>2, IsASeq
<1>. QED
  BY <1>1, <1>2, <1>3 DEF RelationsOf, FactsOf, Relations

\* A walk that leads only there leads there and nowhere else.
LEMMA LeadsOnlyThereIs ==
    ASSUME WorldInv, NEW start \in Real, NEW steps \in Seq(Steps), LeadsOnlyThere(start, steps)
    PROVE  Led(start, RelationsOf(steps), Len(steps)) = {EndOf(start, steps)}
<1>. DEFINE N1 == Len(steps)
            V == SUBSET Real
            step == [n \in 1 .. N1 |-> [v \in V |-> Reach(v, Relation(steps[n]))]]
            d == CHOOSE d : IsFrontier(d, start, steps)
            R == RelationsOf(steps)
<1>1. N1 \in Nat /\ \A k \in 1 .. N1 : R[k] = Relation(steps[k]) /\ R[k] \in Relations
  BY RelationsOfSteps
<1>2. PICK g \in [0 .. N1 -> V] : Goes(g, N1, {start}, step)
  <2>1. ASSUME NEW n \in 1 .. N1, NEW v \in V PROVE Reach(v, Relation(steps[n])) \in V
    BY <1>1, ReachIs
  <2>2. step \in [1 .. N1 -> [V -> V]] /\ {start} \in V
    BY <2>1
  <2>. HIDE DEF V, step, N1
  <2>. QED
    BY <1>1, <2>2, StepsLead
<1>3. \A n \in 1 .. N1 : g[n] = Reach(g[n - 1], Relation(steps[n]))
  <2>1. TAKE n \in 1 .. N1
  <2>2. n - 1 \in 0 .. N1
    BY <1>1
  <2>3. g[n - 1] \in V
    BY <2>2
  <2>4. g[n] = step[n][g[n - 1]]
    BY <1>2 DEF Goes
  <2>. HIDE DEF V
  <2>. QED
    BY <2>3, <2>4
<1>4. IsFrontier(g, start, steps)
  <2>1. \A n \in 0 .. N1 : n = 0 \/ n \in 1 .. N1
    BY <1>1
  <2>2. g = [n \in 0 .. N1 |-> g[n]] /\ g[0] = {start}
    BY <1>2 DEF Goes
  <2>3. g = [n \in 0 .. N1 |-> IF n = 0 THEN {start} ELSE Reach(g[n - 1], Relation(steps[n]))]
    BY <1>3, <2>1, <2>2
  <2>. QED
    BY <2>3 DEF IsFrontier
<1>5. IsFrontier(d, start, steps)
  BY <1>4
<1>6. d[N1] = {EndOf(start, steps)}
  BY DEF LeadsOnlyThere, IsFrontier
<1>. HIDE DEF d
<1>7. /\ d[0] = {start}
      /\ \A n \in 0 .. N1 - 1 : d[n + 1] = Reach(d[n], Relation(steps[n + 1]))
  <2>1. \A n \in 0 .. N1 - 1 : n + 1 \in 0 .. N1 /\ n + 1 # 0 /\ (n + 1) - 1 = n
    BY <1>1
  <2>2. 0 \in 0 .. N1
    BY <1>1
  <2>. QED
    BY <1>5, <2>1, <2>2 DEF IsFrontier
<1>. DEFINE Good == {n \in 0 .. N1 : d[n] = Led(start, R, n)}
<1>8. 0 \in Good
  <2>1. Led(start, R, 0) = {start}
    BY LedNowhere
  <2>2. 0 \in 0 .. N1
    BY <1>1
  <2>. HIDE DEF R, N1
  <2>. QED
    BY <1>7, <2>1, <2>2
<1>9. ASSUME NEW n \in 0 .. N1 - 1, n \in Good PROVE n + 1 \in Good
  <2>1. n + 1 \in 1 .. N1 /\ n + 1 \in 0 .. N1 /\ n \in Nat
    BY <1>1
  <2>2. R[n + 1] = Relation(steps[n + 1]) /\ R[n + 1] \in Relations
    BY <1>1, <2>1
  <2>. HIDE DEF R, N1
  <2>3. Led(start, R, n + 1) = Reach(Led(start, R, n), R[n + 1])
    BY <2>1, <2>2, LedFurther
  <2>. QED
    BY <1>7, <1>9, <2>1, <2>2, <2>3
<1>10. 0 .. N1 \subseteq Good
  <2>. HIDE DEF Good, N1
  <2>. QED
    BY <1>1, <1>8, <1>9, UpTo
<1>. QED
  BY <1>1, <1>6, <1>10

(***************************************************************************)
(* What makes a question right, kind by kind.                              *)
(***************************************************************************)
DenotedRight(q) ==
    /\ q.answers = Denoted(q.start, q.relations, EndYear)
    /\ q.kind = "entity" => Cardinality(q.answers) = 1
    /\ q.kind = "count" => q.number = Cardinality(q.answers)
    /\ \A path \in q.paths : Len(path) = q.hops /\ Supports(path, q)
    /\ Cardinality(q.paths) = Cardinality(q.answers)

AloneRight(q) ==
    \A i \in Real \ q.answers : \A top \in q.answers :
        CountOf(i, q.relations[1]) < CountOf(top, q.relations[1])

MoreRight(q) ==
    \E loser \in Real : \A winner \in q.answers :
        /\ CountOf(loser, q.relations[1]) < CountOf(winner, q.relations[1])
        /\ Cardinality(q.paths)
              = CountOf(loser, q.relations[1]) + CountOf(winner, q.relations[1])

NeverRight(q) == \A year \in StartYear .. EndYear : Denoted(q.start, q.relations, year) = {}

PremiseRight(q) ==
    /\ \A f \in facts : TripleOf(f) # q.claim
    /\ \A path \in q.paths :
        /\ path[1] \in TrueIn(EndYear)
        /\ Cardinality(Denoted(q.start, q.relations, EndYear)) = 1

DatedRight(q) ==
    /\ q.kind = "as_of" => TopicIn(q, q.year) = q.answers /\ Cardinality(q.answers) = 1
    /\ q.kind = "latest" => TopicIn(q, EndYear) = q.answers /\ Cardinality(q.answers) = 1
    /\ q.kind = "retracted" => TopicIn(q, EndYear) = {}
    /\ q.stale \cap q.answers = {}
    /\ \A x \in q.stale : \E year \in StartYear .. EndYear : x \in TopicIn(q, year)

ShortestRight(q) ==
    \A end \in q.answers :
        /\ q.paths = ChainsBetween(q.start, end, q.hops)
        /\ \A n \in 0 .. q.hops - 1 : ChainsBetween(q.start, end, n) = {}

FairRight(q) ==
    /\ q.required \subseteq TrueIn(EndYear) /\ q.required # {}
    /\ \A f \in q.forbidden :
        /\ f \notin TrueIn(EndYear)
        /\ \A x \in TrueIn(EndYear) : Ends(x) # Ends(f)

\* its relations are of live facts, and so is each path
ChainShaped(q) ==
    /\ q.hops \in Nat \ {0} /\ q.start \in Real
    /\ Len(q.relations) = q.hops
    /\ \A k \in 1 .. q.hops : q.relations[k] \in Relations
    /\ \A path \in q.paths : path \in Seq(Live)

Right(q) ==
    /\ q.kind \in {"entity", "set", "count"} => DenotedRight(q) /\ ChainShaped(q)
    /\ q.kind = "superlative" => AloneRight(q)
    /\ q.kind = "compare" => MoreRight(q)
    /\ q.kind = "unanswerable" => NeverRight(q)
    /\ q.kind = "false_premise" => PremiseRight(q)
    /\ q.kind \in {"as_of", "latest", "retracted"} => DatedRight(q)
    /\ q.kind = "path" => ShortestRight(q)
    /\ q.kind = "open_ended" => FairRight(q)

\* a new question is kept, and it is right
KeepsRight(job) == \E q : Keep(job, q) /\ q \notin asked /\ Right(q)

(***************************************************************************)
(* Questions that follow relations.                                        *)
(***************************************************************************)

\* A walk's facts are a path of gold.
LEMMA WalkSupports ==
    ASSUME WorldInv, NEW start \in Real, NEW n \in Nat, NEW steps \in WalksOf(start, n), NEW q,
           q.start = start, EndOf(start, steps) \in q.answers,
           \A k \in 1 .. n : q.relations[k] = Relation(steps[k])
    PROVE  Len(FactsOf(steps)) = n /\ Supports(FactsOf(steps), q)
<1>1. steps \in Seq(Steps) /\ Len(steps) = n /\ IsWalk(start, steps)
  BY DEF WalksOf
<1>2. /\ Len(FactsOf(steps)) = n
      /\ \A k \in 1 .. n : FactsOf(steps)[k] = steps[k].fact /\ steps[k] \in Steps
  BY <1>1, RelationsOfSteps
<1>. DEFINE p == [k \in 0 .. n |-> Place(start, steps, k)]
<1>3. p \in [0 .. n -> Real] /\ p[0] = start
  <2>1. \A k \in 0 .. n : k = 0 \/ k \in 1 .. n
    OBVIOUS
  <2>2. \A k \in 0 .. n : Place(start, steps, k) \in Real
    BY <1>2, <2>1, StepFields DEF Place
  <2>. QED
    BY <2>2 DEF Place
<1>4. p[n] = EndOf(start, steps)
  <2>1. steps = <<>> <=> n = 0
    BY <1>1, EmptySeq
  <2>. QED
    BY <1>1, <2>1 DEF EndOf, Place
<1>5. ASSUME NEW k \in 1 .. n
      PROVE  /\ FactsOf(steps)[k] \in TrueIn(EndYear)
             /\ Holds(FactsOf(steps)[k], p[k - 1], q.relations[k], p[k])
  <2>1. p[k] = Target(steps[k]) /\ p[k - 1] = Source(steps[k])
    <3>1. k \in 0 .. n /\ k - 1 \in 0 .. n /\ k # 0
      OBVIOUS
    <3>2. p[k] = Place(start, steps, k) /\ p[k - 1] = Place(start, steps, k - 1)
      BY <3>1
    <3>3. Place(start, steps, k) = Target(steps[k])
      BY <3>1 DEF Place
    <3>4. Source(steps[k]) = Place(start, steps, k - 1)
      BY <1>1 DEF IsWalk
    <3>. QED
      BY <3>2, <3>3, <3>4
  <2>. HIDE DEF p
  <2>. QED
    BY <1>2, <2>1, StepFields, LiveIs
<1>. HIDE DEF p
<1>. QED
  BY <1>2, <1>3, <1>4, <1>5 DEF Supports

LEMMA StartIsReal == \A start \in Starts : start \in Real
BY DEF Starts

LEMMA OneElement == \A x : Cardinality({x}) = 1
BY FS_Singleton

LEMMA AskEntityRight ==
    ASSUME WorldInv, NEW job, job.hops \in Nat \ {0}, AskEntity(job) PROVE KeepsRight(job)
<1>1. PICK start \in Starts : \E steps \in Walks(start, job.hops) :
        /\ LeadsOnlyThere(start, steps)
        /\ New("entity", LAMBDA q : q.start = start /\ q.paths = {FactsOf(steps)})
        /\ Keep(job, [Blank EXCEPT !.hops = job.hops, !.start = start,
                        !.relations = RelationsOf(steps),
                        !.answers = {EndOf(start, steps)}, !.paths = {FactsOf(steps)}])
  BY DEF AskEntity
<1>2. PICK steps \in Walks(start, job.hops) :
        /\ LeadsOnlyThere(start, steps)
        /\ New("entity", LAMBDA q : q.start = start /\ q.paths = {FactsOf(steps)})
        /\ Keep(job, [Blank EXCEPT !.hops = job.hops, !.start = start,
                        !.relations = RelationsOf(steps),
                        !.answers = {EndOf(start, steps)}, !.paths = {FactsOf(steps)}])
  BY <1>1
<1>. DEFINE q0 == [Blank EXCEPT !.hops = job.hops, !.start = start,
                        !.relations = RelationsOf(steps),
                        !.answers = {EndOf(start, steps)}, !.paths = {FactsOf(steps)}]
<1>3. /\ q0.kind = "entity" /\ q0.hops = job.hops /\ q0.start = start
      /\ q0.relations = RelationsOf(steps) /\ q0.answers = {EndOf(start, steps)}
      /\ q0.paths = {FactsOf(steps)}
  BY DEF Blank
<1>4. q0 \notin asked
  BY <1>2, <1>3 DEF New
<1>5. Keep(job, q0)
  BY <1>2
<1>. HIDE DEF q0
<1>6. start \in Real /\ steps \in WalksOf(start, job.hops)
  BY StartIsReal, WalksAreWalks
<1>7. steps \in Seq(Steps) /\ Len(steps) = job.hops
  BY <1>6 DEF WalksOf
<1>8. Denoted(start, RelationsOf(steps), EndYear) = {EndOf(start, steps)}
  <2>1. Led(start, RelationsOf(steps), job.hops) = {EndOf(start, steps)}
    BY <1>2, <1>6, <1>7, LeadsOnlyThereIs
  <2>2. Len(RelationsOf(steps)) = job.hops
    BY <1>7, RelationsOfSteps
  <2>. QED
    BY <2>1, <2>2, DenotedIs
<1>9. Len(FactsOf(steps)) = job.hops /\ Supports(FactsOf(steps), q0)
  <2>1. \A k \in 1 .. job.hops : q0.relations[k] = Relation(steps[k])
    BY <1>3, <1>7, RelationsOfSteps
  <2>2. EndOf(start, steps) \in q0.answers
    BY <1>3
  <2>. QED
    BY <1>3, <1>6, <2>1, <2>2, WalkSupports
<1>10. DenotedRight(q0)
  BY <1>3, <1>8, <1>9, OneElement DEF DenotedRight
<1>11. ChainShaped(q0)
  <2>1. \A k \in 1 .. job.hops : RelationsOf(steps)[k] \in Relations
    BY <1>7, RelationsOfSteps
  <2>2. Len(RelationsOf(steps)) = job.hops /\ FactsOf(steps) \in Seq(Live)
    BY <1>7, RelationsOfSteps
  <2>. QED
    BY <1>3, <1>6, <2>1, <2>2 DEF ChainShaped
<1>12. Right(q0)
  BY <1>3, <1>10, <1>11 DEF Right
<1>. QED
  BY <1>4, <1>5, <1>12 DEF KeepsRight

\* what every x of S has a y of its own for, none left out
OneToOne(g, S, T) ==
    /\ g \in [S -> T]
    /\ \A t \in T : \E x \in S : g[x] = t
    /\ \A x, y \in S : g[x] = g[y] => x = y

LEMMA SameSize ==
    ASSUME NEW S, NEW T, NEW g, IsFiniteSet(S), OneToOne(g, S, T)
    PROVE  IsFiniteSet(T) /\ Cardinality(T) = Cardinality(S)
<1>1. T = {g[x] : x \in S}
  BY DEF OneToOne
<1>2. \A x, y \in S : g[x] = g[y] => x = y
  BY DEF OneToOne
<1>. QED
  BY <1>1, <1>2, ImageSize

\* the other end of a fact that a relation holds for
Far(f, r) == IF r.forward THEN f.object ELSE f.subject

LEMMA FactsForIs ==
    ASSUME WorldInv, NEW r \in Relations, NEW i
    PROVE  /\ FactsFor(i, r) \in SUBSET Live /\ IsFiniteSet(FactsFor(i, r))
           /\ \A f \in Live : f \in FactsFor(i, r) <=> \E y : Holds(f, i, r, y)
           /\ \A f \in Live : f \in FactsFor(i, r) <=> \E y \in Real : Holds(f, i, r, y)
           /\ \A f \in FactsFor(i, r) : Holds(f, i, r, Far(f, r)) /\ Far(f, r) \in Real
<1>1. ASSUME NEW f \in FactsFor(i, r)
      PROVE  f \in Live /\ Holds(f, i, r, Far(f, r)) /\ Far(f, r) \in Real
  <2>1. PICK st \in Steps : Relation(st) = r /\ Source(st) = i /\ f = st.fact
    BY DEF FactsFor
  <2>2. f \in Live /\ Holds(f, i, r, Target(st)) /\ Target(st) \in Real
    BY <2>1, StepFields
  <2>3. Far(f, r) = Target(st)
    BY <2>2 DEF Holds, Far
  <2>. QED
    BY <2>2, <2>3
<1>2. ASSUME NEW f \in Live, NEW y, Holds(f, i, r, y) PROVE f \in FactsFor(i, r)
  BY <1>2, HoldsIsStep DEF FactsFor
<1>3. FactsFor(i, r) \in SUBSET Live
  BY <1>1
<1>4. IsFiniteSet(FactsFor(i, r))
  BY <1>3, LiveIs, FS_Subset
<1>. QED
  BY <1>1, <1>2, <1>3, <1>4

\* A relation holds between two entities by one fact at most.
LEMMA HoldsOnce ==
    ASSUME WorldInv, NEW r, NEW x, NEW y, NEW f \in Live, NEW g \in Live,
           Holds(f, x, r, y), Holds(g, x, r, y)
    PROVE  f = g
<1>1. f \in facts /\ g \in facts
  BY LiveIs
<1>2. TripleOf(f) = TripleOf(g)
  BY DEF Holds, TripleOf, Triple
<1>. QED
  BY <1>1, <1>2 DEF WorldInv, FactsInv

LEMMA MembersAreFacts ==
    ASSUME WorldInv, NEW r \in Relations, NEW i
    PROVE  Cardinality(Reach({i}, r)) = Cardinality(FactsFor(i, r))
<1>1. Reach({i}, r) = {Far(f, r) : f \in FactsFor(i, r)}
  <2>1. ASSUME NEW y \in Reach({i}, r) PROVE \E f \in FactsFor(i, r) : y = Far(f, r)
    <3>1. PICK f \in Live : Holds(f, i, r, y)
      BY ReachIs
    <3>2. f \in FactsFor(i, r)
      BY <3>1, FactsForIs
    <3>3. y = Far(f, r)
      BY <3>1 DEF Holds, Far
    <3>. QED
      BY <3>2, <3>3
  <2>2. ASSUME NEW f \in FactsFor(i, r) PROVE Far(f, r) \in Reach({i}, r)
    BY FactsForIs, ReachIs
  <2>. QED
    BY <2>1, <2>2
<1>. DEFINE g == [f \in FactsFor(i, r) |-> Far(f, r)]
<1>2. \A f, h \in FactsFor(i, r) : Far(f, r) = Far(h, r) => f = h
  <2>1. TAKE f, h \in FactsFor(i, r)
  <2>2. f \in Live /\ h \in Live /\ Holds(f, i, r, Far(f, r)) /\ Holds(h, i, r, Far(h, r))
    BY FactsForIs
  <2>. QED
    BY <2>2, HoldsOnce
<1>3. OneToOne(g, FactsFor(i, r), Reach({i}, r))
  BY <1>1, <1>2 DEF OneToOne
<1>. HIDE DEF g
<1>. QED
  BY <1>3, FactsForIs, SameSize

\* A walk but for its last step.
LEMMA LeadIsWalk ==
    ASSUME NEW start, NEW n \in Nat, NEW steps \in WalksOf(start, n + 1)
    PROVE  LET lead == SubSeq(steps, 1, n)
           IN  lead \in WalksOf(start, n) /\ \A k \in 1 .. n : lead[k] = steps[k]
<1>. DEFINE lead == SubSeq(steps, 1, n)
<1>1. steps \in Seq(Steps) /\ Len(steps) = n + 1 /\ IsWalk(start, steps)
  BY DEF WalksOf
<1>2. lead \in Seq(Steps) /\ Len(lead) = n /\ \A k \in 1 .. n : lead[k] = steps[k]
  BY <1>1, SubSeqProperties
<1>3. ASSUME NEW k \in 1 .. n PROVE Source(lead[k]) = Place(start, lead, k - 1)
  <2>1. k \in 1 .. n + 1 /\ (k - 1 = 0 \/ k - 1 \in 1 .. n)
    OBVIOUS
  <2>2. Source(steps[k]) = Place(start, steps, k - 1)
    BY <1>1, <2>1 DEF IsWalk
  <2>. QED
    BY <1>2, <2>1, <2>2 DEF Place
<1>. QED
  BY <1>2, <1>3 DEF WalksOf, IsWalk

\* what a set question is about: where its walk leads but for the last step, and the last relation
SetParts(start, n, steps, lead, last, paths) ==
    /\ lead \in WalksOf(start, n) /\ last \in Relations
    /\ \A k \in 1 .. n : lead[k] = steps[k]
    /\ last = Relation(steps[n + 1])
    /\ paths = {Append(FactsOf(lead), f) : f \in FactsFor(EndOf(start, lead), last)}

\* Its answers are what the whole walk's relations denote.
LEMMA SetIsDenoted ==
    ASSUME WorldInv, NEW start \in Real, NEW n \in Nat, NEW steps \in WalksOf(start, n + 1),
           NEW lead, NEW last, NEW paths, SetParts(start, n, steps, lead, last, paths),
           LeadsOnlyThere(start, lead)
    PROVE  Denoted(start, RelationsOf(steps), EndYear) = Reach({EndOf(start, lead)}, last)
<1>. DEFINE R == RelationsOf(steps)
            L == RelationsOf(lead)
<1>1. steps \in Seq(Steps) /\ Len(steps) = n + 1 /\ lead \in Seq(Steps) /\ Len(lead) = n
  BY DEF SetParts, WalksOf
<1>2. /\ Len(R) = n + 1 /\ R[n + 1] = Relation(steps[n + 1]) /\ R[n + 1] \in Relations
      /\ \A k \in 1 .. n : R[k] = Relation(steps[k]) /\ L[k] = Relation(lead[k])
  <2>1. /\ Len(R) = n + 1
        /\ \A k \in 1 .. n + 1 : R[k] = Relation(steps[k]) /\ R[k] \in Relations
    BY <1>1, RelationsOfSteps
  <2>2. \A k \in 1 .. n : L[k] = Relation(lead[k])
    BY <1>1, RelationsOfSteps
  <2>. HIDE DEF R, L
  <2>. QED
    BY <2>1, <2>2
<1>. HIDE DEF R, L
<1>3. Led(start, L, n) = {EndOf(start, lead)}
  BY <1>1, LeadsOnlyThereIs DEF L
<1>4. Led(start, R, n) = {EndOf(start, lead)}
  <2>1. \A k \in 1 .. n : R[k] = L[k]
    BY <1>2 DEF SetParts
  <2>. QED
    BY <1>3, <2>1, LedSame
<1>5. Led(start, R, n + 1) = Reach({EndOf(start, lead)}, last)
  <2>1. Led(start, R, n + 1) = Reach(Led(start, R, n), R[n + 1])
    BY <1>2, LedFurther
  <2>2. R[n + 1] = last
    BY <1>2 DEF SetParts
  <2>. QED
    BY <1>4, <2>1, <2>2
<1>6. Denoted(start, R, EndYear) = Led(start, R, n + 1)
  BY <1>2, DenotedIs
<1>. QED
  BY <1>5, <1>6 DEF R

AllSupport(paths, n, q) ==
    /\ \A path \in paths : Len(path) = n /\ Supports(path, q) /\ path \in Seq(Live)
    /\ Cardinality(paths) = Cardinality(q.answers)

\* Each of its paths supports one of its answers, and there are as many.
LEMMA SetIsSupported ==
    ASSUME WorldInv, NEW start \in Real, NEW n \in Nat, NEW steps \in WalksOf(start, n + 1),
           NEW lead, NEW last, NEW paths, SetParts(start, n, steps, lead, last, paths), NEW q,
           q.start = start, q.relations = RelationsOf(steps),
           q.answers = Reach({EndOf(start, lead)}, last)
    PROVE  AllSupport(paths, n + 1, q)
<1>. DEFINE end == EndOf(start, lead)
            own == FactsFor(end, last)
<1>0. last \in Relations /\ lead \in WalksOf(start, n) /\ lead \in Seq(Steps) /\ Len(lead) = n
  BY DEF SetParts, WalksOf
<1>1. FactsOf(lead) \in Seq(Live) /\ Len(FactsOf(lead)) = n
  <2>1. FactsOf(lead) = [k \in 1 .. n |-> lead[k].fact]
    BY <1>0, LenProperties DEF FactsOf
  <2>2. \A k \in 1 .. n : lead[k].fact \in Live
    BY <1>0, RelationsOfSteps DEF Steps
  <2>. QED
    BY <2>1, <2>2, IsASeq
<1>2. ASSUME NEW f \in own
      PROVE  /\ Len(Append(FactsOf(lead), f)) = n + 1 /\ Supports(Append(FactsOf(lead), f), q)
             /\ Append(FactsOf(lead), f) \in Seq(Live)
  <2>1. PICK st \in Steps : Relation(st) = last /\ Source(st) = end /\ f = st.fact
    BY DEF FactsFor
  <2>. DEFINE walk == Append(lead, st)
  <2>2. walk \in WalksOf(start, n + 1)
    BY <1>0, <2>1, AppendWalk
  <2>3. walk \in Seq(Steps) /\ Len(walk) = n + 1 /\ walk[n + 1] = st
        /\ \A k \in 1 .. n : walk[k] = lead[k]
    BY <1>0, AppendProperties
  <2>. HIDE DEF walk
  <2>4. FactsOf(walk) = Append(FactsOf(lead), f)
    <3>1. \A k \in 1 .. n + 1 : k = n + 1 \/ k \in 1 .. n
      OBVIOUS
    <3>2. FactsOf(walk) = [k \in 1 .. n + 1 |-> walk[k].fact]
      BY <2>3, LenProperties DEF FactsOf
    <3>3. \A k \in 1 .. n : FactsOf(lead)[k] = lead[k].fact
      BY <1>0, RelationsOfSteps
    <3>4. f \in Live
      BY <2>1 DEF Steps
    <3>5. /\ Append(FactsOf(lead), f) \in Seq(Live)
          /\ Len(Append(FactsOf(lead), f)) = n + 1
          /\ Append(FactsOf(lead), f)[n + 1] = f
          /\ \A k \in 1 .. n : Append(FactsOf(lead), f)[k] = FactsOf(lead)[k]
      BY <1>1, <3>4, AppendProperties
    <3>6. \A k \in 1 .. n + 1 : walk[k].fact = Append(FactsOf(lead), f)[k]
      BY <2>1, <2>3, <3>1, <3>3, <3>5
    <3>7. FactsOf(walk) \in Seq(Live) /\ Len(FactsOf(walk)) = n + 1
      <4>1. \A k \in 1 .. n + 1 : walk[k].fact \in Live
        BY <2>3, RelationsOfSteps DEF Steps
      <4>. QED
        BY <3>2, <4>1, IsASeq
    <3>8. \A k \in 1 .. n + 1 : FactsOf(walk)[k] = Append(FactsOf(lead), f)[k]
      BY <3>2, <3>6
    <3>. QED
      BY <3>5, <3>7, <3>8, SeqEqual
  <2>5. EndOf(start, walk) = Target(st)
    <3>1. walk # <<>>
      BY <2>3, EmptySeq
    <3>. QED
      BY <2>3, <3>1 DEF EndOf
  <2>6. Target(st) \in q.answers
    BY <2>1 DEF Reach
  <2>7. \A k \in 1 .. n + 1 : q.relations[k] = Relation(walk[k])
    <3>1. \A k \in 1 .. n + 1 : q.relations[k] = Relation(steps[k])
      BY RelationsOfSteps DEF WalksOf
    <3>2. \A k \in 1 .. n + 1 : k = n + 1 \/ k \in 1 .. n
      OBVIOUS
    <3>. QED
      BY <2>1, <2>3, <3>1, <3>2 DEF SetParts
  <2>8. Len(FactsOf(walk)) = n + 1 /\ Supports(FactsOf(walk), q)
    BY <2>2, <2>5, <2>6, <2>7, WalkSupports
  <2>9. FactsOf(walk) \in Seq(Live)
    BY <2>3, RelationsOfSteps
  <2>. QED
    BY <2>4, <2>8, <2>9
<1>3. paths = {Append(FactsOf(lead), f) : f \in own}
  BY DEF SetParts
<1>4. \A f, g \in own : Append(FactsOf(lead), f) = Append(FactsOf(lead), g) => f = g
  <2>1. TAKE f, g \in own
  <2>2. f \in Live /\ g \in Live
    BY <1>0, FactsForIs
  <2>3. Append(FactsOf(lead), f)[n + 1] = f /\ Append(FactsOf(lead), g)[n + 1] = g
    BY <1>1, <2>2, AppendProperties
  <2>. QED
    BY <2>3
<1>5. Cardinality(paths) = Cardinality(own)
  <2>. DEFINE g == [f \in own |-> Append(FactsOf(lead), f)]
  <2>1. IsFiniteSet(own)
    BY <1>0, FactsForIs
  <2>2. OneToOne(g, own, paths)
    BY <1>3, <1>4 DEF OneToOne
  <2>. HIDE DEF own, g
  <2>. QED
    BY <2>1, <2>2, SameSize
<1>6. Cardinality(q.answers) = Cardinality(own)
  BY <1>0, MembersAreFacts
<1>. QED
  BY <1>2, <1>3, <1>5, <1>6 DEF AllSupport

LEMMA AskSetRight ==
    ASSUME WorldInv, NEW job, job.hops \in Nat \ {0}, AskSet(job) PROVE KeepsRight(job)
<1>. DEFINE n == job.hops - 1
<1>1. PICK start \in Starts : \E steps \in Walks(start, job.hops) :
        LET lead == SubSeq(steps, 1, job.hops - 1)
            last == Relation(steps[job.hops])
            members == Reach({EndOf(start, lead)}, last)
            kind == IF job.kind = "count" THEN "count" ELSE "set"
            paths == {Append(FactsOf(lead), f) : f \in FactsFor(EndOf(start, lead), last)}
        IN  /\ LeadsOnlyThere(start, lead)
            /\ New(kind, LAMBDA q : q.start = start /\ q.paths = paths)
            /\ \E first \in members :
                Keep(job, [Blank EXCEPT !.kind = kind, !.hops = job.hops, !.start = start,
                             !.relations = RelationsOf(steps), !.label = type[first],
                             !.answers = members,
                             !.number = IF kind = "count" THEN Cardinality(members) ELSE 0,
                             !.paths = paths])
  BY DEF AskSet
<1>2. PICK steps \in Walks(start, job.hops) :
        LET lead == SubSeq(steps, 1, job.hops - 1)
            last == Relation(steps[job.hops])
            members == Reach({EndOf(start, lead)}, last)
            kind == IF job.kind = "count" THEN "count" ELSE "set"
            paths == {Append(FactsOf(lead), f) : f \in FactsFor(EndOf(start, lead), last)}
        IN  /\ LeadsOnlyThere(start, lead)
            /\ New(kind, LAMBDA q : q.start = start /\ q.paths = paths)
            /\ \E first \in members :
                Keep(job, [Blank EXCEPT !.kind = kind, !.hops = job.hops, !.start = start,
                             !.relations = RelationsOf(steps), !.label = type[first],
                             !.answers = members,
                             !.number = IF kind = "count" THEN Cardinality(members) ELSE 0,
                             !.paths = paths])
  BY <1>1
<1>. DEFINE lead == SubSeq(steps, 1, job.hops - 1)
            last == Relation(steps[job.hops])
            members == Reach({EndOf(start, lead)}, last)
            kind == IF job.kind = "count" THEN "count" ELSE "set"
            paths == {Append(FactsOf(lead), f) : f \in FactsFor(EndOf(start, lead), last)}
            kept(first) == [Blank EXCEPT !.kind = kind, !.hops = job.hops, !.start = start,
                             !.relations = RelationsOf(steps), !.label = type[first],
                             !.answers = members,
                             !.number = IF kind = "count" THEN Cardinality(members) ELSE 0,
                             !.paths = paths]
<1>3. /\ LeadsOnlyThere(start, lead)
      /\ New(kind, LAMBDA q : q.start = start /\ q.paths = paths)
  BY <1>2
<1>4. PICK first \in members : Keep(job, kept(first))
  BY <1>2
<1>. DEFINE q0 == kept(first)
<1>5. /\ q0.kind = kind /\ q0.hops = job.hops /\ q0.start = start
      /\ q0.relations = RelationsOf(steps) /\ q0.answers = members /\ q0.paths = paths
      /\ kind = "count" => q0.number = Cardinality(members)
  BY DEF Blank
<1>6. q0 \notin asked
  <2>. HIDE DEF kept, paths, kind
  <2>. QED
    BY <1>3, <1>5 DEF New
<1>7. n \in Nat /\ job.hops = n + 1 /\ lead = SubSeq(steps, 1, n)
  OBVIOUS
<1>8. start \in Real /\ steps \in WalksOf(start, n + 1)
  BY <1>7, StartIsReal, WalksAreWalks
<1>9. SetParts(start, n, steps, lead, last, paths)
  <2>1. lead \in WalksOf(start, n) /\ \A k \in 1 .. n : lead[k] = steps[k]
    <3>1. SubSeq(steps, 1, n) \in WalksOf(start, n)
          /\ \A k \in 1 .. n : SubSeq(steps, 1, n)[k] = steps[k]
      <4>. HIDE DEF n
      <4>. QED
        BY <1>7, <1>8, LeadIsWalk
    <3>. HIDE DEF n, lead
    <3>. QED
      BY <1>7, <3>1
  <2>2. steps[n + 1] \in Steps
    BY <1>7, <1>8, ElementOfSeq DEF WalksOf
  <2>. HIDE DEF lead
  <2>. QED
    BY <1>7, <2>1, <2>2 DEF SetParts, Relations
<1>. HIDE DEF kept, paths, lead, last, n
<1>10. Denoted(start, RelationsOf(steps), EndYear) = Reach({EndOf(start, lead)}, last)
  BY <1>3, <1>7, <1>8, <1>9, SetIsDenoted
<1>11. AllSupport(paths, n + 1, q0)
  <2>1. /\ q0.start = start /\ q0.relations = RelationsOf(steps)
        /\ q0.answers = Reach({EndOf(start, lead)}, last)
    BY <1>5
  <2>. HIDE DEF q0
  <2>. QED
    BY <1>7, <1>8, <1>9, <2>1, SetIsSupported
<1>12. kind \in {"set", "count"}
  OBVIOUS
<1>. HIDE DEF kind
<1>13. DenotedRight(q0)
  BY <1>5, <1>7, <1>10, <1>11, <1>12 DEF DenotedRight, AllSupport
<1>14. ChainShaped(q0)
  <2>1. steps \in Seq(Steps) /\ Len(steps) = job.hops
    BY <1>7, <1>8 DEF WalksOf
  <2>2. \A k \in 1 .. job.hops : RelationsOf(steps)[k] \in Relations
    BY <2>1, RelationsOfSteps
  <2>3. Len(RelationsOf(steps)) = job.hops
    BY <2>1, RelationsOfSteps
  <2>. QED
    BY <1>5, <1>8, <1>11, <2>2, <2>3 DEF ChainShaped, AllSupport
<1>15. Right(q0)
  BY <1>5, <1>12, <1>13, <1>14 DEF Right
<1>. QED
  BY <1>4, <1>6, <1>15 DEF KeepsRight

(***************************************************************************)
(* Winners and questions to decline.                                       *)
(***************************************************************************)
LEMMA CountOfIs ==
    ASSUME WorldInv, NEW r \in Relations, NEW i
    PROVE  /\ CountOf(i, r) = Cardinality(FactsFor(i, r)) /\ CountOf(i, r) \in Nat
           /\ FactsFor(i, r) = {} => CountOf(i, r) = 0
<1>1. FactsFor(i, r) = {f \in TrueIn(EndYear) : \E x \in Real : Holds(f, i, r, x)}
  BY FactsForIs, LiveIs
<1>2. CountOf(i, r) = Cardinality(FactsFor(i, r))
  BY <1>1 DEF CountOf
<1>. QED
  BY <1>2, FactsForIs, FS_CardinalityType, FS_EmptySet

LEMMA AskSuperlativeRight ==
    ASSUME WorldInv, NEW job, AskSuperlative(job) PROVE KeepsRight(job)
<1>1. PICK r \in Relations : \E top \in Holders(r) :
        /\ StrictTop(r, top)
        /\ Cardinality(FactsFor(top, r)) >= 2
        /\ UniquelyNamed(top)
        /\ New("superlative", LAMBDA q : q.relations = <<r>>)
        /\ Keep(job, [Blank EXCEPT !.kind = "superlative", !.start = top, !.relations = <<r>>,
                        !.answers = {top}, !.paths = Singles(FactsFor(top, r))])
  BY DEF AskSuperlative
<1>2. PICK top \in Holders(r) :
        /\ StrictTop(r, top)
        /\ Cardinality(FactsFor(top, r)) >= 2
        /\ New("superlative", LAMBDA q : q.relations = <<r>>)
        /\ Keep(job, [Blank EXCEPT !.kind = "superlative", !.start = top, !.relations = <<r>>,
                        !.answers = {top}, !.paths = Singles(FactsFor(top, r))])
  BY <1>1
<1>. DEFINE q0 == [Blank EXCEPT !.kind = "superlative", !.start = top, !.relations = <<r>>,
                        !.answers = {top}, !.paths = Singles(FactsFor(top, r))]
<1>3. q0.kind = "superlative" /\ q0.relations = <<r>> /\ q0.relations[1] = r /\ q0.answers = {top}
  BY DEF Blank
<1>4. q0 \notin asked /\ Keep(job, q0)
  BY <1>2, <1>3 DEF New
<1>. HIDE DEF q0
<1>5. ASSUME NEW i \in Real, i # top PROVE CountOf(i, r) < CountOf(top, r)
  <2>1. CASE i \in Holders(r)
    <3>1. Cardinality(FactsFor(i, r)) < Cardinality(FactsFor(top, r))
      BY <1>2, <1>5, <2>1 DEF StrictTop
    <3>. QED
      BY <3>1, CountOfIs
  <2>2. CASE i \notin Holders(r)
    <3>1. FactsFor(i, r) = {}
      BY <2>2 DEF Holders
    <3>2. CountOf(i, r) = 0 /\ CountOf(top, r) \in Nat /\ CountOf(top, r) >= 2
      BY <1>2, <3>1, CountOfIs
    <3>. QED
      BY <3>2
  <2>. QED
    BY <2>1, <2>2
<1>6. AloneRight(q0)
  BY <1>3, <1>5 DEF AloneRight
<1>. QED
  BY <1>3, <1>4, <1>6 DEF KeepsRight, Right

LEMMA SinglesSize ==
    ASSUME NEW S, IsFiniteSet(S) PROVE IsFiniteSet(Singles(S)) /\ Cardinality(Singles(S)) = Cardinality(S)
<1>. DEFINE g == [f \in S |-> <<f>>]
<1>1. OneToOne(g, S, Singles(S))
  BY DEF OneToOne, Singles
<1>. HIDE DEF g
<1>. QED
  BY <1>1, SameSize

LEMMA AskCompareRight ==
    ASSUME WorldInv, NEW job, AskCompare(job) PROVE KeepsRight(job)
<1>1. PICK r \in Relations : \E winner, loser \in Holders(r) :
        LET more == FactsFor(winner, r)
            less == FactsFor(loser, r)
        IN  /\ UniquelyNamed(winner) /\ UniquelyNamed(loser)
            /\ type[winner] = type[loser]
            /\ Cardinality(more) > Cardinality(less)
            /\ New("compare", LAMBDA q : q.relations = <<r>> /\ q.paths = Singles(more \cup less))
            /\ Keep(job, [Blank EXCEPT !.kind = "compare", !.start = winner, !.relations = <<r>>,
                            !.answers = {winner}, !.paths = Singles(more \cup less)])
  BY DEF AskCompare
<1>2. PICK winner \in Holders(r), loser \in Holders(r) :
        LET more == FactsFor(winner, r)
            less == FactsFor(loser, r)
        IN  /\ Cardinality(more) > Cardinality(less)
            /\ New("compare", LAMBDA q : q.relations = <<r>> /\ q.paths = Singles(more \cup less))
            /\ Keep(job, [Blank EXCEPT !.kind = "compare", !.start = winner, !.relations = <<r>>,
                            !.answers = {winner}, !.paths = Singles(more \cup less)])
  BY <1>1
<1>. DEFINE more == FactsFor(winner, r)
            less == FactsFor(loser, r)
            q0 == [Blank EXCEPT !.kind = "compare", !.start = winner, !.relations = <<r>>,
                            !.answers = {winner}, !.paths = Singles(more \cup less)]
<1>3. /\ q0.kind = "compare" /\ q0.relations = <<r>> /\ q0.relations[1] = r /\ q0.answers = {winner}
      /\ q0.paths = Singles(more \cup less)
  BY DEF Blank
<1>4. q0 \notin asked /\ Keep(job, q0)
  BY <1>2, <1>3 DEF New
<1>. HIDE DEF q0
<1>5. /\ CountOf(winner, r) = Cardinality(more) /\ CountOf(loser, r) = Cardinality(less)
      /\ IsFiniteSet(more) /\ IsFiniteSet(less)
      /\ Cardinality(more) \in Nat /\ Cardinality(less) \in Nat
  BY CountOfIs, FactsForIs
<1>6. more \cap less = {}
  <2>1. winner # loser
    BY <1>2, <1>5
  <2>2. ASSUME NEW f \in more, f \in less PROVE FALSE
    <3>1. Holds(f, winner, r, Far(f, r)) /\ Holds(f, loser, r, Far(f, r))
      BY <2>2, FactsForIs
    <3>. QED
      BY <2>1, <3>1 DEF Holds
  <2>. QED
    BY <2>2
<1>7. Cardinality(Singles(more \cup less)) = CountOf(loser, r) + CountOf(winner, r)
  <2>. HIDE DEF more, less
  <2>1. /\ IsFiniteSet(more \cup less)
        /\ Cardinality(more \cup less)
             = Cardinality(more) + Cardinality(less) - Cardinality(more \cap less)
    BY <1>5, FS_Union
  <2>2. Cardinality(more \cap less) = 0
    BY <1>6, FS_EmptySet
  <2>3. Cardinality(more \cup less) = Cardinality(less) + Cardinality(more)
    BY <1>5, <2>1, <2>2
  <2>. QED
    BY <1>5, <2>1, <2>3, SinglesSize
<1>8. CountOf(loser, r) < CountOf(winner, r) /\ loser \in Real
  BY <1>2, <1>5 DEF Holders
<1>9. MoreRight(q0)
  <2>. HIDE DEF more, less
  <2>. QED
    BY <1>3, <1>7, <1>8 DEF MoreRight
<1>. QED
  BY <1>3, <1>4, <1>9 DEF KeepsRight, Right

LEMMA AskUnanswerableRight ==
    ASSUME WorldInv, NEW job, AskUnanswerable(job) PROVE KeepsRight(job)
<1>1. PICK start \in Starts, r \in Relations :
        /\ ~EverHeld(start, r)
        /\ New("unanswerable", LAMBDA q : q.start = start /\ q.relations = <<r>>)
        /\ Keep(job, [Blank EXCEPT !.kind = "unanswerable", !.start = start, !.relations = <<r>>])
  BY DEF AskUnanswerable
<1>. DEFINE q0 == [Blank EXCEPT !.kind = "unanswerable", !.start = start, !.relations = <<r>>]
<1>2. q0.kind = "unanswerable" /\ q0.start = start /\ q0.relations = <<r>>
  BY DEF Blank
<1>3. q0 \notin asked /\ Keep(job, q0)
  BY <1>1, <1>2 DEF New
<1>. HIDE DEF q0
<1>4. ASSUME NEW year PROVE Denoted(start, <<r>>, year) = {}
  <2>. SUFFICES ASSUME NEW p \in [0 .. 1 -> Real], p[0] = start,
                       \A i \in 1 .. 1 : \E f \in TrueIn(year) : Holds(f, p[i - 1], <<r>>[i], p[i])
                PROVE  FALSE
    <3>1. Len(<<r>>) = 1
      OBVIOUS
    <3>. QED
      BY <3>1 DEF Denoted
  <2>1. 1 \in 1 .. 1 /\ 1 - 1 = 0 /\ <<r>>[1] = r
    OBVIOUS
  <2>2. PICK f \in TrueIn(year) : Holds(f, start, r, p[1])
    BY <2>1
  <2>3. f \in facts
    BY DEF TrueIn
  <2>. QED
    BY <1>1, <2>2, <2>3 DEF Holds, EverHeld
<1>5. NeverRight(q0)
  BY <1>2, <1>4 DEF NeverRight
<1>. QED
  BY <1>2, <1>3, <1>5 DEF KeepsRight, Right

\* One relation denotes what it reaches.
LEMMA OneRelation ==
    ASSUME WorldInv, NEW start \in Real, NEW r \in Relations
    PROVE  Denoted(start, <<r>>, EndYear) = Reach({start}, r)
<1>1. Len(<<r>>) = 1 /\ <<r>>[0 + 1] = r /\ 0 + 1 = 1
  OBVIOUS
<1>2. Denoted(start, <<r>>, EndYear) = Led(start, <<r>>, 1)
  BY <1>1, DenotedIs
<1>3. Led(start, <<r>>, 0) = {start}
  BY LedNowhere
<1>4. Led(start, <<r>>, 0 + 1) = Reach(Led(start, <<r>>, 0), <<r>>[0 + 1])
  BY <1>1, LedFurther
<1>. QED
  BY <1>1, <1>2, <1>3, <1>4

LEMMA AskFalsePremiseRight ==
    ASSUME WorldInv, NEW job, AskFalsePremise(job) PROVE KeepsRight(job)
<1>1. PICK st \in {x \in Steps : Source(x) \in Starts}, fake \in Starts :
        LET start == Source(st)
        IN  /\ Reach({start}, Relation(st)) = {Target(st)}
            /\ Claim(st, fake) \notin {TripleOf(f) : f \in facts}
            /\ New("false_premise", LAMBDA q : q.start = start /\ q.paths = {<<st.fact>>}
                                                 /\ q.claim = Claim(st, fake))
            /\ Keep(job, [Blank EXCEPT !.kind = "false_premise", !.hops = 2, !.start = start,
                            !.relations = <<Relation(st)>>, !.paths = {<<st.fact>>},
                            !.claim = Claim(st, fake)])
  BY DEF AskFalsePremise
<1>. DEFINE start == Source(st)
            q0 == [Blank EXCEPT !.kind = "false_premise", !.hops = 2, !.start = start,
                            !.relations = <<Relation(st)>>, !.paths = {<<st.fact>>},
                            !.claim = Claim(st, fake)]
<1>2. /\ q0.kind = "false_premise" /\ q0.start = start /\ q0.relations = <<Relation(st)>>
      /\ q0.paths = {<<st.fact>>} /\ q0.claim = Claim(st, fake)
  BY DEF Blank
<1>3. q0 \notin asked /\ Keep(job, q0)
  BY <1>1, <1>2 DEF New
<1>. HIDE DEF q0
<1>4. st.fact \in TrueIn(EndYear) /\ start \in Real /\ Relation(st) \in Relations
  BY StepFields, LiveIs
<1>5. Cardinality(Denoted(start, <<Relation(st)>>, EndYear)) = 1
  BY <1>1, <1>4, OneRelation, OneElement
<1>6. \A f \in facts : TripleOf(f) # q0.claim
  BY <1>1, <1>2
<1>7. PremiseRight(q0)
  BY <1>2, <1>4, <1>5, <1>6 DEF PremiseRight
<1>. QED
  BY <1>2, <1>3, <1>7 DEF KeepsRight, Right

(***************************************************************************)
(* Questions about change.                                                 *)
(***************************************************************************)
LEMMA Years ==
    ASSUME WorldInv, NEW f \in facts
    PROVE  /\ HoldsIn(f, EndYear) <=> f.to = Never
           /\ f.from \in StartYear .. EndYear /\ HoldsIn(f, f.from)
<1>1. StartYear \in Nat /\ EndYear \in Nat /\ StartYear < EndYear /\ Never \notin Nat
  BY SpecNumbers DEF WorldInv
<1>2. /\ f.from \in StartYear .. EndYear
      /\ f.to # Never => f.to \in StartYear + 1 .. EndYear /\ f.from < f.to
  BY FactKinds
<1>. QED
  BY <1>1, <1>2 DEF HoldsIn

\* a question about this topic
About(q, topic) ==
    /\ q.start = topic[1] /\ q.label = topic[3]
    /\ q.relations = <<[predicate |-> topic[2], forward |-> TRUE]>>

\* What is true of a topic in a year are the versions that hold then.
LEMMA TopicInIs ==
    ASSUME WorldInv, NEW topic \in Topics, NEW q, About(q, topic), NEW year
    PROVE  \A x : x \in TopicIn(q, year) <=> \E f \in Versions(topic) : f.object = x /\ HoldsIn(f, year)
<1>1. /\ topic[2] \in Predicates /\ topic = <<topic[1], topic[2], topic[3]>>
      /\ q.relations[1].predicate = topic[2]
  BY DEF Topics, About
<1>2. UniquelyNamed(topic[1])
  <2>1. PICK f \in Versions(topic) : TRUE
    BY DEF Topics
  <2>. QED
    BY <2>1 DEF Versions
<1>3. ASSUME NEW f \in facts
      PROVE  f \in Versions(topic) /\ HoldsIn(f, year) <=>
                /\ f \in TrueIn(year) /\ f.subject = q.start
                /\ f.predicate = topic[2] /\ type[f.object] = q.label
  BY <1>1, <1>2, WorldAssumption DEF Versions, HoldsIn, TrueIn, About
<1>4. Versions(topic) \subseteq facts /\ TrueIn(year) \subseteq facts
  BY DEF Versions, TrueIn
<1>. QED
  BY <1>1, <1>3, <1>4 DEF TopicIn

LEMMA VersionsDiffer ==
    ASSUME WorldInv, NEW topic \in Topics, NEW f \in Versions(topic), NEW g \in Versions(topic),
           f.object = g.object
    PROVE  f = g
<1>1. f \in facts /\ g \in facts /\ TripleOf(f) = TripleOf(g)
  BY DEF Versions, TripleOf, Triple
<1>. QED
  BY <1>1 DEF WorldInv, FactsInv

\* what is called stale was true, and is not the answer
Stale(q, topic) ==
    /\ q.stale \subseteq {f.object : f \in Versions(topic)}
    /\ q.stale \cap q.answers = {}

LEMMA StaleWasTrue ==
    ASSUME WorldInv, NEW topic \in Topics, NEW q, About(q, topic), Stale(q, topic)
    PROVE  \A x \in q.stale : \E year \in StartYear .. EndYear : x \in TopicIn(q, year)
<1>1. TAKE x \in q.stale
<1>2. PICK f \in Versions(topic) : x = f.object
  BY DEF Stale
<1>3. f \in facts
  BY DEF Versions
<1>4. f.from \in StartYear .. EndYear /\ x \in TopicIn(q, f.from)
  BY <1>2, <1>3, Years, TopicInIs
<1>. QED
  BY <1>4

LEMMA AskAsOfRight ==
    ASSUME WorldInv, NEW job, AskAsOf(job) PROVE KeepsRight(job)
<1>1. PICK topic \in Changed : \E pick \in Versions(topic) :
       \E year \in pick.from .. ((IF pick.to = Never THEN EndYear + 1 ELSE pick.to) - 1) :
        LET held == {f.object : f \in {x \in Versions(topic) : HoldsIn(x, year)}}
        IN  /\ held = {pick.object}
            /\ New("as_of", LAMBDA q : q.start = topic[1] /\ q.label = topic[3] /\ q.year = year
                              /\ q.relations[1].predicate = topic[2])
            /\ Keep(job, [Temporal("as_of", topic) EXCEPT !.answers = {pick.object},
                            !.year = year, !.paths = {<<pick>>},
                            !.stale = {f.object : f \in Versions(topic)} \ {pick.object}])
  BY DEF AskAsOf
<1>2. PICK pick \in Versions(topic) :
       \E year \in pick.from .. ((IF pick.to = Never THEN EndYear + 1 ELSE pick.to) - 1) :
        LET held == {f.object : f \in {x \in Versions(topic) : HoldsIn(x, year)}}
        IN  /\ held = {pick.object}
            /\ New("as_of", LAMBDA q : q.start = topic[1] /\ q.label = topic[3] /\ q.year = year
                              /\ q.relations[1].predicate = topic[2])
            /\ Keep(job, [Temporal("as_of", topic) EXCEPT !.answers = {pick.object},
                            !.year = year, !.paths = {<<pick>>},
                            !.stale = {f.object : f \in Versions(topic)} \ {pick.object}])
  BY <1>1
<1>3. PICK year \in pick.from .. ((IF pick.to = Never THEN EndYear + 1 ELSE pick.to) - 1) :
            /\ {f.object : f \in {x \in Versions(topic) : HoldsIn(x, year)}} = {pick.object}
            /\ New("as_of", LAMBDA q : q.start = topic[1] /\ q.label = topic[3] /\ q.year = year
                              /\ q.relations[1].predicate = topic[2])
            /\ Keep(job, [Temporal("as_of", topic) EXCEPT !.answers = {pick.object},
                            !.year = year, !.paths = {<<pick>>},
                            !.stale = {f.object : f \in Versions(topic)} \ {pick.object}])
  BY <1>2
<1>. DEFINE q0 == [Temporal("as_of", topic) EXCEPT !.answers = {pick.object},
                            !.year = year, !.paths = {<<pick>>},
                            !.stale = {f.object : f \in Versions(topic)} \ {pick.object}]
<1>4. /\ q0.kind = "as_of" /\ q0.start = topic[1] /\ q0.label = topic[3] /\ q0.year = year
      /\ q0.relations[1].predicate = topic[2] /\ q0.answers = {pick.object}
      /\ q0.stale = {f.object : f \in Versions(topic)} \ {pick.object}
      /\ About(q0, topic)
  BY DEF Temporal, Blank, About
<1>5. Keep(job, q0)
  BY <1>3
<1>. HIDE DEF q0
<1>6. q0 \notin asked
  BY <1>3, <1>4 DEF New
<1>7. topic \in Topics
  BY DEF Changed
<1>8. TopicIn(q0, year) = {pick.object}
  BY <1>3, <1>4, <1>7, TopicInIs
<1>9. Stale(q0, topic)
  BY <1>4 DEF Stale
<1>10. DatedRight(q0)
  BY <1>4, <1>7, <1>8, <1>9, StaleWasTrue, OneElement DEF DatedRight, Stale
<1>. QED
  BY <1>4, <1>5, <1>6, <1>10 DEF KeepsRight, Right

LEMMA AskLatestRight ==
    ASSUME WorldInv, NEW job, AskLatest(job) PROVE KeepsRight(job)
<1>1. PICK topic \in Changed : \E now \in Versions(topic) :
        /\ {f \in Versions(topic) : f.to = Never} = {now}
        /\ Cardinality(Versions(topic)) >= 2
        /\ New("latest", LAMBDA q : q.start = topic[1] /\ q.label = topic[3]
                           /\ q.relations[1].predicate = topic[2])
        /\ Keep(job, [Temporal("latest", topic) EXCEPT !.answers = {now.object},
                        !.paths = {<<now>>},
                        !.stale = {f.object : f \in Versions(topic) \ {now}}])
  BY DEF AskLatest
<1>2. PICK now \in Versions(topic) :
        /\ {f \in Versions(topic) : f.to = Never} = {now}
        /\ New("latest", LAMBDA q : q.start = topic[1] /\ q.label = topic[3]
                           /\ q.relations[1].predicate = topic[2])
        /\ Keep(job, [Temporal("latest", topic) EXCEPT !.answers = {now.object},
                        !.paths = {<<now>>},
                        !.stale = {f.object : f \in Versions(topic) \ {now}}])
  BY <1>1
<1>. DEFINE q0 == [Temporal("latest", topic) EXCEPT !.answers = {now.object},
                        !.paths = {<<now>>},
                        !.stale = {f.object : f \in Versions(topic) \ {now}}]
<1>4. /\ q0.kind = "latest" /\ q0.start = topic[1] /\ q0.label = topic[3]
      /\ q0.relations[1].predicate = topic[2] /\ q0.answers = {now.object}
      /\ q0.stale = {f.object : f \in Versions(topic) \ {now}}
      /\ About(q0, topic)
  BY DEF Temporal, Blank, About
<1>5. Keep(job, q0)
  BY <1>2
<1>. HIDE DEF q0
<1>6. q0 \notin asked
  BY <1>2, <1>4 DEF New
<1>7. topic \in Topics
  BY DEF Changed
<1>8. \A f \in Versions(topic) : HoldsIn(f, EndYear) <=> f = now
  <2>1. \A f \in Versions(topic) : f \in facts
    BY DEF Versions
  <2>. QED
    BY <1>2, <2>1, Years
<1>9. TopicIn(q0, EndYear) = {now.object}
  BY <1>4, <1>7, <1>8, TopicInIs
<1>10. Stale(q0, topic)
  <2>1. now.object \notin q0.stale
    BY <1>4, <1>7, VersionsDiffer
  <2>. QED
    BY <1>4, <2>1 DEF Stale
<1>11. DatedRight(q0)
  BY <1>4, <1>7, <1>9, <1>10, StaleWasTrue, OneElement DEF DatedRight, Stale
<1>. QED
  BY <1>4, <1>5, <1>6, <1>11 DEF KeepsRight, Right

LEMMA AskRetractedRight ==
    ASSUME WorldInv, NEW job, AskRetracted(job) PROVE KeepsRight(job)
<1>1. PICK topic \in Withdrawn : \E gone \in Versions(topic) :
        /\ New("retracted", LAMBDA q : q.start = topic[1] /\ q.label = topic[3]
                              /\ q.relations[1].predicate = topic[2])
        /\ Keep(job, [Temporal("retracted", topic) EXCEPT !.paths = {<<gone>>},
                        !.stale = {f.object : f \in Versions(topic)}])
  BY DEF AskRetracted
<1>2. PICK gone \in Versions(topic) :
        /\ New("retracted", LAMBDA q : q.start = topic[1] /\ q.label = topic[3]
                              /\ q.relations[1].predicate = topic[2])
        /\ Keep(job, [Temporal("retracted", topic) EXCEPT !.paths = {<<gone>>},
                        !.stale = {f.object : f \in Versions(topic)}])
  BY <1>1
<1>. DEFINE q0 == [Temporal("retracted", topic) EXCEPT !.paths = {<<gone>>},
                        !.stale = {f.object : f \in Versions(topic)}]
<1>4. /\ q0.kind = "retracted" /\ q0.start = topic[1] /\ q0.label = topic[3]
      /\ q0.relations[1].predicate = topic[2] /\ q0.answers = {}
      /\ q0.stale = {f.object : f \in Versions(topic)}
      /\ About(q0, topic)
  BY DEF Temporal, Blank, About
<1>5. Keep(job, q0)
  BY <1>2
<1>. HIDE DEF q0
<1>6. q0 \notin asked
  BY <1>2, <1>4 DEF New
<1>7. topic \in Topics
  BY DEF Withdrawn
<1>8. \A f \in Versions(topic) : ~HoldsIn(f, EndYear)
  <2>1. \A f \in Versions(topic) : f \in facts
    BY DEF Versions
  <2>. QED
    BY <2>1, Years DEF Withdrawn
<1>9. TopicIn(q0, EndYear) = {}
  BY <1>4, <1>7, <1>8, TopicInIs
<1>10. Stale(q0, topic)
  BY <1>4 DEF Stale
<1>11. DatedRight(q0)
  BY <1>4, <1>7, <1>9, <1>10, StaleWasTrue DEF DatedRight, Stale
<1>. QED
  BY <1>4, <1>5, <1>6, <1>11 DEF KeepsRight, Right

(***************************************************************************)
(* Chains of facts.                                                        *)
(***************************************************************************)

\* p goes along this chain of n facts, from a to b
Threads(p, c, a, b, n) ==
    /\ p \in [0 .. n -> Real] /\ p[0] = a /\ p[n] = b
    /\ \A i \in 1 .. n : Ends(c[i]) = {p[i - 1], p[i]}

LEMMA ChainsBetweenIs ==
    ASSUME WorldInv, NEW a, NEW b, NEW n \in Nat, NEW c
    PROVE  c \in ChainsBetween(a, b, n) <=> c \in [1 .. n -> Live] /\ \E p : Threads(p, c, a, b, n)
<1>1. Live = TrueIn(EndYear)
  BY LiveIs
<1>2. (\E p \in [0 .. n -> Real] : /\ p[0] = a /\ p[n] = b
                                   /\ \A i \in 1 .. n : Ends(c[i]) = {p[i - 1], p[i]})
        <=> \E p : Threads(p, c, a, b, n)
  BY DEF Threads
<1>. QED
  BY <1>1, <1>2 DEF ChainsBetween

\* A function on 1 .. n is a sequence, and the other way round.
LEMMA SequenceIs ==
    ASSUME NEW S, NEW n \in Nat, NEW c
    PROVE  c \in [1 .. n -> S] <=> c \in Seq(S) /\ Len(c) = n
<1>1. ASSUME c \in [1 .. n -> S] PROVE c \in Seq(S) /\ Len(c) = n
  <2>1. c = [i \in 1 .. n |-> c[i]] /\ \A i \in 1 .. n : c[i] \in S
    BY <1>1
  <2>2. [i \in 1 .. n |-> c[i]] \in Seq(S)
    BY <2>1, IsASeq
  <2>3. c \in Seq(S) /\ DOMAIN c = 1 .. n
    BY <2>1, <2>2
  <2>4. Len(c) \in Nat /\ DOMAIN c = 1 .. Len(c)
    BY <2>3, LenProperties
  <2>. QED
    BY <2>3, <2>4
<1>2. ASSUME c \in Seq(S), Len(c) = n PROVE c \in [1 .. n -> S]
  BY <1>2, LenProperties
<1>. QED
  BY <1>1, <1>2

LEMMA AppendChain ==
    ASSUME NEW n \in Nat, NEW S, NEW c \in [1 .. n -> S], NEW f \in S
    PROVE  /\ Append(c, f) \in [1 .. n + 1 -> S] /\ Append(c, f)[n + 1] = f
           /\ \A i \in 1 .. n : Append(c, f)[i] = c[i]
<1>1. c \in Seq(S) /\ Len(c) = n
  BY SequenceIs
<1>2. /\ Append(c, f) \in Seq(S) /\ Len(Append(c, f)) = n + 1 /\ Append(c, f)[n + 1] = f
      /\ \A i \in 1 .. n : Append(c, f)[i] = c[i]
  BY <1>1, AppendProperties
<1>3. n + 1 \in Nat
  OBVIOUS
<1>4. Append(c, f) \in [1 .. n + 1 -> S]
  BY <1>2, <1>3, SequenceIs
<1>. QED
  BY <1>2, <1>4

LEMMA ChainsNone ==
    ASSUME WorldInv, NEW a \in Real, NEW b, NEW c
    PROVE  c \in ChainsBetween(a, b, 0) <=> b = a /\ c = <<>>
<1>1. c \in [1 .. 0 -> Live] <=> c = <<>>
  <2>1. c \in [1 .. 0 -> Live] <=> c \in Seq(Live) /\ Len(c) = 0
    BY SequenceIs
  <2>. QED
    BY <2>1, EmptySeq
<1>2. ASSUME NEW p, Threads(p, c, a, b, 0) PROVE b = a
  BY <1>2 DEF Threads
<1>3. ASSUME b = a PROVE Threads([i \in 0 .. 0 |-> a], c, a, b, 0)
  BY <1>3 DEF Threads
<1>. QED
  BY <1>1, <1>2, <1>3, ChainsBetweenIs

\* c is a chain of n facts and one that links its end with z
IsLonger(c, a, z, n) ==
    \E y \in Real : \E f \in Live : \E c0 \in ChainsBetween(a, y, n) :
        Ends(f) = {y, z} /\ c = Append(c0, f)

\* A chain of one fact more is a chain and a fact that links its end with another entity.
LEMMA ChainsMore ==
    ASSUME WorldInv, NEW a, NEW z \in Real, NEW n \in Nat, NEW c
    PROVE  c \in ChainsBetween(a, z, n + 1) <=> IsLonger(c, a, z, n)
<1>1. ASSUME c \in ChainsBetween(a, z, n + 1)
      PROVE  \E y \in Real : \E f \in Live : \E c0 \in ChainsBetween(a, y, n) :
                 Ends(f) = {y, z} /\ c = Append(c0, f)
  <2>1. c \in [1 .. n + 1 -> Live] /\ \E p : Threads(p, c, a, z, n + 1)
    BY <1>1, ChainsBetweenIs
  <2>2. PICK p : Threads(p, c, a, z, n + 1)
    BY <2>1
  <2>3. /\ p \in [0 .. n + 1 -> Real] /\ p[0] = a /\ p[n + 1] = z
        /\ \A i \in 1 .. n + 1 : Ends(c[i]) = {p[i - 1], p[i]}
    BY <2>2 DEF Threads
  <2>. DEFINE q == [i \in 0 .. n |-> p[i]]
              c0 == [i \in 1 .. n |-> c[i]]
  <2>4. q \in [0 .. n -> Real] /\ q[0] = a /\ q[n] = p[n] /\ p[n] \in Real
    BY <2>3
  <2>5. c0 \in [1 .. n -> Live] /\ \A i \in 1 .. n : c0[i] = c[i]
    BY <2>1
  <2>6. \A i \in 1 .. n : i \in 1 .. n + 1 /\ q[i - 1] = p[i - 1] /\ q[i] = p[i]
    OBVIOUS
  <2>7. n + 1 \in 1 .. n + 1 /\ (n + 1) - 1 = n
    OBVIOUS
  <2>. HIDE DEF q, c0
  <2>8. Threads(q, c0, a, p[n], n)
    BY <2>3, <2>4, <2>5, <2>6 DEF Threads
  <2>9. c0 \in ChainsBetween(a, p[n], n)
    BY <2>5, <2>8, ChainsBetweenIs
  <2>10. Ends(c[n + 1]) = {p[n], z} /\ c[n + 1] \in Live
    BY <2>1, <2>3, <2>7
  <2>11. c = Append(c0, c[n + 1])
    <3>1. /\ Append(c0, c[n + 1]) \in [1 .. n + 1 -> Live] /\ Append(c0, c[n + 1])[n + 1] = c[n + 1]
          /\ \A i \in 1 .. n : Append(c0, c[n + 1])[i] = c0[i]
      BY <2>5, <2>10, AppendChain
    <3>2. \A i \in 1 .. n + 1 : i \in 1 .. n \/ i = n + 1
      OBVIOUS
    <3>3. \A i \in 1 .. n + 1 : Append(c0, c[n + 1])[i] = c[i]
      BY <2>5, <3>1, <3>2
    <3>. DEFINE s == Append(c0, c[n + 1])
    <3>4. s \in [1 .. n + 1 -> Live] /\ \A i \in 1 .. n + 1 : s[i] = c[i]
      BY <3>1, <3>3
    <3>. HIDE DEF s
    <3>5. c = s
      BY <2>1, <3>4
    <3>. QED
      BY <3>5 DEF s
  <2>. QED
    BY <2>4, <2>9, <2>10, <2>11
<1>2. ASSUME NEW y \in Real, NEW f \in Live, NEW c0 \in ChainsBetween(a, y, n),
             Ends(f) = {y, z}, c = Append(c0, f)
      PROVE  c \in ChainsBetween(a, z, n + 1)
  <2>1. c0 \in [1 .. n -> Live] /\ \E p : Threads(p, c0, a, y, n)
    BY ChainsBetweenIs
  <2>2. PICK p : Threads(p, c0, a, y, n)
    BY <2>1
  <2>3. /\ p \in [0 .. n -> Real] /\ p[0] = a /\ p[n] = y
        /\ \A i \in 1 .. n : Ends(c0[i]) = {p[i - 1], p[i]}
    BY <2>2 DEF Threads
  <2>4. /\ c \in [1 .. n + 1 -> Live] /\ c[n + 1] = f /\ \A i \in 1 .. n : c[i] = c0[i]
    BY <1>2, <2>1, AppendChain
  <2>. DEFINE q == [i \in 0 .. n + 1 |-> IF i = n + 1 THEN z ELSE p[i]]
  <2>5. q \in [0 .. n + 1 -> Real] /\ q[0] = a /\ q[n + 1] = z /\ q[n] = y
    BY <2>3
  <2>6. \A i \in 1 .. n + 1 : i = n + 1 \/ (i \in 1 .. n /\ q[i - 1] = p[i - 1] /\ q[i] = p[i])
    OBVIOUS
  <2>. HIDE DEF q
  <2>7. \A i \in 1 .. n + 1 : Ends(c[i]) = {q[i - 1], q[i]}
    <3>1. TAKE i \in 1 .. n + 1
    <3>2. CASE i = n + 1
      <4>1. i - 1 = n
        BY <3>2
      <4>. QED
        BY <1>2, <2>4, <2>5, <3>2, <4>1
    <3>. QED
      BY <2>3, <2>4, <2>6, <3>2
  <2>8. Threads(q, c, a, z, n + 1)
    BY <2>5, <2>7 DEF Threads
  <2>. QED
    BY <2>4, <2>8, ChainsBetweenIs
<1>. QED
  BY <1>1, <1>2 DEF IsLonger

\* The other end of a fact is what it links an entity with.
LEMMA OtherEndIs ==
    ASSUME WorldInv, NEW f \in Live, NEW x, NEW y
    PROVE  /\ Touches(f, x) /\ OtherEnd(f, x) = y <=> Ends(f) = {x, y}
           /\ Touches(f, x) => OtherEnd(f, x) \in Real /\ x \in Real
<1>1. f.subject \in Real /\ f.object \in Real /\ f.subject # f.object
  BY LiveIs
<1>. QED
  BY <1>1 DEF Touches, OtherEnd, Ends

LEMMA BesideIs ==
    ASSUME WorldInv, NEW S
    PROVE  /\ Beside(S) \in SUBSET Real
           /\ \A y : y \in Beside(S) <=> \E x \in S : \E f \in Live : Ends(f) = {x, y}
<1>1. \A y : y \in Beside(S) <=> \E x \in S : \E f \in Live : Touches(f, x) /\ y = OtherEnd(f, x)
  BY DEF Beside, Around
<1>2. ASSUME NEW y \in Beside(S) PROVE y \in Real /\ \E x \in S : \E f \in Live : Ends(f) = {x, y}
  <2>1. PICK x \in S : \E f \in Live : Touches(f, x) /\ y = OtherEnd(f, x)
    BY <1>1
  <2>2. PICK f \in Live : Touches(f, x) /\ y = OtherEnd(f, x)
    BY <2>1
  <2>3. Ends(f) = {x, y} /\ y \in Real
    BY <2>2, OtherEndIs
  <2>. QED
    BY <2>3
<1>3. ASSUME NEW y, NEW x \in S, NEW f \in Live, Ends(f) = {x, y} PROVE y \in Beside(S)
  <2>1. Touches(f, x) /\ OtherEnd(f, x) = y
    BY <1>3, OtherEndIs
  <2>. QED
    BY <1>1, <2>1
<1>. QED
  BY <1>2, <1>3

\* n facts or fewer link a with b
Within(a, b, n) == \E m \in 0 .. n : ChainsBetween(a, b, m) # {}

WithinOf(a, n) == {b \in Real : Within(a, b, n)}

LEMMA WithinNone == ASSUME WorldInv, NEW a \in Real PROVE WithinOf(a, 0) = {a}
<1>1. \A b : ChainsBetween(a, b, 0) # {} <=> b = a
  BY ChainsNone
<1>2. \A b : Within(a, b, 0) <=> ChainsBetween(a, b, 0) # {}
  BY DEF Within
<1>. QED
  BY <1>1, <1>2 DEF WithinOf

LEMMA WithinMore ==
    ASSUME WorldInv, NEW a \in Real, NEW n \in Nat
    PROVE  WithinOf(a, n + 1) = WithinOf(a, n) \cup Beside(WithinOf(a, n))
<1>1. ASSUME NEW z \in Real
      PROVE  \A m \in Nat : ChainsBetween(a, z, m + 1) # {} <=>
                \E y \in Real : ChainsBetween(a, y, m) # {} /\ \E f \in Live : Ends(f) = {y, z}
  <2>1. TAKE m \in Nat
  <2>2. ASSUME NEW c \in ChainsBetween(a, z, m + 1)
        PROVE  \E y \in Real : ChainsBetween(a, y, m) # {} /\ \E f \in Live : Ends(f) = {y, z}
    <3>1. PICK y \in Real : \E f \in Live : \E c0 \in ChainsBetween(a, y, m) :
              Ends(f) = {y, z} /\ c = Append(c0, f)
      <4>1. IsLonger(c, a, z, m)
        BY ChainsMore
      <4>. QED
        BY <4>1 DEF IsLonger
    <3>. QED
      BY <3>1
  <2>3. ASSUME NEW y \in Real, NEW c0 \in ChainsBetween(a, y, m), NEW f \in Live, Ends(f) = {y, z}
        PROVE  Append(c0, f) \in ChainsBetween(a, z, m + 1)
    <3>1. IsLonger(Append(c0, f), a, z, m)
      BY <2>3 DEF IsLonger
    <3>. QED
      BY <3>1, ChainsMore
  <2>. QED
    BY <2>2, <2>3
<1>2. ASSUME NEW z \in Real, Within(a, z, n + 1)
      PROVE  Within(a, z, n) \/ z \in Beside(WithinOf(a, n))
  <2>1. PICK m \in 0 .. n + 1 : ChainsBetween(a, z, m) # {}
    BY <1>2 DEF Within
  <2>2. CASE m \in 0 .. n
    BY <2>1, <2>2 DEF Within
  <2>3. CASE m = n + 1
    <3>1. PICK y \in Real : ChainsBetween(a, y, n) # {} /\ \E f \in Live : Ends(f) = {y, z}
      BY <1>1, <2>1, <2>3
    <3>2. y \in WithinOf(a, n)
      BY <3>1 DEF WithinOf, Within
    <3>. QED
      BY <3>1, <3>2, BesideIs
  <2>. QED
    BY <2>2, <2>3
<1>3. ASSUME NEW z \in Real, Within(a, z, n) PROVE Within(a, z, n + 1)
  BY <1>3 DEF Within
<1>4. ASSUME NEW z \in Beside(WithinOf(a, n)) PROVE z \in Real /\ Within(a, z, n + 1)
  <2>1. z \in Real
    BY BesideIs
  <2>2. PICK y \in WithinOf(a, n) : \E f \in Live : Ends(f) = {y, z}
    BY BesideIs
  <2>3. PICK m \in 0 .. n : ChainsBetween(a, y, m) # {}
    BY DEF WithinOf, Within
  <2>4. m + 1 \in 0 .. n + 1 /\ m \in Nat /\ y \in Real
    BY DEF WithinOf
  <2>5. ChainsBetween(a, z, m + 1) # {}
    BY <1>1, <2>1, <2>2, <2>3, <2>4
  <2>. QED
    BY <2>1, <2>4, <2>5 DEF Within
<1>. QED
  BY <1>2, <1>3, <1>4 DEF WithinOf

(***************************************************************************)
(* The search by layers.                                                   *)
(***************************************************************************)
IsReached(d, start, hops) ==
    d = [n \in 0 .. hops |-> IF n = 0 THEN {start} ELSE d[n - 1] \cup Beside(d[n - 1])]

\* what is first reached after n facts
FirstWithin(start, n) ==
    IF n = 0 THEN {start} ELSE WithinOf(start, n) \ WithinOf(start, n - 1)

LEMMA LayersAre ==
    ASSUME WorldInv, NEW start \in Real, NEW hops \in Nat
    PROVE  Layers(start, hops) = [n \in 0 .. hops |-> FirstWithin(start, n)]
<1>. DEFINE V == SUBSET Real
            move == [v \in V |-> v \cup Beside(v)]
            step == [n \in 1 .. hops |-> move]
            d == CHOOSE d : IsReached(d, start, hops)
<1>1. move \in [V -> V] /\ {start} \in V
  <2>1. \A v \in V : v \cup Beside(v) \in V
    BY BesideIs
  <2>. QED
    BY <2>1
<1>2. step \in [1 .. hops -> [V -> V]]
  <2>. HIDE DEF move, V
  <2>. QED
    BY <1>1
<1>3. PICK g \in [0 .. hops -> V] : Goes(g, hops, {start}, step)
  <2>. HIDE DEF V, step
  <2>. QED
    BY <1>1, <1>2, StepsLead
<1>4. \A n \in 1 .. hops : g[n] = g[n - 1] \cup Beside(g[n - 1])
  <2>1. TAKE n \in 1 .. hops
  <2>2. g[n - 1] \in V
    OBVIOUS
  <2>3. g[n] = move[g[n - 1]]
    BY <1>3 DEF Goes
  <2>. HIDE DEF V
  <2>. QED
    BY <2>2, <2>3
<1>5. IsReached(g, start, hops)
  BY <1>3, <1>4 DEF IsReached, Goes
<1>6. IsReached(d, start, hops)
  BY <1>5
<1>7. Layers(start, hops) = [n \in 0 .. hops |-> IF n = 0 THEN {start} ELSE d[n] \ d[n - 1]]
  BY DEF Layers, IsReached
<1>. HIDE DEF d
<1>. DEFINE Good == {n \in 0 .. hops : d[n] = WithinOf(start, n)}
<1>8. 0 \in Good
  <2>1. 0 \in 0 .. hops
    OBVIOUS
  <2>. QED
    BY <1>6, <2>1, WithinNone DEF IsReached
<1>9. ASSUME NEW n \in 0 .. hops - 1, n \in Good PROVE n + 1 \in Good
  <2>1. n + 1 \in 0 .. hops /\ n + 1 # 0 /\ (n + 1) - 1 = n /\ n \in Nat
    OBVIOUS
  <2>2. d[n + 1] = d[n] \cup Beside(d[n])
    BY <1>6, <2>1 DEF IsReached
  <2>3. d[n] = WithinOf(start, n)
    BY <1>9
  <2>4. d[n + 1] = WithinOf(start, n + 1)
    BY <2>1, <2>2, <2>3, WithinMore
  <2>. QED
    BY <2>1, <2>4
<1>10. 0 .. hops \subseteq Good
  <2>. HIDE DEF Good
  <2>. QED
    BY <1>8, <1>9, UpTo
<1>11. \A n \in 0 .. hops : (IF n = 0 THEN {start} ELSE d[n] \ d[n - 1]) = FirstWithin(start, n)
  <2>1. TAKE n \in 0 .. hops
  <2>2. CASE n = 0
    BY <2>2 DEF FirstWithin
  <2>3. CASE n # 0
    <3>1. n - 1 \in 0 .. hops
      BY <2>3
    <3>2. d[n] = WithinOf(start, n) /\ d[n - 1] = WithinOf(start, n - 1)
      BY <1>10, <3>1
    <3>. QED
      BY <2>3, <3>2 DEF FirstWithin
  <2>. QED
    BY <2>2, <2>3
<1>. QED
  BY <1>7, <1>11

\* the shortest chains of n facts, with where they end
ShortestOf(start, n) ==
    {[at |-> x[1], chain |-> x[2]] : x \in
        {y \in FirstWithin(start, n) \X [1 .. n -> Live] : y[2] \in ChainsBetween(start, y[1], n)}}

LEMMA ShortestOfIs ==
    ASSUME WorldInv, NEW start \in Real, NEW n \in Nat, NEW x
    PROVE  x \in ShortestOf(start, n) <=>
             \E b \in FirstWithin(start, n) : \E c \in ChainsBetween(start, b, n) : x = [at |-> b, chain |-> c]
<1>1. \A b : ChainsBetween(start, b, n) \subseteq [1 .. n -> Live]
  BY ChainsBetweenIs
<1>2. ASSUME NEW b \in FirstWithin(start, n), NEW c \in ChainsBetween(start, b, n),
             x = [at |-> b, chain |-> c]
      PROVE  x \in ShortestOf(start, n)
  <2>. DEFINE pair == <<b, c>>
  <2>1. pair \in FirstWithin(start, n) \X [1 .. n -> Live] /\ pair[1] = b /\ pair[2] = c
    BY <1>1
  <2>. HIDE DEF pair
  <2>. QED
    BY <1>2, <2>1 DEF ShortestOf
<1>3. ASSUME x \in ShortestOf(start, n)
      PROVE  \E b \in FirstWithin(start, n) : \E c \in ChainsBetween(start, b, n) :
                 x = [at |-> b, chain |-> c]
  <2>1. PICK y \in FirstWithin(start, n) \X [1 .. n -> Live] :
            y[2] \in ChainsBetween(start, y[1], n) /\ x = [at |-> y[1], chain |-> y[2]]
    BY <1>3 DEF ShortestOf
  <2>. QED
    BY <2>1
<1>. QED
  BY <1>2, <1>3

LEMMA LongerIs ==
    ASSUME WorldInv, NEW start \in Real, NEW n \in Nat
    PROVE  Longer(ShortestOf(start, n), FirstWithin(start, n + 1)) = ShortestOf(start, n + 1)
<1>. DEFINE layer == FirstWithin(start, n + 1)
<1>1. layer = WithinOf(start, n + 1) \ WithinOf(start, n) /\ layer \in SUBSET Real
  <2>1. n + 1 # 0 /\ (n + 1) - 1 = n
    OBVIOUS
  <2>. QED
    BY <2>1 DEF FirstWithin, WithinOf
<1>2. ASSUME NEW x \in Longer(ShortestOf(start, n), layer) PROVE x \in ShortestOf(start, n + 1)
  <2>1. PICK before \in ShortestOf(start, n), f \in Live :
          /\ Touches(f, before.at) /\ OtherEnd(f, before.at) \in layer
          /\ x = [at |-> OtherEnd(f, before.at), chain |-> Append(before.chain, f)]
    BY DEF Longer
  <2>2. PICK y \in FirstWithin(start, n) : \E c \in ChainsBetween(start, y, n) : before = [at |-> y, chain |-> c]
    BY ShortestOfIs
  <2>3. PICK c \in ChainsBetween(start, y, n) : before = [at |-> y, chain |-> c]
    BY <2>2
  <2>4. before.at = y /\ before.chain = c
    BY <2>3
  <2>. DEFINE z == OtherEnd(f, y)
  <2>5. z \in layer /\ x = [at |-> z, chain |-> Append(c, f)] /\ Ends(f) = {y, z}
        /\ y \in Real /\ z \in Real
    BY <2>1, <2>4, OtherEndIs
  <2>. HIDE DEF z, layer
  <2>6. Append(c, f) \in ChainsBetween(start, z, n + 1)
    <3>1. IsLonger(Append(c, f), start, z, n)
      BY <2>5 DEF IsLonger
    <3>. QED
      BY <2>5, <3>1, ChainsMore
  <2>7. n + 1 \in Nat /\ z \in FirstWithin(start, n + 1)
    BY <2>5 DEF layer
  <2>. QED
    BY <2>5, <2>6, <2>7, ShortestOfIs
<1>3. ASSUME NEW x \in ShortestOf(start, n + 1) PROVE x \in Longer(ShortestOf(start, n), layer)
  <2>1. PICK z \in layer : \E c \in ChainsBetween(start, z, n + 1) : x = [at |-> z, chain |-> c]
    <3>1. n + 1 \in Nat
      OBVIOUS
    <3>. QED
      BY <3>1, ShortestOfIs
  <2>2. PICK c \in ChainsBetween(start, z, n + 1) : x = [at |-> z, chain |-> c]
    BY <2>1
  <2>3. PICK y \in Real : \E f \in Live : \E c0 \in ChainsBetween(start, y, n) :
            Ends(f) = {y, z} /\ c = Append(c0, f)
    <3>1. z \in Real
      BY <1>1
    <3>. HIDE DEF layer
    <3>2. IsLonger(c, start, z, n)
      BY <3>1, ChainsMore
    <3>. QED
      BY <3>2 DEF IsLonger
  <2>4. PICK f \in Live : \E c0 \in ChainsBetween(start, y, n) : Ends(f) = {y, z} /\ c = Append(c0, f)
    BY <2>3
  <2>5. PICK c0 \in ChainsBetween(start, y, n) : Ends(f) = {y, z} /\ c = Append(c0, f)
    BY <2>4
  <2>6. z \in Real /\ z \notin WithinOf(start, n)
    BY <1>1
  <2>7. y \in WithinOf(start, n)
    BY DEF WithinOf, Within
  <2>8. y \in FirstWithin(start, n)
    <3>1. CASE n = 0
      BY <2>7, <3>1, WithinNone DEF FirstWithin
    <3>2. CASE n # 0
      <4>1. n - 1 \in Nat /\ (n - 1) + 1 = n
        BY <3>2
      <4>2. y \notin WithinOf(start, n - 1)
        <5>1. SUFFICES ASSUME y \in WithinOf(start, n - 1) PROVE FALSE
          OBVIOUS
        <5>2. z \in Beside(WithinOf(start, n - 1))
          BY <2>5, <5>1, BesideIs
        <5>3. z \in WithinOf(start, (n - 1) + 1)
          BY <4>1, <5>2, WithinMore
        <5>. QED
          BY <2>6, <4>1, <5>3
      <4>. QED
        BY <2>7, <3>2, <4>2 DEF FirstWithin
    <3>. QED
      BY <3>1, <3>2
  <2>. DEFINE before == [at |-> y, chain |-> c0]
  <2>9. before \in ShortestOf(start, n)
    BY <2>8, ShortestOfIs
  <2>10. before.at = y /\ before.chain = c0
    OBVIOUS
  <2>11. Touches(f, y) /\ OtherEnd(f, y) = z
    BY <2>5, OtherEndIs
  <2>12. x = [at |-> OtherEnd(f, before.at), chain |-> Append(before.chain, f)]
    BY <2>2, <2>5, <2>10, <2>11
  <2>13. Touches(f, before.at) /\ OtherEnd(f, before.at) \in layer
    BY <2>1, <2>10, <2>11
  <2>. DEFINE pair == <<before, f>>
  <2>. HIDE DEF before, layer
  <2>14. pair \in ShortestOf(start, n) \X Live /\ pair[1] = before /\ pair[2] = f
    BY <2>9
  <2>. HIDE DEF pair
  <2>. QED
    BY <2>12, <2>13, <2>14 DEF Longer
<1>. QED
  BY <1>2, <1>3

IsTo(d, start, hops) ==
    d = [n \in 0 .. hops |-> IF n = 0 THEN {[at |-> start, chain |-> <<>>]}
                             ELSE Longer(d[n - 1], Layers(start, hops)[n])]

LEMMA ChainsAre ==
    ASSUME WorldInv, NEW start \in Real, NEW hops \in Nat
    PROVE  Chains(start, hops) = ShortestOf(start, hops)
<1>. DEFINE first == {[at |-> start, chain |-> <<>>]}
            g == [n \in 0 .. hops |-> ShortestOf(start, n)]
            d == CHOOSE d : IsTo(d, start, hops)
<1>1. ShortestOf(start, 0) = first
  <2>1. ASSUME NEW x PROVE x \in ShortestOf(start, 0) <=> x = [at |-> start, chain |-> <<>>]
    <3>1. FirstWithin(start, 0) = {start}
      BY DEF FirstWithin
    <3>2. \A c : c \in ChainsBetween(start, start, 0) <=> c = <<>>
      BY ChainsNone
    <3>. QED
      BY <3>1, <3>2, ShortestOfIs
  <2>. QED
    BY <2>1
<1>2. \A n \in 1 .. hops : Longer(ShortestOf(start, n - 1), Layers(start, hops)[n]) = ShortestOf(start, n)
  <2>1. TAKE n \in 1 .. hops
  <2>2. n - 1 \in Nat /\ (n - 1) + 1 = n /\ n \in 0 .. hops
    OBVIOUS
  <2>3. Layers(start, hops)[n] = FirstWithin(start, n)
    BY <2>2, LayersAre
  <2>4. Longer(ShortestOf(start, n - 1), FirstWithin(start, (n - 1) + 1)) = ShortestOf(start, (n - 1) + 1)
    BY <2>2, LongerIs
  <2>. QED
    BY <2>2, <2>3, <2>4
<1>3. IsTo(g, start, hops)
  <2>1. \A n \in 0 .. hops : n = 0 \/ (n \in 1 .. hops /\ n # 0 /\ n - 1 \in 0 .. hops)
    OBVIOUS
  <2>2. \A n \in 0 .. hops : g[n] = ShortestOf(start, n)
    OBVIOUS
  <2>3. \A n \in 0 .. hops : g[n] = IF n = 0 THEN first ELSE Longer(g[n - 1], Layers(start, hops)[n])
    BY <1>1, <1>2, <2>1, <2>2
  <2>4. g = [n \in 0 .. hops |-> g[n]]
    OBVIOUS
  <2>. HIDE DEF g
  <2>5. g = [n \in 0 .. hops |-> IF n = 0 THEN first ELSE Longer(g[n - 1], Layers(start, hops)[n])]
    BY <2>3, <2>4
  <2>. QED
    BY <2>5 DEF IsTo
<1>4. IsTo(d, start, hops)
  BY <1>3
<1>5. Chains(start, hops) = d[hops]
  BY DEF Chains, IsTo
<1>. HIDE DEF d
<1>. DEFINE Good == {n \in 0 .. hops : d[n] = ShortestOf(start, n)}
<1>6. 0 \in Good
  <2>1. 0 \in 0 .. hops
    OBVIOUS
  <2>. QED
    BY <1>1, <1>4, <2>1 DEF IsTo
<1>7. ASSUME NEW n \in 0 .. hops - 1, n \in Good PROVE n + 1 \in Good
  <2>1. n + 1 \in 0 .. hops /\ n + 1 # 0 /\ (n + 1) - 1 = n /\ n + 1 \in 1 .. hops
    OBVIOUS
  <2>2. d[n + 1] = Longer(d[n], Layers(start, hops)[n + 1])
    BY <1>4, <2>1 DEF IsTo
  <2>3. Longer(ShortestOf(start, n), Layers(start, hops)[n + 1]) = ShortestOf(start, n + 1)
    BY <1>2, <2>1
  <2>. QED
    BY <1>7, <2>1, <2>2, <2>3
<1>8. 0 .. hops \subseteq Good
  <2>. HIDE DEF Good
  <2>. QED
    BY <1>6, <1>7, UpTo
<1>. QED
  BY <1>5, <1>8

(***************************************************************************)
(* Questions about chains, and summaries.                                  *)
(***************************************************************************)
LEMMA AskPathRight ==
    ASSUME WorldInv, NEW job, job.hops \in Nat \ {0}, AskPath(job) PROVE KeepsRight(job)
<1>. DEFINE chainsTo(start, end) == {c.chain : c \in {x \in Chains(start, job.hops) : x.at = end}}
<1>1. PICK start \in Starts : \E steps \in Walks(start, job.hops) :
        /\ Cardinality(chainsTo(start, EndOf(start, steps))) \in 1..MaxPaths
        /\ New("path", LAMBDA q : q.start = start /\ q.answers = {EndOf(start, steps)})
        /\ Keep(job, [Blank EXCEPT !.kind = "path", !.hops = job.hops, !.start = start,
                        !.answers = {EndOf(start, steps)},
                        !.paths = chainsTo(start, EndOf(start, steps))])
  BY DEF AskPath
<1>2. PICK steps \in Walks(start, job.hops) :
        /\ Cardinality(chainsTo(start, EndOf(start, steps))) \in 1..MaxPaths
        /\ New("path", LAMBDA q : q.start = start /\ q.answers = {EndOf(start, steps)})
        /\ Keep(job, [Blank EXCEPT !.kind = "path", !.hops = job.hops, !.start = start,
                        !.answers = {EndOf(start, steps)},
                        !.paths = chainsTo(start, EndOf(start, steps))])
  BY <1>1
<1>. DEFINE end == EndOf(start, steps)
            chains == chainsTo(start, end)
            q0 == [Blank EXCEPT !.kind = "path", !.hops = job.hops, !.start = start,
                        !.answers = {end}, !.paths = chains]
<1>3. /\ q0.kind = "path" /\ q0.hops = job.hops /\ q0.start = start
      /\ q0.answers = {end} /\ q0.paths = chains
  BY DEF Blank
<1>4. q0 \notin asked
  BY <1>2, <1>3 DEF New
<1>5. Keep(job, q0)
  BY <1>2
<1>6. Cardinality(chains) \in 1..MaxPaths
  BY <1>2
<1>. HIDE DEF q0, end
<1>. DEFINE n == job.hops
<1>7. start \in Real /\ n \in Nat /\ n - 1 \in Nat /\ n # 0
  BY StartIsReal
<1>8. \A x : x \in Chains(start, n) <=>
         \E b \in FirstWithin(start, n) : \E c \in ChainsBetween(start, b, n) : x = [at |-> b, chain |-> c]
  <2>. HIDE DEF n
  <2>. QED
    BY <1>7, ChainsAre, ShortestOfIs
<1>9. end \in FirstWithin(start, n)
  <2>1. chains # {}
    BY <1>6, FS_EmptySet
  <2>2. PICK x \in Chains(start, n) : x.at = end
    BY <2>1
  <2>. HIDE DEF n
  <2>3. PICK b \in FirstWithin(start, n) : \E c \in ChainsBetween(start, b, n) : x = [at |-> b, chain |-> c]
    BY <1>8, <2>2
  <2>4. x.at = b
    BY <2>3
  <2>. QED
    BY <2>2, <2>3, <2>4
<1>10. chains = ChainsBetween(start, end, n)
  <2>1. ASSUME NEW c \in chains PROVE c \in ChainsBetween(start, end, n)
    <3>1. PICK x \in Chains(start, n) : x.at = end /\ c = x.chain
      OBVIOUS
    <3>. HIDE DEF n
    <3>2. PICK b \in FirstWithin(start, n) : \E k \in ChainsBetween(start, b, n) : x = [at |-> b, chain |-> k]
      BY <1>8, <3>1
    <3>3. PICK k \in ChainsBetween(start, b, n) : x = [at |-> b, chain |-> k]
      BY <3>2
    <3>4. x.at = b /\ x.chain = k
      BY <3>3
    <3>. QED
      BY <3>1, <3>3, <3>4
  <2>2. ASSUME NEW c \in ChainsBetween(start, end, n) PROVE c \in chains
    <3>. DEFINE x == [at |-> end, chain |-> c]
    <3>1. x \in Chains(start, n) /\ x.at = end /\ x.chain = c
      BY <1>8, <1>9
    <3>. HIDE DEF x
    <3>. QED
      BY <3>1
  <2>. QED
    BY <2>1, <2>2
<1>11. ASSUME NEW m \in 0 .. n - 1 PROVE ChainsBetween(start, end, m) = {}
  <2>1. end \in Real /\ end \notin WithinOf(start, n - 1)
    BY <1>7, <1>9 DEF FirstWithin, WithinOf
  <2>. QED
    BY <2>1 DEF WithinOf, Within
<1>12. ShortestRight(q0)
  BY <1>3, <1>10, <1>11 DEF ShortestRight
<1>13. Right(q0)
  BY <1>3, <1>12 DEF Right
<1>. QED
  BY <1>4, <1>5, <1>13 DEF KeepsRight

\* What is forbidden is not true, and nothing true links the same two.
LEMMA ForbiddenIsEnded ==
    ASSUME WorldInv, NEW start, NEW f \in EndedClaims(start)
    PROVE  f \notin TrueIn(EndYear) /\ \A x \in TrueIn(EndYear) : Ends(x) # Ends(f)
<1>1. f.to # Never /\ Ends(f) \notin {Ends(x) : x \in Live}
  BY DEF EndedClaims
<1>. QED
  BY <1>1, LiveIs

LEMMA FairIsRight ==
    ASSUME WorldInv, NEW q, NEW start, q.required \subseteq Live, q.required # {},
           q.forbidden = EndedClaims(start)
    PROVE  FairRight(q)
BY LiveIs, ForbiddenIsEnded DEF FairRight

LEMMA AskOpenEndedRight ==
    ASSUME WorldInv, NEW job, AskOpenEnded(job) PROVE KeepsRight(job)
<1>. DEFINE hops == Fewest(job.hops, 2)
            some(own) == kSubset(Fewest(MaxRequired, Cardinality(own)), own)
            near(start, required) == UNION {Ends(f) : f \in required} \ {start}
            context(start, required) ==
                IF hops < 2 THEN {}
                ELSE UNION {Around(i) : i \in near(start, required)} \ Around(start)
            more(start, required) ==
                FirstListed(MaxContext, near(start, required), context(start, required))
            full(start, facts0) ==
                [Blank EXCEPT !.kind = "open_ended", !.hops = hops, !.start = start,
                    !.required = facts0, !.paths = Singles(facts0), !.forbidden = EndedClaims(start)]
<1>1. PICK start \in Starts :
        /\ New("open_ended", LAMBDA q : q.start = start /\ q.hops = hops)
        /\ \E required \in some(Around(start)) : \E extra \in more(start, required) :
               Keep(job, full(start, required \cup extra))
  BY DEF AskOpenEnded
<1>2. PICK required \in some(Around(start)) : \E extra \in more(start, required) :
          Keep(job, full(start, required \cup extra))
  BY <1>1
<1>3. PICK extra \in more(start, required) : Keep(job, full(start, required \cup extra))
  BY <1>2
<1>. DEFINE q0 == full(start, required \cup extra)
<1>4. /\ q0.kind = "open_ended" /\ q0.hops = hops /\ q0.start = start
      /\ q0.required = required \cup extra /\ q0.forbidden = EndedClaims(start)
  BY DEF Blank
<1>5. q0 \notin asked
  BY <1>1, <1>4 DEF New
<1>6. required \subseteq Live /\ required # {}
  <2>1. Around(start) # {} /\ Around(start) \subseteq Live
    BY DEF Starts, Around
  <2>2. IsFiniteSet(Around(start))
    BY <2>1, LiveIs, FS_Subset
  <2>3. Cardinality(Around(start)) \in Nat \ {0}
    BY <2>1, <2>2, FS_CardinalityType, FS_EmptySet
  <2>4. Fewest(MaxRequired, Cardinality(Around(start))) # 0
    BY <2>3, QuestionsAssumption DEF Fewest
  <2>5. required \subseteq Around(start)
        /\ Cardinality(required) = Fewest(MaxRequired, Cardinality(Around(start)))
    BY DEF kSubset
  <2>. QED
    BY <2>1, <2>4, <2>5, FS_EmptySet
<1>7. extra \subseteq Live
  <2>1. \A i : Around(i) \subseteq Live
    BY DEF Around
  <2>2. context(start, required) \subseteq Live
    BY <2>1
  <2>3. extra \subseteq context(start, required)
    BY DEF FirstListed
  <2>. QED
    BY <2>2, <2>3
<1>8. Keep(job, q0)
  BY <1>3
<1>. HIDE DEF q0
<1>9. FairRight(q0)
  <2>1. q0.required \subseteq Live /\ q0.required # {}
    BY <1>4, <1>6, <1>7
  <2>. QED
    BY <1>4, <2>1, FairIsRight
<1>. QED
  BY <1>4, <1>5, <1>8, <1>9 DEF KeepsRight, Right

(***************************************************************************)
(* More sums.                                                              *)
(***************************************************************************)
LEMMA SumOne == ASSUME NEW f, NEW x, f[x] \in Nat PROVE SumFunctionOnSet(f, {x}) = f[x]
<1>1. Naturals1(f, {x}) /\ {x} \ {x} = {}
  BY FS_Singleton DEF Naturals1
<1>2. SumFunctionOnSet(f, {x}) = f[x] + SumFunctionOnSet(f, {x} \ {x})
  BY <1>1, SumRemove
<1>3. SumFunctionOnSet(f, {}) = 0
  BY SumEmpty
<1>. QED
  BY <1>1, <1>2, <1>3

\* What is zero adds nothing.
LEMMA SumZeros ==
    ASSUME NEW T, NEW f, Naturals1(f, T), NEW S \in SUBSET T, \A x \in T \ S : f[x] = 0
    PROVE  SumFunctionOnSet(f, T) = SumFunctionOnSet(f, S)
<1>. DEFINE Good == {s \in SUBSET T : SumFunctionOnSet(f, s) = SumFunctionOnSet(f, s \cap S)}
<1>1. IsFiniteSet(T)
  BY DEF Naturals1
<1>2. {} \in Good
  <2>1. {} \cap S = {}
    OBVIOUS
  <2>. QED
    BY <2>1
<1>3. ASSUME NEW s \in SUBSET T, NEW x \in T \ s, s \in Good PROVE s \cup {x} \in Good
  <2>1. AddsUp(f, s, x)
    BY SumStep
  <2>2. SumFunctionOnSet(f, s) = SumFunctionOnSet(f, s \cap S)
    BY <1>3
  <2>3. CASE x \in S
    <3>1. s \cap S \in SUBSET T /\ x \in T \ (s \cap S) /\ (s \cup {x}) \cap S = (s \cap S) \cup {x}
      BY <2>3
    <3>2. AddsUp(f, s \cap S, x)
      BY <3>1, SumStep
    <3>. QED
      BY <2>1, <2>2, <3>1, <3>2 DEF AddsUp
  <2>4. CASE x \notin S
    <3>1. (s \cup {x}) \cap S = s \cap S /\ f[x] = 0
      BY <2>4
    <3>. QED
      BY <2>1, <2>2, <3>1 DEF AddsUp
  <2>. QED
    BY <2>3, <2>4
<1>4. T \in Good
  <2>. HIDE DEF Good
  <2>. QED
    BY <1>1, <1>2, <1>3, SetInduction
<1>5. T \cap S = S
  OBVIOUS
<1>. QED
  BY <1>4, <1>5

\* A sum changes by what one of its terms changes by.
LEMMA SumChange ==
    ASSUME NEW S, NEW f, NEW g, NEW x \in S, Naturals1(f, S), g[x] \in Nat,
           \A y \in S \ {x} : g[y] = f[y]
    PROVE  /\ Naturals1(g, S)
           /\ SumFunctionOnSet(g, S) + f[x] = SumFunctionOnSet(f, S) + g[x]
<1>1. Naturals1(g, S)
  BY DEF Naturals1
<1>2. Naturals1(f, S \ {x}) /\ f[x] \in Nat
  BY FS_Subset DEF Naturals1
<1>3. SumFunctionOnSet(f, S \ {x}) \in Nat
  BY <1>2, SumType
<1>4. SumFunctionOnSet(f, S \ {x}) = SumFunctionOnSet(g, S \ {x})
  BY <1>2, SumSame
<1>5. /\ SumFunctionOnSet(f, S) = f[x] + SumFunctionOnSet(f, S \ {x})
      /\ SumFunctionOnSet(g, S) = g[x] + SumFunctionOnSet(g, S \ {x})
  BY <1>1, SumRemove
<1>. QED
  BY <1>1, <1>2, <1>3, <1>4, <1>5

\* The same terms under other names have the same sum.
LEMMA SumRenamed ==
    ASSUME NEW S, NEW f, Naturals1(f, S), NEW T, NEW g, NEW rename \in [S -> T],
           \A x, y \in S : rename[x] = rename[y] => x = y,
           \A t \in T : \E x \in S : rename[x] = t,
           \A x \in S : g[rename[x]] = f[x]
    PROVE  SumFunctionOnSet(g, T) = SumFunctionOnSet(f, S)
<1>1. IsFiniteSet(S) /\ \A x \in S : f[x] \in Nat
  BY DEF Naturals1
<1>2. IsFiniteSet(T)
  <2>1. OneToOne(rename, S, T)
    BY DEF OneToOne
  <2>. QED
    BY <1>1, <2>1, SameSize
<1>3. ASSUME NEW t \in T PROVE g[t] = SumFunctionOnSet(f, {x \in S : rename[x] = t})
  <2>1. PICK x \in S : rename[x] = t
    OBVIOUS
  <2>2. {y \in S : rename[y] = t} = {x}
    BY <2>1
  <2>3. SumFunctionOnSet(f, {x}) = f[x] /\ g[t] = f[x]
    BY <1>1, <2>1, SumOne
  <2>. QED
    BY <2>2, <2>3
<1>4. SumsByClass(g, f, rename, S, T)
  BY <1>3 DEF SumsByClass
<1>. QED
  BY <1>1, <1>2, <1>4, SumOfSums

(***************************************************************************)
(* The kinds, and how a plan splits them.                                  *)
(***************************************************************************)
HoppedKinds == {Hopped[i] : i \in DOMAIN Hopped}
UnhoppedKinds == {Unhopped[i] : i \in DOMAIN Unhopped}

LEMMA KindsAre ==
    /\ HoppedKinds = {"set", "count", "path", "open_ended"}
    /\ UnhoppedKinds = {"compare", "superlative", "unanswerable", "false_premise", "as_of", "latest",
                        "retracted"}
    /\ Kinds = {"entity"} \cup HoppedKinds \cup UnhoppedKinds
    /\ IsFiniteSet(Kinds) /\ "make_up" \notin Kinds
    /\ "entity" \notin HoppedKinds \cup UnhoppedKinds /\ HoppedKinds \cap UnhoppedKinds = {}
<1>1. HoppedKinds = {"set", "count", "path", "open_ended"}
  <2>1. DOMAIN Hopped = 1 .. 4
    BY DEF Hopped
  <2>2. \A i \in 1 .. 4 : i = 1 \/ i = 2 \/ i = 3 \/ i = 4
    OBVIOUS
  <2>. QED
    BY <2>1, <2>2 DEF HoppedKinds, Hopped
<1>2. UnhoppedKinds = {"compare", "superlative", "unanswerable", "false_premise", "as_of", "latest",
                       "retracted"}
  <2>1. DOMAIN Unhopped = 1 .. 7
    BY DEF Unhopped
  <2>2. \A i \in 1 .. 7 : i = 1 \/ i = 2 \/ i = 3 \/ i = 4 \/ i = 5 \/ i = 6 \/ i = 7
    OBVIOUS
  <2>. QED
    BY <2>1, <2>2 DEF UnhoppedKinds, Unhopped
<1>3. Kinds = {"entity"} \cup HoppedKinds \cup UnhoppedKinds
  BY DEF Kinds, HoppedKinds, UnhoppedKinds
<1>4. IsFiniteSet(Kinds)
  <2>1. \A S, x : IsFiniteSet(S) => IsFiniteSet(S \cup {x})
    BY FS_AddElement
  <2>2. IsFiniteSet({})
    BY FS_EmptySet
  <2>3. HoppedKinds = {} \cup {"set"} \cup {"count"} \cup {"path"} \cup {"open_ended"}
    BY <1>1
  <2>4. IsFiniteSet({} \cup {"set"} \cup {"count"} \cup {"path"} \cup {"open_ended"})
    BY <2>1, <2>2
  <2>5. UnhoppedKinds = {} \cup {"compare"} \cup {"superlative"} \cup {"unanswerable"}
            \cup {"false_premise"} \cup {"as_of"} \cup {"latest"} \cup {"retracted"}
    BY <1>2
  <2>6. IsFiniteSet({} \cup {"compare"} \cup {"superlative"} \cup {"unanswerable"}
            \cup {"false_premise"} \cup {"as_of"} \cup {"latest"} \cup {"retracted"})
    BY <2>1, <2>2
  <2>7. IsFiniteSet({} \cup {"entity"})
    BY <2>1, <2>2
  <2>8. {} \cup {"entity"} = {"entity"}
    OBVIOUS
  <2>9. IsFiniteSet(HoppedKinds) /\ IsFiniteSet(UnhoppedKinds) /\ IsFiniteSet({"entity"})
    BY <2>3, <2>4, <2>5, <2>6, <2>7, <2>8
  <2>10. IsFiniteSet({"entity"} \cup HoppedKinds)
    BY <2>9, FS_Union
  <2>11. IsFiniteSet(({"entity"} \cup HoppedKinds) \cup UnhoppedKinds)
    BY <2>9, <2>10, FS_Union
  <2>. QED
    BY <1>3, <2>11
<1>5. /\ "make_up" \notin {"entity"} \cup HoppedKinds \cup UnhoppedKinds
      /\ "entity" \notin HoppedKinds \cup UnhoppedKinds /\ HoppedKinds \cap UnhoppedKinds = {}
  BY <1>1, <1>2
<1>. QED
  BY <1>1, <1>2, <1>3, <1>4, <1>5

\* a quota for every kind there is
QuotaOf(q) == [k \in Kinds |-> Share(Apportion(q.n, q.typeMix), k)]

LEMMA QuotasAddUp ==
    ASSUME NEW q \in QuestionSpecs
    PROVE  /\ q.n \in Nat /\ Naturals1(QuotaOf(q), Kinds)
           /\ SumFunctionOnSet(QuotaOf(q), Kinds) = q.n
           /\ Naturals1(QuotaOf(q), Kinds \ {"entity"}) /\ QuotaOf(q)["entity"] \in Nat
           /\ q.n = QuotaOf(q)["entity"] + SumFunctionOnSet(QuotaOf(q), Kinds \ {"entity"})
<1>. DEFINE share == Apportion(q.n, q.typeMix)
            W == Weighted(q.typeMix)
            s == QuotaOf(q)
<1>1. q.n \in Nat /\ IsMix(q.typeMix, Kinds) /\ W # {}
  BY QuestionsAssumption
<1>2. DOMAIN q.typeMix \subseteq Kinds /\ IsFiniteSet(DOMAIN q.typeMix) /\ W \in SUBSET Kinds
  BY <1>1, KindsAre, FS_Subset DEF IsMix, Weighted
<1>3. share \in [W -> Nat] /\ SumFunctionOnSet(share, W) = q.n
  <2>1. IsSplit(share, q.n, q.typeMix)
    BY <1>1, <1>2, ApportionSplits
  <2>. QED
    BY <2>1 DEF IsSplit
<1>. HIDE DEF share, W
<1>4. /\ \A k \in W : s[k] = share[k]
      /\ \A k \in Kinds \ W : s[k] = 0
      /\ \A k \in Kinds : s[k] \in Nat
  <2>1. \A k \in Kinds : s[k] = Share(share, k)
    BY DEF QuotaOf, share
  <2>2. DOMAIN share = W
    BY <1>3
  <2>3. \A k \in Kinds : s[k] = IF k \in W THEN share[k] ELSE 0
    BY <2>1, <2>2 DEF Share
  <2>. QED
    BY <1>2, <1>3, <2>3
<1>. HIDE DEF s
<1>5. Naturals1(s, Kinds)
  BY <1>4, KindsAre DEF Naturals1
<1>6. SumFunctionOnSet(s, Kinds) = SumFunctionOnSet(s, W)
  BY <1>2, <1>4, <1>5, SumZeros
<1>7. SumFunctionOnSet(s, W) = SumFunctionOnSet(share, W)
  <2>1. Naturals1(s, W)
    BY <1>2, <1>5, FS_Subset DEF Naturals1
  <2>. QED
    BY <1>4, <2>1, SumSame
<1>8. "entity" \in Kinds
  BY KindsAre
<1>9. SumFunctionOnSet(s, Kinds) = s["entity"] + SumFunctionOnSet(s, Kinds \ {"entity"})
  BY <1>5, <1>8, SumRemove
<1>10. Naturals1(s, Kinds \ {"entity"})
  BY <1>5, FS_Subset DEF Naturals1
<1>. QED
  BY <1>1, <1>3, <1>4, <1>5, <1>6, <1>7, <1>8, <1>9, <1>10 DEF s

\* A number of questions is split over hop counts.
LEMMA HopsAddUp ==
    ASSUME NEW q \in QuestionSpecs, NEW total \in Nat
    PROVE  /\ Apportion(total, q.hopMix) \in [Weighted(q.hopMix) -> Nat]
           /\ SumFunctionOnSet(Apportion(total, q.hopMix), Weighted(q.hopMix)) = total
           /\ Weighted(q.hopMix) \subseteq 1 .. MaxHops /\ IsFiniteSet(Weighted(q.hopMix))
           /\ Weighted(q.hopMix) # {} /\ Weighted(q.hopMix) \subseteq DOMAIN q.hopMix
<1>1. IsMix(q.hopMix, 1 .. MaxHops) /\ Weighted(q.hopMix) # {}
  BY QuestionsAssumption
<1>2. /\ DOMAIN q.hopMix \subseteq 1 .. MaxHops /\ IsFiniteSet(DOMAIN q.hopMix)
      /\ Weighted(q.hopMix) \subseteq DOMAIN q.hopMix
  <2>1. IsFiniteSet(1 .. MaxHops)
    <3>1. 1 \in Int /\ MaxHops \in Int
      BY DEF MaxHops
    <3>. QED
      BY <3>1, FS_Interval
  <2>. QED
    BY <1>1, <2>1, FS_Subset DEF IsMix, Weighted
<1>3. IsSplit(Apportion(total, q.hopMix), total, q.hopMix)
  BY <1>1, <1>2, ApportionSplits
<1>. QED
  BY <1>1, <1>2, <1>3, FS_Subset DEF IsSplit

(***************************************************************************)
(* The gold.                                                               *)
(***************************************************************************)
PlannedKinds == {"entity", "make_up"}

EntitiesPlanned == \E j \in DOMAIN todo : j.kind = "entity"

\* the questions that are yet to be derived
Owed == SumFunctionOnSet(todo, DOMAIN todo) + (IF EntitiesPlanned THEN 0 ELSE EntityTotal)

\* the jobs: what they still owe and what is there already add up to what was asked for, and
\* while a job for entities owes something, the job in its place owes nothing
JobsInv ==
    /\ wanted \in QuestionSpecs /\ short \in Nat
    /\ Naturals1(todo, DOMAIN todo)
    /\ \A j \in DOMAIN todo : j = Job(j.kind, j.hops) /\ j.hops \in 1 .. MaxHops
    /\ EntitiesPlanned =>
        \A j \in DOMAIN todo :
            /\ j.kind \in PlannedKinds
            /\ Job("make_up", j.hops) \in DOMAIN todo
            /\ j.kind = "entity" /\ todo[j] > 0 => todo[Job("make_up", j.hops)] = 0
    /\ ~EntitiesPlanned => \A j \in DOMAIN todo : j.kind \in Kinds \ {"entity"}
    /\ Cardinality(asked) + Owed = wanted.n

GoldInv ==
    /\ IsFiniteSet(asked) /\ \A q \in asked : Right(q)
    /\ stage \notin {"asking", "asked", "failed"} => asked = {} /\ short = 0
    /\ stage \in {"asking", "asked"} => JobsInv
    /\ stage = "asked" => EntitiesPlanned /\ \A j \in DOMAIN todo : todo[j] = 0

(***************************************************************************)
(* Right questions stay right.                                             *)
(***************************************************************************)
LEMMA TruthStays ==
    ASSUME UNCHANGED <<type, facts>>
    PROVE  /\ \A year : TrueIn(year)' = TrueIn(year)
           /\ \A start, relations, year :
                Denoted(start, relations, year)' = Denoted(start, relations, year)
           /\ \A path, q : Supports(path, q)' <=> Supports(path, q)
           /\ \A i, r : CountOf(i, r)' = CountOf(i, r)
           /\ \A q, year : TopicIn(q, year)' = TopicIn(q, year)
           /\ \A a, b, n : ChainsBetween(a, b, n)' = ChainsBetween(a, b, n)
<1>1. \A year : TrueIn(year)' = TrueIn(year)
  BY DEF TrueIn
<1>2. \A start, relations, year : Denoted(start, relations, year)' = Denoted(start, relations, year)
  BY <1>1 DEF Denoted
<1>3. \A path, q : Supports(path, q)' <=> Supports(path, q)
  BY <1>1 DEF Supports
<1>4. \A i, r : CountOf(i, r)' = CountOf(i, r)
  BY <1>1 DEF CountOf
<1>5. \A q, year : TopicIn(q, year)' = TopicIn(q, year)
  BY <1>1 DEF TopicIn
<1>6. \A a, b, n : ChainsBetween(a, b, n)' = ChainsBetween(a, b, n)
  BY <1>1 DEF ChainsBetween
<1>. QED
  BY <1>1, <1>2, <1>3, <1>4, <1>5, <1>6

LEMMA RightStays ==
    ASSUME UNCHANGED <<type, facts>>, NEW q, Right(q) PROVE Right(q)'
<1>1. DenotedRight(q) => DenotedRight(q)'
  BY TruthStays DEF DenotedRight
<1>0. ChainShaped(q) => ChainShaped(q)'
  BY DEF ChainShaped, Relations, Steps, Live, CurrentEdges, Relation
<1>2. AloneRight(q) => AloneRight(q)'
  BY TruthStays DEF AloneRight
<1>3. MoreRight(q) => MoreRight(q)'
  BY TruthStays DEF MoreRight
<1>4. NeverRight(q) => NeverRight(q)'
  BY TruthStays DEF NeverRight
<1>5. PremiseRight(q) => PremiseRight(q)'
  BY TruthStays DEF PremiseRight
<1>6. DatedRight(q) => DatedRight(q)'
  BY TruthStays DEF DatedRight
<1>7. ShortestRight(q) => ShortestRight(q)'
  BY TruthStays DEF ShortestRight
<1>8. FairRight(q) => FairRight(q)'
  BY TruthStays DEF FairRight
<1>. QED
  BY <1>0, <1>1, <1>2, <1>3, <1>4, <1>5, <1>6, <1>7, <1>8 DEF Right

\* Each action for a kind of question keeps one that is right.
LEMMA AskRight ==
    ASSUME WorldInv, NEW job, job.hops \in 1 .. MaxHops, Ask(job)
    PROVE  Current(job) /\ KeepsRight(job)
<1>1. job.hops \in Nat /\ job.hops \in Nat \ {0}
  OBVIOUS
<1>2. Current(job)
  BY AskKeepsOne DEF KeepsOne
<1>. QED
  BY <1>1, <1>2, AskEntityRight, AskSetRight, AskCompareRight, AskSuperlativeRight,
     AskUnanswerableRight, AskFalsePremiseRight, AskAsOfRight, AskLatestRight, AskRetractedRight,
     AskPathRight, AskOpenEndedRight DEF Ask

(***************************************************************************)
(* The quota.                                                              *)
(***************************************************************************)
OwedBy(work) == SumFunctionOnSet(work, DOMAIN todo)

Rest == IF EntitiesPlanned THEN 0 ELSE EntityTotal

LEMMA OwedIs ==
    ASSUME GoldInv, stage = "asking"
    PROVE  /\ Cardinality(asked) \in Nat /\ OwedBy(todo) \in Nat
           /\ wanted \in QuestionSpecs /\ Quota("entity") \in Nat /\ EntityTotal \in Nat
           /\ Rest \in Nat /\ Cardinality(asked) + OwedBy(todo) + Rest = wanted.n
<1>1. JobsInv /\ IsFiniteSet(asked)
  BY DEF GoldInv
<1>2. Cardinality(asked) \in Nat /\ OwedBy(todo) \in Nat
  BY <1>1, FS_CardinalityType, SumType DEF JobsInv, OwedBy
<1>3. wanted \in QuestionSpecs /\ short \in Nat
  BY <1>1 DEF JobsInv
<1>4. Quota("entity") \in Nat
  <2>1. QuotaOf(wanted)["entity"] = Quota("entity")
    BY KindsAre DEF QuotaOf, Quota
  <2>. QED
    BY <1>3, <2>1, QuotasAddUp
<1>5. EntityTotal \in Nat /\ Rest \in Nat
  BY <1>3, <1>4 DEF EntityTotal, Rest
<1>6. Cardinality(asked) + (OwedBy(todo) + Rest) = wanted.n
  BY <1>1 DEF JobsInv, Owed, OwedBy, Rest
<1>. QED
  BY <1>2, <1>3, <1>4, <1>5, <1>6

\* a job may only lose what is gained elsewhere
LEMMA TodoChanges ==
    ASSUME GoldInv, stage = "asking", wanted' = wanted, short' \in Nat, DOMAIN todo' = DOMAIN todo,
           Naturals1(todo', DOMAIN todo),
           EntitiesPlanned => \A j \in DOMAIN todo :
               j.kind = "entity" /\ todo'[j] > 0 => todo'[Job("make_up", j.hops)] = 0,
           Cardinality(asked') + (OwedBy(todo') + (IF EntitiesPlanned THEN 0 ELSE EntityTotal'))
              = wanted.n
    PROVE  JobsInv'
<1>1. JobsInv
  BY DEF GoldInv
<1>2. EntitiesPlanned' <=> EntitiesPlanned
  BY DEF EntitiesPlanned
<1>3. wanted' \in QuestionSpecs
  BY <1>1 DEF JobsInv
<1>4. \A j \in DOMAIN todo' : j = Job(j.kind, j.hops) /\ j.hops \in 1 .. MaxHops
  BY <1>1 DEF JobsInv
<1>5. EntitiesPlanned' => \A j \in DOMAIN todo' :
            /\ j.kind \in PlannedKinds
            /\ Job("make_up", j.hops) \in DOMAIN todo'
            /\ j.kind = "entity" /\ todo'[j] > 0 => todo'[Job("make_up", j.hops)] = 0
  BY <1>1, <1>2 DEF JobsInv
<1>6. ~EntitiesPlanned' => \A j \in DOMAIN todo' : j.kind \in Kinds \ {"entity"}
  BY <1>1, <1>2 DEF JobsInv
<1>7. Cardinality(asked') + Owed' = wanted'.n
  BY <1>2 DEF Owed, OwedBy
<1>8. Naturals1(todo', DOMAIN todo')
  OBVIOUS
<1>. QED
  BY <1>3, <1>4, <1>5, <1>6, <1>7, <1>8 DEF JobsInv

LEMMA KeepKeepsGoldInv ==
    ASSUME GoldInv, NEW job \in DOMAIN todo, Current(job), KeepsRight(job) PROVE GoldInv'
<1>1. PICK q : Keep(job, q) /\ q \notin asked /\ Right(q)
  BY DEF KeepsRight
<1>2. /\ asked' = asked \cup {q} /\ todo' = [todo EXCEPT ![job] = @ - 1]
      /\ UNCHANGED <<stage, type, facts, wanted, short>> /\ stage = "asking" /\ todo[job] > 0
  BY <1>1 DEF Keep, Current
<1>3. IsFiniteSet(asked) /\ JobsInv
  BY <1>2 DEF GoldInv
<1>4. IsFiniteSet(asked') /\ Cardinality(asked') = Cardinality(asked) + 1
  BY <1>1, <1>2, <1>3, FS_AddElement
<1>5. \A x \in asked' : Right(x)'
  <2>1. \A x \in asked \cup {q} : Right(x)
    BY <1>1 DEF GoldInv
  <2>. QED
    BY <1>2, <2>1, RightStays
<1>6. /\ DOMAIN todo' = DOMAIN todo /\ todo'[job] = todo[job] - 1
      /\ \A j \in DOMAIN todo \ {job} : todo'[j] = todo[j]
  BY <1>2
<1>7. Naturals1(todo, DOMAIN todo) /\ todo[job] \in Nat /\ todo'[job] \in Nat
  <2>1. Naturals1(todo, DOMAIN todo) /\ todo[job] \in Nat
    BY <1>3 DEF JobsInv, Naturals1
  <2>. QED
    BY <1>2, <1>6, <2>1
<1>8. /\ Naturals1(todo', DOMAIN todo) /\ OwedBy(todo') + todo[job] = OwedBy(todo) + todo'[job]
  BY <1>6, <1>7, SumChange DEF OwedBy
<1>9. OwedBy(todo') \in Nat
  BY <1>8, SumType DEF OwedBy
<1>10. EntityTotal' = EntityTotal
  BY <1>2 DEF EntityTotal, Quota
<1>11. Cardinality(asked') + (OwedBy(todo') + (IF EntitiesPlanned THEN 0 ELSE EntityTotal')) = wanted.n
  <2>1. (IF EntitiesPlanned THEN 0 ELSE EntityTotal') = Rest
    BY <1>10 DEF Rest
  <2>2. Cardinality(asked) + OwedBy(todo) + Rest = wanted.n
        /\ Cardinality(asked) \in Nat /\ OwedBy(todo) \in Nat /\ Rest \in Nat
    BY <1>2, OwedIs
  <2>. HIDE DEF Rest
  <2>. QED
    BY <1>4, <1>6, <1>7, <1>8, <1>9, <2>1, <2>2
<1>12. ASSUME EntitiesPlanned, NEW j \in DOMAIN todo, j.kind = "entity", todo'[j] > 0
       PROVE  todo'[Job("make_up", j.hops)] = 0
  <2>1. todo[j] > 0
    BY <1>6, <1>7, <1>12
  <2>2. Job("make_up", j.hops) \in DOMAIN todo /\ todo[Job("make_up", j.hops)] = 0
    BY <1>3, <1>12, <2>1 DEF JobsInv
  <2>3. Job("make_up", j.hops) # job
    BY <1>2, <2>2
  <2>. QED
    BY <1>6, <2>2, <2>3
<1>13. short' \in Nat
  BY <1>2, <1>3 DEF JobsInv
<1>14. JobsInv'
  BY <1>2, <1>6, <1>8, <1>11, <1>12, <1>13, TodoChanges
<1>. QED
  BY <1>2, <1>4, <1>5, <1>14 DEF GoldInv

\* steps that do not touch the questions there are
AskedSame == UNCHANGED <<asked, type, facts>>

LEMMA AskedStays == ASSUME GoldInv, AskedSame PROVE IsFiniteSet(asked') /\ \A q \in asked' : Right(q)'
<1>1. IsFiniteSet(asked) /\ \A q \in asked : Right(q)
  BY DEF GoldInv
<1>2. UNCHANGED <<type, facts>> /\ asked' = asked
  BY DEF AskedSame
<1>. QED
  BY <1>1, <1>2, RightStays

LEMMA GiveUpKeepsGoldInv ==
    ASSUME GoldInv, NEW job \in DOMAIN todo, GiveUp(job) PROVE GoldInv'
<1>1. stage = "asking" /\ todo[job] > 0 /\ AskedSame
  BY DEF GiveUp, Current, Fail, questionVars, AskedSame
<1>2. IsFiniteSet(asked') /\ \A q \in asked' : Right(q)'
  BY <1>1, AskedStays
<1>3. JobsInv /\ Naturals1(todo, DOMAIN todo) /\ todo[job] \in Nat /\ short \in Nat
  BY <1>1 DEF GoldInv, JobsInv, Naturals1
<1>4. /\ Cardinality(asked) + OwedBy(todo) + Rest = wanted.n
      /\ Cardinality(asked) \in Nat /\ OwedBy(todo) \in Nat /\ Rest \in Nat
  BY <1>1, OwedIs
<1>5. asked' = asked
  BY <1>1 DEF AskedSame
<1>6. CASE job.kind = "make_up"
  <2>1. stage' = "failed"
    BY <1>6 DEF GiveUp, Fail
  <2>. QED
    BY <1>2, <2>1 DEF GoldInv
<1>7. CASE job.kind = "entity"
  <2>. DEFINE stand == Job("make_up", job.hops)
  <2>1. /\ todo' = [todo EXCEPT ![job] = 0, ![stand] = todo[job]]
        /\ UNCHANGED <<stage, wanted, short>>
    BY <1>7 DEF GiveUp
  <2>2. EntitiesPlanned
    BY <1>7 DEF EntitiesPlanned
  <2>3. stand \in DOMAIN todo /\ todo[stand] = 0 /\ stand # job /\ job = Job("entity", job.hops)
    <3>1. stand.kind = "make_up"
      BY DEF Job
    <3>2. job = Job("entity", job.hops) /\ stand \in DOMAIN todo /\ todo[stand] = 0
      BY <1>1, <1>3, <1>7, <2>2 DEF JobsInv
    <3>. QED
      BY <1>7, <3>1, <3>2
  <2>. HIDE DEF stand
  <2>4. /\ DOMAIN todo' = DOMAIN todo /\ todo'[job] = 0 /\ todo'[stand] = todo[job]
        /\ \A j \in DOMAIN todo \ {job, stand} : todo'[j] = todo[j]
    BY <2>1, <2>3
  <2>. DEFINE between == [todo EXCEPT ![job] = 0]
  <2>5. /\ DOMAIN between = DOMAIN todo /\ between[job] = 0 /\ between[stand] = 0
        /\ \A j \in DOMAIN todo \ {job} : between[j] = todo[j]
    BY <2>3
  <2>. HIDE DEF between
  <2>6. Naturals1(between, DOMAIN todo) /\ OwedBy(between) + todo[job] = OwedBy(todo) + 0
    BY <1>3, <2>5, SumChange DEF OwedBy
  <2>7. /\ Naturals1(todo', DOMAIN todo)
        /\ OwedBy(todo') + 0 = OwedBy(between) + todo[job]
    <3>1. \A j \in DOMAIN todo \ {stand} : todo'[j] = between[j]
      BY <2>4, <2>5
    <3>2. todo'[stand] \in Nat /\ between[stand] = 0
      BY <1>3, <2>4, <2>5
    <3>. QED
      BY <2>3, <2>4, <2>6, <3>1, <3>2, SumChange DEF OwedBy
  <2>8. OwedBy(todo') = OwedBy(todo)
    <3>1. OwedBy(todo') \in Nat /\ OwedBy(between) \in Nat
      BY <2>6, <2>7, SumType DEF OwedBy
    <3>. QED
      BY <1>3, <1>4, <2>6, <2>7, <3>1
  <2>9. ASSUME NEW j \in DOMAIN todo, j.kind = "entity", todo'[j] > 0
        PROVE  todo'[Job("make_up", j.hops)] = 0
    <3>1. j # job /\ j # stand
      <4>1. stand.kind = "make_up"
        BY DEF Job, stand
      <4>. QED
        BY <2>4, <2>9, <4>1
    <3>2. todo[j] > 0
      BY <2>4, <2>9, <3>1
    <3>3. Job("make_up", j.hops) \in DOMAIN todo /\ todo[Job("make_up", j.hops)] = 0
          /\ j = Job("entity", j.hops)
      BY <1>3, <2>2, <2>9, <3>2 DEF JobsInv
    <3>4. Job("make_up", j.hops) # stand /\ Job("make_up", j.hops) # job
      <4>1. j.hops # job.hops
        BY <2>3, <3>1, <3>3
      <4>2. Job("make_up", j.hops).hops = j.hops /\ stand.hops = job.hops
            /\ Job("make_up", j.hops).kind = "make_up"
        BY DEF Job, stand
      <4>. QED
        BY <1>7, <4>1, <4>2
    <3>. QED
      BY <2>4, <3>3, <3>4
  <2>10. Cardinality(asked') + (OwedBy(todo') + (IF EntitiesPlanned THEN 0 ELSE EntityTotal')) = wanted.n
    <3>1. Rest = 0
      BY <2>2 DEF Rest
    <3>. QED
      BY <1>4, <1>5, <2>2, <2>8, <3>1
  <2>11. wanted' = wanted /\ short' \in Nat
    BY <1>3, <2>1
  <2>12. JobsInv'
    BY <1>1, <2>4, <2>7, <2>9, <2>10, <2>11, TodoChanges
  <2>. QED
    BY <1>1, <1>2, <2>1, <2>12 DEF GoldInv
<1>8. CASE job.kind \notin {"make_up", "entity"}
  <2>1. /\ todo' = [todo EXCEPT ![job] = 0] /\ short' = short + todo[job]
        /\ UNCHANGED <<stage, wanted>>
    BY <1>8 DEF GiveUp
  <2>2. ~EntitiesPlanned
    BY <1>3, <1>8 DEF JobsInv, PlannedKinds
  <2>3. /\ DOMAIN todo' = DOMAIN todo /\ todo'[job] = 0
        /\ \A j \in DOMAIN todo \ {job} : todo'[j] = todo[j]
    BY <2>1
  <2>4. Naturals1(todo', DOMAIN todo) /\ OwedBy(todo') + todo[job] = OwedBy(todo) + 0
    BY <1>3, <2>3, SumChange DEF OwedBy
  <2>5. OwedBy(todo') \in Nat
    BY <2>4, SumType DEF OwedBy
  <2>6. EntityTotal' = EntityTotal + todo[job] /\ EntityTotal \in Nat
    <3>1. Quota("entity")' = Quota("entity")
      BY <2>1 DEF Quota
    <3>2. Quota("entity") \in Nat
      BY <1>1, OwedIs
    <3>. QED
      BY <1>3, <2>1, <3>1, <3>2 DEF EntityTotal
  <2>7. Cardinality(asked') + (OwedBy(todo') + (IF EntitiesPlanned THEN 0 ELSE EntityTotal')) = wanted.n
    <3>1. Rest = EntityTotal
      BY <2>2 DEF Rest
    <3>. QED
      BY <1>3, <1>4, <1>5, <2>2, <2>4, <2>5, <2>6, <3>1
  <2>8. wanted' = wanted /\ short' \in Nat
    BY <1>3, <2>1
  <2>9. JobsInv'
    BY <1>1, <2>2, <2>3, <2>4, <2>7, <2>8, TodoChanges
  <2>. QED
    BY <1>1, <1>2, <2>1, <2>9 DEF GoldInv
<1>. QED
  BY <1>6, <1>7, <1>8

\* the jobs for entities, and their stand-ins
EntityJobs(H) == {Job("entity", h) : h \in H}
StandIns(H) == {Job("make_up", h) : h \in H}

LEMMA JobFields == \A kind, hops : Job(kind, hops).kind = kind /\ Job(kind, hops).hops = hops
BY DEF Job

LEMMA PlanEntitiesKeepsGoldInv == ASSUME GoldInv, PlanEntities PROVE GoldInv'
<1>1. /\ stage = "asking" /\ AskedSame /\ \A j \in DOMAIN todo : todo[j] = 0
      /\ UNCHANGED <<wanted, short>> /\ asked' = asked
  BY DEF PlanEntities, AskedSame
<1>2. IsFiniteSet(asked') /\ \A q \in asked' : Right(q)'
  BY <1>1, AskedStays
<1>3. JobsInv
  BY <1>1 DEF GoldInv
<1>4. CASE EntitiesPlanned
  <2>1. stage' = "asked" /\ UNCHANGED todo
    BY <1>4 DEF PlanEntities, EntitiesPlanned
  <2>2. EntitiesPlanned' /\ \A j \in DOMAIN todo' : todo'[j] = 0
    BY <1>1, <1>4, <2>1 DEF EntitiesPlanned
  <2>3. JobsInv'
    <3>1. Owed' = Owed
      BY <1>1, <2>1 DEF Owed, EntitiesPlanned, EntityTotal, Quota
    <3>2. EntitiesPlanned' <=> EntitiesPlanned
      BY <1>4, <2>2
    <3>. QED
      BY <1>1, <1>3, <2>1, <3>1, <3>2 DEF JobsInv
  <2>. QED
    BY <1>2, <2>1, <2>2, <2>3 DEF GoldInv
<1>5. CASE ~EntitiesPlanned
  <2>. DEFINE share == Apportion(EntityTotal, wanted.hopMix)
              H == Weighted(wanted.hopMix)
  <2>1. /\ todo' = [j \in {Job(k, h) : k \in {"entity", "make_up"}, h \in DOMAIN share} |->
                      IF j.kind = "entity" THEN share[j.hops] ELSE 0]
        /\ UNCHANGED stage
    BY <1>5 DEF PlanEntities, EntitiesPlanned
  <2>2. /\ wanted \in QuestionSpecs /\ EntityTotal \in Nat /\ Cardinality(asked) \in Nat
        /\ Cardinality(asked) + OwedBy(todo) + EntityTotal = wanted.n
    BY <1>1, <1>5, OwedIs DEF Rest
  <2>3. /\ share \in [H -> Nat] /\ SumFunctionOnSet(share, H) = EntityTotal
        /\ H \subseteq 1 .. MaxHops /\ IsFiniteSet(H) /\ H # {}
    BY <2>2, HopsAddUp
  <2>. HIDE DEF share, H
  <2>4. OwedBy(todo) = 0
    <3>1. Naturals1(todo, DOMAIN todo) /\ {} \in SUBSET DOMAIN todo
      BY <1>3 DEF JobsInv
    <3>2. SumFunctionOnSet(todo, DOMAIN todo) = SumFunctionOnSet(todo, {})
      BY <1>1, <3>1, SumZeros
    <3>. QED
      BY <3>2, SumEmpty DEF OwedBy
  <2>5. DOMAIN todo' = EntityJobs(H) \cup StandIns(H)
    <3>1. DOMAIN share = H
      BY <2>3
    <3>2. DOMAIN todo' = {Job(k, h) : k \in {"entity", "make_up"}, h \in H}
      BY <2>1, <3>1
    <3>. QED
      BY <3>2 DEF EntityJobs, StandIns
  <2>6. /\ \A h \in H : Job("entity", h) \in DOMAIN todo' /\ todo'[Job("entity", h)] = share[h]
        /\ \A h \in H : Job("make_up", h) \in DOMAIN todo' /\ todo'[Job("make_up", h)] = 0
    <3>1. \A j \in DOMAIN todo' : todo'[j] = IF j.kind = "entity" THEN share[j.hops] ELSE 0
      BY <2>1
    <3>. QED
      BY <2>5, <3>1, JobFields DEF EntityJobs, StandIns
  <2>7. Naturals1(todo', EntityJobs(H) \cup StandIns(H))
    <3>1. IsFiniteSet(EntityJobs(H)) /\ IsFiniteSet(StandIns(H))
      <4>1. OneToOne([h \in H |-> Job("entity", h)], H, EntityJobs(H))
        BY JobFields DEF OneToOne, EntityJobs
      <4>2. OneToOne([h \in H |-> Job("make_up", h)], H, StandIns(H))
        BY JobFields DEF OneToOne, StandIns
      <4>. QED
        BY <2>3, <4>1, <4>2, SameSize
    <3>2. IsFiniteSet(EntityJobs(H) \cup StandIns(H))
      BY <3>1, FS_Union
    <3>3. \A j \in EntityJobs(H) \cup StandIns(H) : todo'[j] \in Nat
      BY <2>3, <2>6 DEF EntityJobs, StandIns
    <3>. QED
      BY <3>2, <3>3 DEF Naturals1
  <2>8. SumFunctionOnSet(todo', EntityJobs(H)) = EntityTotal
    <3>. DEFINE rename == [h \in H |-> Job("entity", h)]
                jobs == EntityJobs(H)
    <3>1. rename \in [H -> jobs] /\ \A t \in jobs : \E h \in H : rename[h] = t
      BY DEF EntityJobs
    <3>2. \A h, g \in H : rename[h] = rename[g] => h = g
      BY JobFields
    <3>3. \A h \in H : todo'[rename[h]] = share[h]
      BY <2>6
    <3>4. Naturals1(share, H)
      BY <2>3 DEF Naturals1
    <3>. HIDE DEF rename, jobs
    <3>5. SumFunctionOnSet(todo', jobs) = SumFunctionOnSet(share, H)
      BY <3>1, <3>2, <3>3, <3>4, SumRenamed
    <3>. QED
      BY <2>3, <3>5 DEF jobs
  <2>9. SumFunctionOnSet(todo', DOMAIN todo') = EntityTotal
    <3>1. EntityJobs(H) \in SUBSET (EntityJobs(H) \cup StandIns(H))
      OBVIOUS
    <3>2. \A j \in (EntityJobs(H) \cup StandIns(H)) \ EntityJobs(H) : todo'[j] = 0
      BY <2>6 DEF StandIns
    <3>. QED
      BY <2>5, <2>7, <2>8, <3>1, <3>2, SumZeros
  <2>10. EntitiesPlanned'
    <3>1. PICK h \in H : TRUE
      BY <2>3
    <3>. QED
      BY <2>6, <3>1, JobFields DEF EntitiesPlanned
  <2>11. \A j \in DOMAIN todo' :
            /\ j = Job(j.kind, j.hops) /\ j.hops \in 1 .. MaxHops /\ j.kind \in PlannedKinds
            /\ Job("make_up", j.hops) \in DOMAIN todo' /\ todo'[Job("make_up", j.hops)] = 0
    BY <2>3, <2>5, <2>6, JobFields DEF EntityJobs, StandIns, PlannedKinds
  <2>12. Cardinality(asked') + Owed' = wanted'.n
    <3>1. Owed' = EntityTotal + 0
      BY <2>9, <2>10 DEF Owed
    <3>. QED
      BY <1>1, <2>2, <2>4, <3>1
  <2>13. wanted' \in QuestionSpecs /\ short' \in Nat
    BY <1>1, <1>3 DEF JobsInv
  <2>14. JobsInv'
    BY <2>5, <2>7, <2>10, <2>11, <2>12, <2>13 DEF JobsInv
  <2>. QED
    BY <1>1, <1>2, <2>1, <2>14 DEF GoldInv
<1>. QED
  BY <1>4, <1>5

\* the jobs the plan makes, and what each owes
PlannedJobs(q) ==
    {Job(k, h) : k \in HoppedKinds, h \in Weighted(q.hopMix)} \cup {Job(k, 1) : k \in UnhoppedKinds}

PlannedFor(q, j) ==
    IF j.kind \in HoppedKinds THEN Apportion(QuotaOf(q)[j.kind], q.hopMix)[j.hops]
    ELSE QuotaOf(q)[j.kind]

LEMMA PlanIs ==
    ASSUME Plan
    PROVE  \E q \in QuestionSpecs :
              /\ wanted' = q /\ DOMAIN todo' = PlannedJobs(q)
              /\ \A j \in PlannedJobs(q) : todo'[j] = PlannedFor(q, j)
<1>. DEFINE quota(q, k) == Share(Apportion(q.n, q.typeMix), k)
            jobs(q) == {Job(Hopped[i], h) : i \in DOMAIN Hopped, h \in DOMAIN q.hopMix}
                         \cup {Job(Unhopped[i], 1) : i \in DOMAIN Unhopped}
            chosen(q) == {j \in jobs(q) : j.kind \in HoppedKinds => q.hopMix[j.hops] > 0}
            owes(q, j) == IF j.kind \in HoppedKinds THEN Apportion(quota(q, j.kind), q.hopMix)[j.hops]
                          ELSE quota(q, j.kind)
<1>1. PICK q \in QuestionSpecs : wanted' = q /\ todo' = [j \in chosen(q) |-> owes(q, j)]
  BY DEF Plan, HoppedKinds
<1>2. chosen(q) = PlannedJobs(q)
  <2>1. jobs(q) = {Job(k, h) : k \in HoppedKinds, h \in DOMAIN q.hopMix} \cup {Job(k, 1) : k \in UnhoppedKinds}
    BY DEF HoppedKinds, UnhoppedKinds
  <2>. HIDE DEF jobs
  <2>2. ASSUME NEW j \in chosen(q) PROVE j \in PlannedJobs(q)
    <3>1. CASE \E k \in HoppedKinds : \E h \in DOMAIN q.hopMix : j = Job(k, h)
      <4>1. PICK k \in HoppedKinds, h \in DOMAIN q.hopMix : j = Job(k, h)
        BY <3>1
      <4>2. h \in Weighted(q.hopMix)
        BY <4>1, JobFields DEF Weighted
      <4>. QED
        BY <4>1, <4>2 DEF PlannedJobs
    <3>2. CASE \E k \in UnhoppedKinds : j = Job(k, 1)
      BY <3>2 DEF PlannedJobs
    <3>. QED
      BY <2>1, <3>1, <3>2
  <2>3. ASSUME NEW j \in PlannedJobs(q) PROVE j \in chosen(q)
    <3>1. CASE \E k \in HoppedKinds : \E h \in Weighted(q.hopMix) : j = Job(k, h)
      <4>1. PICK k \in HoppedKinds, h \in Weighted(q.hopMix) : j = Job(k, h)
        BY <3>1
      <4>2. h \in DOMAIN q.hopMix /\ q.hopMix[h] > 0
        BY DEF Weighted
      <4>3. j.hops = h
        BY <4>1, JobFields
      <4>. QED
        BY <2>1, <4>1, <4>2, <4>3
    <3>2. CASE \E k \in UnhoppedKinds : j = Job(k, 1)
      <4>1. j.kind \notin HoppedKinds
        BY <3>2, JobFields, KindsAre
      <4>. QED
        BY <2>1, <3>2, <4>1
    <3>. QED
      BY <3>1, <3>2 DEF PlannedJobs
  <2>. QED
    BY <2>2, <2>3
<1>3. \A j \in PlannedJobs(q) : owes(q, j) = PlannedFor(q, j)
  <2>1. TAKE j \in PlannedJobs(q)
  <2>2. j.kind \in Kinds
    BY JobFields, KindsAre DEF PlannedJobs
  <2>3. quota(q, j.kind) = QuotaOf(q)[j.kind]
    BY <2>2 DEF QuotaOf
  <2>. QED
    BY <2>3 DEF PlannedFor
<1>. HIDE DEF chosen, owes
<1>4. DOMAIN todo' = PlannedJobs(q) /\ \A j \in PlannedJobs(q) : todo'[j] = owes(q, j)
  BY <1>1, <1>2
<1>. QED
  BY <1>1, <1>3, <1>4

\* the jobs of a kind
JobsOf(q, k) == {j \in PlannedJobs(q) : j.kind = k}

LEMMA JobsOfAre ==
    ASSUME NEW q \in QuestionSpecs
    PROVE  /\ \A k \in HoppedKinds : JobsOf(q, k) = {Job(k, h) : h \in Weighted(q.hopMix)}
           /\ \A k \in UnhoppedKinds : JobsOf(q, k) = {Job(k, 1)}
           /\ IsFiniteSet(PlannedJobs(q))
           /\ \A j \in PlannedJobs(q) : /\ j = Job(j.kind, j.hops) /\ j.hops \in 1 .. MaxHops
                                        /\ j.kind \in Kinds \ {"entity"}
<1>1. Weighted(q.hopMix) \subseteq 1 .. MaxHops /\ IsFiniteSet(Weighted(q.hopMix))
  BY HopsAddUp
<1>2. ASSUME NEW k \in HoppedKinds PROVE JobsOf(q, k) = {Job(k, h) : h \in Weighted(q.hopMix)}
  BY JobFields, KindsAre DEF JobsOf, PlannedJobs
<1>3. ASSUME NEW k \in UnhoppedKinds PROVE JobsOf(q, k) = {Job(k, 1)}
  BY JobFields, KindsAre DEF JobsOf, PlannedJobs
<1>4. ASSUME NEW j \in PlannedJobs(q)
      PROVE  /\ j = Job(j.kind, j.hops) /\ j.hops \in 1 .. MaxHops
             /\ j.kind \in Kinds \ {"entity"}
  <2>1. 1 \in 1 .. MaxHops
    BY DEF MaxHops
  <2>2. CASE \E k \in HoppedKinds : \E h \in Weighted(q.hopMix) : j = Job(k, h)
    BY <1>1, <2>2, JobFields, KindsAre
  <2>3. CASE \E k \in UnhoppedKinds : j = Job(k, 1)
    BY <2>1, <2>3, JobFields, KindsAre
  <2>. QED
    BY <2>2, <2>3 DEF PlannedJobs
<1>5. IsFiniteSet(PlannedJobs(q))
  <2>. DEFINE pairs == Kinds \X (1 .. MaxHops)
              asPair == [j \in PlannedJobs(q) |-> <<j.kind, j.hops>>]
              image == {asPair[j] : j \in PlannedJobs(q)}
  <2>1. IsFiniteSet(pairs)
    <3>1. 1 \in Int /\ MaxHops \in Int
      BY DEF MaxHops
    <3>2. IsFiniteSet(1 .. MaxHops) /\ IsFiniteSet(Kinds)
      BY <3>1, FS_Interval, KindsAre
    <3>. QED
      BY <3>2, FS_Product
  <2>2. image \subseteq pairs
    BY <1>4
  <2>. DEFINE back == [p \in image |-> Job(p[1], p[2])]
  <2>3. OneToOne(back, image, PlannedJobs(q))
    <3>1. \A j \in PlannedJobs(q) : asPair[j] \in image /\ back[asPair[j]] = j
      BY <1>4
    <3>2. \A p \in image : \E j \in PlannedJobs(q) : p = asPair[j] /\ back[p] = j
      BY <3>1
    <3>. HIDE DEF asPair
    <3>3. DOMAIN back = image /\ back = [p \in image |-> back[p]]
      OBVIOUS
    <3>. HIDE DEF back, image
    <3>. QED
      BY <3>1, <3>2, <3>3 DEF OneToOne
  <2>4. IsFiniteSet(image)
    BY <2>1, <2>2, FS_Subset
  <2>. HIDE DEF back, image
  <2>. QED
    BY <2>3, <2>4, SameSize
<1>. QED
  BY <1>2, <1>3, <1>4, <1>5

LEMMA PlannedAddUp ==
    ASSUME NEW q \in QuestionSpecs, NEW work, \A j \in PlannedJobs(q) : work[j] = PlannedFor(q, j)
    PROVE  /\ Naturals1(work, PlannedJobs(q))
           /\ SumFunctionOnSet(work, PlannedJobs(q)) + QuotaOf(q)["entity"] = q.n
<1>. DEFINE W == Weighted(q.hopMix)
            quota == QuotaOf(q)
            J == PlannedJobs(q)
            K == Kinds \ {"entity"}
<1>1. /\ Naturals1(quota, K) /\ quota["entity"] \in Nat /\ q.n \in Nat
      /\ q.n = quota["entity"] + SumFunctionOnSet(quota, K)
  BY QuotasAddUp
<1>2. \A k \in K : quota[k] \in Nat /\ (k \in HoppedKinds \/ k \in UnhoppedKinds)
  BY <1>1, KindsAre DEF Naturals1
<1>. HIDE DEF quota
<1>3. ASSUME NEW k \in HoppedKinds
      PROVE  /\ \A h \in W : work[Job(k, h)] = Apportion(quota[k], q.hopMix)[h]
             /\ quota[k] \in Nat
  <2>1. quota[k] \in Nat
    BY <1>2, KindsAre
  <2>2. \A h \in W : Job(k, h) \in J /\ Job(k, h).kind = k /\ Job(k, h).hops = h
    BY JobFields DEF PlannedJobs
  <2>. QED
    BY <2>1, <2>2 DEF PlannedFor, quota
<1>4. ASSUME NEW k \in UnhoppedKinds PROVE work[Job(k, 1)] = quota[k] /\ quota[k] \in Nat
  <2>1. quota[k] \in Nat /\ k \notin HoppedKinds
    BY <1>2, KindsAre
  <2>2. Job(k, 1) \in J /\ Job(k, 1).kind = k
    BY JobFields DEF PlannedJobs
  <2>. QED
    BY <2>1, <2>2 DEF PlannedFor, quota
<1>5. Naturals1(work, J)
  <2>1. ASSUME NEW j \in J PROVE work[j] \in Nat
    <3>1. CASE \E k \in HoppedKinds : \E h \in W : j = Job(k, h)
      <4>1. PICK k \in HoppedKinds, h \in W : j = Job(k, h)
        BY <3>1
      <4>2. Apportion(quota[k], q.hopMix) \in [W -> Nat]
        BY <1>3, HopsAddUp
      <4>3. work[j] = Apportion(quota[k], q.hopMix)[h]
        BY <1>3, <4>1
      <4>. QED
        BY <4>2, <4>3
    <3>2. CASE \E k \in UnhoppedKinds : j = Job(k, 1)
      BY <1>4, <3>2
    <3>. QED
      BY <3>1, <3>2 DEF PlannedJobs
  <2>. QED
    BY <2>1, JobsOfAre DEF Naturals1
<1>6. ASSUME NEW k \in K PROVE quota[k] = SumFunctionOnSet(work, JobsOf(q, k))
  <2>1. CASE k \in HoppedKinds
    <3>. DEFINE share == Apportion(quota[k], q.hopMix)
                rename == [h \in W |-> Job(k, h)]
    <3>1. share \in [W -> Nat] /\ SumFunctionOnSet(share, W) = quota[k] /\ IsFiniteSet(W)
      BY <1>3, <2>1, HopsAddUp
    <3>2. Naturals1(share, W)
      BY <3>1 DEF Naturals1
    <3>3. JobsOf(q, k) = {Job(k, h) : h \in W}
      BY <2>1, JobsOfAre
    <3>4. rename \in [W -> JobsOf(q, k)] /\ \A t \in JobsOf(q, k) : \E h \in W : rename[h] = t
      BY <3>3
    <3>5. \A g, h \in W : rename[g] = rename[h] => g = h
      BY JobFields
    <3>6. \A h \in W : work[rename[h]] = share[h]
      BY <1>3, <2>1
    <3>. HIDE DEF share, rename, W
    <3>. QED
      BY <3>1, <3>2, <3>4, <3>5, <3>6, SumRenamed
  <2>2. CASE k \in UnhoppedKinds
    <3>1. JobsOf(q, k) = {Job(k, 1)} /\ work[Job(k, 1)] = quota[k] /\ quota[k] \in Nat
      BY <1>4, <2>2, JobsOfAre
    <3>. QED
      BY <3>1, SumOne
  <2>. QED
    BY <1>2, <2>1, <2>2
<1>7. SumFunctionOnSet(quota, K) = SumFunctionOnSet(work, J)
  <2>. DEFINE kindOf == [j \in J |-> j.kind]
  <2>1. kindOf \in [J -> K]
    BY JobsOfAre
  <2>2. IsFiniteSet(J) /\ IsFiniteSet(K)
    BY JobsOfAre, KindsAre, FS_Subset
  <2>3. \A k \in K : {j \in J : kindOf[j] = k} = JobsOf(q, k)
    BY DEF JobsOf
  <2>4. SumsByClass(quota, work, kindOf, J, K)
    <3>1. \A k \in K : quota[k] = SumFunctionOnSet(work, {j \in J : kindOf[j] = k})
      BY <1>6, <2>3
    <3>. QED
      BY <3>1 DEF SumsByClass
  <2>. HIDE DEF kindOf, J, K
  <2>. QED
    BY <1>5, <2>1, <2>2, <2>4, SumOfSums
<1>8. SumFunctionOnSet(work, J) \in Nat
  BY <1>5, SumType
<1>. QED
  BY <1>1, <1>5, <1>7, <1>8 DEF quota

LEMMA PlanKeepsGoldInv == ASSUME GoldInv, Plan PROVE GoldInv'
<1>1. stage = "world" /\ stage' = "asking" /\ AskedSame /\ UNCHANGED <<short, asked>>
  BY DEF Plan, AskedSame
<1>2. IsFiniteSet(asked') /\ \A q \in asked' : Right(q)'
  BY <1>1, AskedStays
<1>3. asked' = {} /\ short' = 0
  BY <1>1 DEF GoldInv
<1>4. PICK q \in QuestionSpecs : /\ wanted' = q /\ DOMAIN todo' = PlannedJobs(q)
                                 /\ \A j \in PlannedJobs(q) : todo'[j] = PlannedFor(q, j)
  BY PlanIs
<1>5. /\ Naturals1(todo', PlannedJobs(q))
      /\ SumFunctionOnSet(todo', PlannedJobs(q)) + QuotaOf(q)["entity"] = q.n
  BY <1>4, PlannedAddUp
<1>6. \A j \in DOMAIN todo' : /\ j = Job(j.kind, j.hops) /\ j.hops \in 1 .. MaxHops
                              /\ j.kind \in Kinds \ {"entity"}
  BY <1>4, JobsOfAre
<1>7. ~EntitiesPlanned'
  BY <1>6 DEF EntitiesPlanned
<1>8. EntityTotal' = QuotaOf(q)["entity"]
  <2>1. Quota("entity")' = QuotaOf(q)["entity"]
    BY <1>4, KindsAre DEF Quota, QuotaOf
  <2>2. QuotaOf(q)["entity"] \in Nat
    BY QuotasAddUp
  <2>. QED
    BY <1>3, <2>1, <2>2 DEF EntityTotal
<1>9. Cardinality(asked') + Owed' = wanted'.n
  <2>1. Owed' = SumFunctionOnSet(todo', PlannedJobs(q)) + QuotaOf(q)["entity"]
    BY <1>4, <1>7, <1>8 DEF Owed
  <2>2. Cardinality(asked') = 0
    BY <1>3, FS_EmptySet
  <2>3. q.n \in Nat
    BY QuotasAddUp
  <2>. QED
    BY <1>4, <1>5, <2>1, <2>2, <2>3
<1>10. JobsInv'
  <2>1. wanted' \in QuestionSpecs /\ short' \in Nat /\ Naturals1(todo', DOMAIN todo')
    BY <1>3, <1>4, <1>5
  <2>. QED
    BY <1>6, <1>7, <1>9, <2>1 DEF JobsInv
<1>. QED
  BY <1>1, <1>2, <1>10 DEF GoldInv

\* As long as a world is made, or a scenario from it, there are no questions.
NoQuestions ==
    /\ stage \notin {"asking", "asked", "failed"} /\ stage' \notin {"asking", "asked"}
    /\ UNCHANGED questionVars

LEMMA NoQuestionsKeepsGoldInv == ASSUME GoldInv, NoQuestions PROVE GoldInv'
<1>1. asked' = {} /\ short' = 0 /\ stage' \notin {"asking", "asked"}
  BY DEF GoldInv, NoQuestions, questionVars
<1>. QED
  BY <1>1, FS_EmptySet DEF GoldInv

LEMMA GenerateAsksNothing == ASSUME Generate, UNCHANGED questionVars PROVE NoQuestions
<1>1. stage \in Making /\ stage' \in Making \cup {"world", "failed"}
  BY DEF Generate, NoRelation, DrawBase, DrawClosing, MissClosing, CloseNothing, DrawNoise,
         EndPlacing, Churn, EndChurn, NameEntities, AddLookAlikes, Add, Fail, Making
<1>. QED
  BY <1>1 DEF NoQuestions, Making

LEMMA ScenarioAsksNothing == ASSUME ScenarioNext, UNCHANGED questionVars PROVE NoQuestions
<1>1. DrawTargets => stage = "world" /\ stage' = "aiming"
  BY DEF DrawTargets
<1>2. ASSUME NEW t, Aim(t) PROVE stage = "aiming" /\ stage' = "aiming"
  BY <1>2 DEF Aim
<1>3. Schedule => stage = "aiming" /\ stage' = "arriving"
  BY DEF Schedule
<1>4. ASSUME NEW e, Arrive(e) PROVE stage = "arriving" /\ stage' = "arriving"
  BY <1>4 DEF Arrive
<1>5. stage \in {"world", "aiming", "arriving"} /\ stage' \in {"aiming", "arriving"}
  BY <1>1, <1>2, <1>3, <1>4 DEF ScenarioNext
<1>. QED
  BY <1>5 DEF NoQuestions

LEMMA NothingToAskKeepsGoldInv == ASSUME GoldInv, NothingToAsk PROVE GoldInv'
<1>1. stage = "world" /\ stage' = "failed" /\ UNCHANGED questionVars
  BY DEF NothingToAsk, Fail
<1>. QED
  BY <1>1, NoQuestionsKeepsGoldInv DEF NoQuestions

LEMMA AskKeepsGoldInv ==
    ASSUME WorldInv, GoldInv, NEW job \in DOMAIN todo, Ask(job) PROVE GoldInv'
<1>1. Current(job)
  BY AskKeepsOne DEF KeepsOne
<1>2. job.hops \in 1 .. MaxHops
  BY <1>1 DEF Current, GoldInv, JobsInv
<1>. QED
  BY <1>1, <1>2, AskRight, KeepKeepsGoldInv

LEMMA QuestionStepKeepsGoldInv == ASSUME WorldInv, GoldInv, QuestionStep PROVE GoldInv'
BY PlanKeepsGoldInv, NothingToAskKeepsGoldInv, PlanEntitiesKeepsGoldInv, AskKeepsGoldInv,
   GiveUpKeepsGoldInv DEF QuestionStep

LEMMA SameKeepsGoldInv ==
    ASSUME GoldInv, WorldSame, UNCHANGED questionVars PROVE GoldInv'
<1>1. AskedSame /\ UNCHANGED <<stage, wanted, todo, short, asked>>
  BY DEF WorldSame, AskedSame, questionVars
<1>2. IsFiniteSet(asked') /\ \A q \in asked' : Right(q)'
  BY <1>1, AskedStays
<1>3. JobsInv' <=> JobsInv
  BY <1>1 DEF JobsInv, EntitiesPlanned, Owed, EntityTotal, Quota
<1>4. EntitiesPlanned' <=> EntitiesPlanned
  BY <1>1 DEF EntitiesPlanned
<1>. QED
  BY <1>1, <1>2, <1>3, <1>4 DEF GoldInv

LEMMA NextKeepsGoldInv ==
    ASSUME WorldInv, GoldInv, [GeneratorNext]_<<vars, scenarioVars>> PROVE GoldInv'
BY StepKinds, GenerateAsksNothing, ScenarioAsksNothing, NoQuestionsKeepsGoldInv,
   QuestionStepKeepsGoldInv, SameKeepsGoldInv

\* Every question derived is right, and what the jobs owe adds up.
THEOREM GoldInvHolds == GeneratorSpec => []GoldInv
<1>1. GeneratorInit => GoldInv
  BY FS_EmptySet DEF GeneratorInit, QuestionsInit, Init, GoldInv
<1>2. WorldInv /\ GoldInv /\ [GeneratorNext]_<<vars, scenarioVars>> => GoldInv'
  BY NextKeepsGoldInv
<1>. QED
  BY <1>1, <1>2, WorldInvHolds, PTL DEF GeneratorSpec

\* The gold of a question of any kind is what the dated facts say, no more and no less, when it
\* asks for names, numbers, winners, chains, changes or summaries, and when the right answer is
\* to decline; and a run that does not fail derives as many questions as were asked for.
THEOREM GoldIsAlwaysRight == GeneratorSpec => []GoldIsRight
<1>1. GoldInv => AnswersAreDenoted
  BY DEF GoldInv, Right, DenotedRight, AnswersAreDenoted, OfKind
<1>2. GoldInv => WinnersAreAlone
  BY DEF GoldInv, Right, AloneRight, MoreRight, WinnersAreAlone, OfKind
<1>3. GoldInv => PathsAreShortest
  BY DEF GoldInv, Right, ShortestRight, PathsAreShortest, OfKind
<1>4. GoldInv => ChangeIsDated
  BY DEF GoldInv, Right, DatedRight, ChangeIsDated, OfKind
<1>5. GoldInv => DecliningIsRight
  BY DEF GoldInv, Right, NeverRight, PremiseRight, DecliningIsRight, OfKind
<1>6. GoldInv => SummariesAreFair
  BY DEF GoldInv, Right, FairRight, SummariesAreFair, OfKind
<1>7. GoldInv => QuotaIsMet
  <2>. SUFFICES ASSUME GoldInv, stage = "asked" PROVE Cardinality(asked) = wanted.n
    BY DEF QuotaIsMet
  <2>1. JobsInv /\ EntitiesPlanned /\ IsFiniteSet(asked) /\ \A j \in DOMAIN todo : todo[j] = 0
    BY DEF GoldInv
  <2>2. SumFunctionOnSet(todo, DOMAIN todo) = 0
    <3>1. Naturals1(todo, DOMAIN todo) /\ {} \in SUBSET DOMAIN todo
      BY <2>1 DEF JobsInv
    <3>2. SumFunctionOnSet(todo, DOMAIN todo) = SumFunctionOnSet(todo, {})
      BY <2>1, <3>1, SumZeros
    <3>. QED
      BY <3>2, SumEmpty
  <2>3. Owed = 0
    BY <2>1, <2>2 DEF Owed
  <2>4. Cardinality(asked) \in Nat
    BY <2>1, FS_CardinalityType
  <2>. QED
    BY <2>1, <2>3, <2>4 DEF JobsInv
<1>8. GoldInv => GoldIsRight
  BY <1>1, <1>2, <1>3, <1>4, <1>5, <1>6, <1>7 DEF GoldIsRight
<1>. QED
  BY <1>8, GoldInvHolds, PTL

(***************************************************************************)
(* The reader who knows only names.  The names stay while questions are    *)
(* made, also when that fails.                                             *)
(***************************************************************************)
LabelsInv ==
    /\ Real \subseteq DOMAIN name /\ DOMAIN name \subseteq Real \cup LookAlikes
    /\ \A i \in DOMAIN name : IsFiniteSet(aliases[i])

LEMMA SameKeepsLabelsInv == ASSUME LabelsInv, UNCHANGED <<name, aliases>> PROVE LabelsInv'
BY DEF LabelsInv

LEMMA NameEntitiesKeepsLabelsInv == ASSUME LabelsInv, NameEntities PROVE LabelsInv'
<1>. DEFINE names(homonyms, twin) == [i \in Real |-> IF i \in homonyms THEN twin[i] ELSE i]
            nameable(n) == {i \in Real : FreeForms(i, n) # {}}
            wish(n) == IF spec.aliased < Cardinality(nameable(n)) THEN spec.aliased
                       ELSE Cardinality(nameable(n))
            Named1(n, chosen) ==
                /\ name' = n
                /\ aliases' \in
                     {f \in [Real -> SUBSET UNION {FreeForms(i, n) : i \in Real}] :
                        \A i \in Real :
                           IF i \in chosen THEN f[i] # {} /\ f[i] \subseteq FreeForms(i, n)
                           ELSE f[i] = {}}
<1>1. PICK homonyms \in kSubset(spec.homonyms, Real) :
        \E twin \in [homonyms -> Real \ homonyms] :
            \E chosen \in kSubset(wish(names(homonyms, twin)), nameable(names(homonyms, twin))) :
                Named1(names(homonyms, twin), chosen)
  BY DEF NameEntities
<1>2. PICK twin \in [homonyms -> Real \ homonyms] :
            \E chosen \in kSubset(wish(names(homonyms, twin)), nameable(names(homonyms, twin))) :
                Named1(names(homonyms, twin), chosen)
  BY <1>1
<1>. DEFINE n == names(homonyms, twin)
<1>3. PICK chosen : Named1(n, chosen)
  BY <1>2
<1>4. n \in [Real -> Real] /\ name' = n
  BY <1>3
<1>5. ASSUME NEW i \in Real PROVE IsFiniteSet(aliases'[i])
  <2>1. aliases'[i] \subseteq FreeForms(i, n)
    BY <1>3
  <2>2. FreeForms(i, n) \subseteq Forms[n[i]] /\ n[i] \in Real
    BY <1>4 DEF FreeForms
  <2>3. IsFiniteSet(Forms[n[i]])
    BY <2>2, WorldAssumption
  <2>. QED
    BY <2>1, <2>2, <2>3, FS_Subset
<1>. HIDE DEF n
<1>. QED
  BY <1>4, <1>5 DEF LabelsInv

LEMMA AddLookAlikesKeepsLabelsInv == ASSUME LabelsInv, AddLookAlikes PROVE LabelsInv'
<1>1. PICK added \in kSubset(spec.distractors, LookAlikes) :
          /\ name' = [i \in Real \cup added |-> IF i \in Real THEN name[i] ELSE i]
          /\ aliases' = [i \in Real \cup added |-> IF i \in Real THEN aliases[i] ELSE {}]
  BY DEF AddLookAlikes
<1>2. added \subseteq LookAlikes
  BY DEF kSubset
<1>. QED
  BY <1>1, <1>2, FS_EmptySet DEF LabelsInv

\* Real entities have a name from the first, and every entity finitely many.
THEOREM LabelsInvHolds == GeneratorSpec => []LabelsInv
<1>1. GeneratorInit => LabelsInv
  BY FS_EmptySet DEF GeneratorInit, QuestionsInit, Init, LabelsInv
<1>2. ASSUME LabelsInv, [GeneratorNext]_<<vars, scenarioVars>> PROVE LabelsInv'
  <2>1. CASE Generate
    <3>1. NameEntities \/ AddLookAlikes \/ UNCHANGED <<name, aliases>>
      BY <2>1 DEF Generate, NoRelation, CloseNothing, Fail, DrawBase, DrawClosing, MissClosing,
                  DrawNoise, Add, EndPlacing, Churn, EndChurn
    <3>. QED
      BY <1>2, <3>1, NameEntitiesKeepsLabelsInv, AddLookAlikesKeepsLabelsInv, SameKeepsLabelsInv
  <2>2. CASE LaterStep \/ WorldSame
    BY <1>2, <2>2, SameKeepsLabelsInv DEF LaterStep, WorldSame
  <2>. QED
    BY <1>2, <2>1, <2>2, StepKinds, QuestionStepIsLater, ScenarioStepIsLater
<1>. QED
  BY <1>1, <1>2, PTL DEF GeneratorSpec

(***************************************************************************)
(* Classes of names.                                                       *)
(***************************************************************************)
IsPartition(P, D) ==
    /\ P \in SUBSET SUBSET D
    /\ \A i \in D : \E c \in P : i \in c
    /\ \A c, d \in P : c \cap d # {} => c = d

HoldersOf(label, classes) == {c \in classes : \E i \in c : label \in Labels(i)}

\* all who carry this label become one
Merge(label, classes) ==
    (classes \ HoldersOf(label, classes)) \cup {UNION HoldersOf(label, classes)}

LEMMA MergeKeeps ==
    ASSUME NEW D, NEW P, IsPartition(P, D), NEW label PROVE IsPartition(Merge(label, P), D)
<1>. DEFINE H == HoldersOf(label, P)
            one == UNION H
<1>1. H \subseteq P /\ P \in SUBSET SUBSET D
  BY DEF HoldersOf, IsPartition
<1>2. Merge(label, P) = (P \ H) \cup {one}
  BY DEF Merge
<1>. HIDE DEF H
<1>3. ASSUME NEW i \in D PROVE \E c \in (P \ H) \cup {one} : i \in c
  <2>1. PICK c \in P : i \in c
    BY DEF IsPartition
  <2>. QED
    BY <2>1
<1>4. ASSUME NEW c \in P \ H PROVE c \cap one = {}
  <2>1. ASSUME NEW i \in c, NEW d \in H, i \in d PROVE FALSE
    <3>1. c = d
      BY <1>1, <2>1 DEF IsPartition
    <3>. QED
      BY <3>1
  <2>. QED
    BY <2>1
<1>5. ASSUME NEW c \in (P \ H) \cup {one}, NEW d \in (P \ H) \cup {one}, c \cap d # {} PROVE c = d
  <2>1. CASE c \in P \ H /\ d \in P \ H
    BY <1>5, <2>1 DEF IsPartition
  <2>2. CASE c = one
    BY <1>4, <1>5, <2>2
  <2>3. CASE d = one
    BY <1>4, <1>5, <2>3
  <2>. QED
    BY <2>1, <2>2, <2>3
<1>6. (P \ H) \cup {one} \in SUBSET SUBSET D
  BY <1>1
<1>. QED
  BY <1>2, <1>3, <1>5, <1>6 DEF IsPartition

\* Every entity is in one class.
LEMMA ClassesPartition == ASSUME LabelsInv PROVE IsPartition(Classes, DOMAIN name)
<1>. DEFINE D == DOMAIN name
            S == UNION {Labels(i) : i \in D}
            V == {P \in SUBSET SUBSET D : IsPartition(P, D)}
            base == {{i} : i \in D}
            step == [label \in S |-> [P \in V |-> Merge(label, P)]]
            pick == [s \in SUBSET S |-> Next1(s)]
            Body(g) == [s \in SUBSET S |->
                          IF s = {} THEN base ELSE Merge(Next1(s), g[s \ {Next1(s)}])]
            iter == CHOOSE g : g = Body(g)
<1>1. IsFiniteSet(S)
  <2>1. IsFiniteSet(D)
    BY FS_Union, FS_Subset, WorldAssumption DEF LabelsInv
  <2>. DEFINE f == [i \in D |-> Labels(i)]
  <2>2. {f[i] : i \in D} = {Labels(i) : i \in D}
    OBVIOUS
  <2>3. IsFiniteSet({f[i] : i \in D})
    <3>. HIDE DEF f
    <3>. QED
      BY <2>1, ImageSize
  <2>4. ASSUME NEW i \in D PROVE IsFiniteSet(Labels(i))
    BY FS_Singleton, FS_Union DEF LabelsInv, Labels
  <2>. HIDE DEF f, D
  <2>. QED
    BY <2>2, <2>3, <2>4, FS_UNION
<1>2. base \in V
  BY DEF IsPartition
<1>3. step \in [S -> [V -> V]]
  <2>1. \A label \in S : \A P \in V : Merge(label, P) \in V
    <3>1. TAKE label \in S
    <3>2. TAKE P \in V
    <3>3. IsPartition(Merge(label, P), D)
      BY MergeKeeps
    <3>. QED
      BY <3>3 DEF IsPartition
  <2>. HIDE DEF V, S
  <2>. QED
    BY <2>1
<1>4. Picks(pick, S)
  BY DEF Picks, Next1
<1>5. PICK g \in [SUBSET S -> V] : Folds(g, S, base, step, pick)
  <2>. HIDE DEF S, V, base, step, pick
  <2>. QED
    BY <1>1, <1>2, <1>3, <1>4, FoldExists
<1>6. g = Body(g)
  <2>1. ASSUME NEW s \in SUBSET S
        PROVE  g[s] = IF s = {} THEN base ELSE Merge(Next1(s), g[s \ {Next1(s)}])
    <3>1. g[s] = IF s = {} THEN base ELSE step[pick[s]][g[s \ {pick[s]}]]
      BY <1>5 DEF Folds
    <3>2. ASSUME s # {} PROVE step[pick[s]][g[s \ {pick[s]}]] = Merge(Next1(s), g[s \ {Next1(s)}])
      <4>1. pick[s] = Next1(s) /\ Next1(s) \in S /\ g[s \ {Next1(s)}] \in V
        BY <3>2 DEF Next1
      <4>. HIDE DEF S, V, pick
      <4>. QED
        BY <4>1
    <3>. HIDE DEF step, pick, base
    <3>. QED
      BY <3>1, <3>2
  <2>. HIDE DEF S, V, base
  <2>. QED
    BY <2>1
<1>7. iter = Body(iter)
  <2>. HIDE DEF Body
  <2>. QED
    BY <1>6
<1>8. Classes = iter[S]
  BY DEF Classes, FoldSet, MapThenFoldSet, Next1, Merge, HoldersOf
<1>. DEFINE Good == {s \in SUBSET S : IsPartition(iter[s], D)}
<1>. HIDE DEF iter
<1>9. \A s \in SUBSET S : iter[s] = IF s = {} THEN base ELSE Merge(Next1(s), iter[s \ {Next1(s)}])
  <2>. HIDE DEF S, base
  <2>. QED
    BY <1>7
<1>. HIDE DEF S, Body, step, pick
<1>10. {} \in Good
  BY <1>2, <1>9
<1>11. ASSUME NEW s \in SUBSET S, s # {}, \A x \in s : s \ {x} \in Good PROVE s \in Good
  <2>1. Next1(s) \in s
    BY <1>11 DEF Next1
  <2>2. IsPartition(iter[s \ {Next1(s)}], D)
    BY <1>11, <2>1
  <2>3. iter[s] = Merge(Next1(s), iter[s \ {Next1(s)}])
    BY <1>9, <1>11
  <2>4. IsPartition(iter[s], D)
    BY <2>2, <2>3, MergeKeeps
  <2>. QED
    BY <2>4
<1>12. \A s \in SUBSET S : s \in Good
  <2>. HIDE DEF Good
  <2>. QED
    BY <1>1, <1>10, <1>11, SubsetInduction
<1>. QED
  BY <1>8, <1>12

(***************************************************************************)
(* What the reader follows, and where it leads.                            *)
(***************************************************************************)

\* what a path tells of a fact from here to there
Told(f, here, there) ==
    [predicate |-> f.predicate, forward |-> f.subject = here, kind |-> type[there]]

AllTold == [predicate : Predicates, forward : BOOLEAN, kind : {type[i] : i \in Real}]

OneOn(walk, f) ==
    [here |-> Towards(f, walk.here),
     steps |-> Append(walk.steps, [predicate |-> f.predicate, forward |-> f.subject = walk.here,
                                   kind |-> type[Towards(f, walk.here)]])]

\* a path of gold goes through these entities
GoesThrough(path, p, n) ==
    /\ path \in Seq(Live) /\ Len(path) = n
    /\ p \in [0 .. n -> Real]
    /\ \A k \in 1 .. n : Touches(path[k], p[k - 1]) /\ Towards(path[k], p[k - 1]) = p[k]

\* after each fact the walk along a path is where the path is, and has told so much
LEMMA AlongTells ==
    ASSUME WorldInv, NEW n \in Nat, NEW path, NEW p, GoesThrough(path, p, n)
    PROVE  /\ Along(p[0], path) \in Seq(AllTold) /\ Len(Along(p[0], path)) = n
           /\ \A k \in 1 .. n : Along(p[0], path)[k] = Told(path[k], p[k - 1], p[k])
<1>. DEFINE V == [here : Real, steps : Seq(AllTold)]
            base == [here |-> p[0], steps |-> <<>>]
            step == [k \in 1 .. n |-> [w \in V |-> OneOn(w, path[k])]]
            Body(g) == [s \in SUBSET (1 .. n) |->
                          IF s = {} THEN base ELSE OneOn(g[s \ {Max(s)}], path[Max(s)])]
            iter == CHOOSE g : g = Body(g)
<1>1. /\ \A k \in 1 .. n : path[k] \in Live
      /\ DOMAIN path = 1 .. n
      /\ \A k \in 0 .. n : p[k] \in Real
      /\ \A k \in 1 .. n : Towards(path[k], p[k - 1]) = p[k]
  BY ElementOfSeq, LenProperties DEF GoesThrough
<1>2. \A k \in 1 .. n : path[k].predicate \in Predicates /\ path[k].subject \in Real /\ path[k].object \in Real
  BY <1>1, LiveIs
<1>3. base \in V
  BY <1>1, EmptySeq
<1>4. step \in [1 .. n -> [V -> V]]
  <2>1. ASSUME NEW k \in 1 .. n, NEW w \in V PROVE OneOn(w, path[k]) \in V
    <3>. DEFINE f == path[k]
                told == [predicate |-> f.predicate, forward |-> f.subject = w.here,
                         kind |-> type[Towards(f, w.here)]]
    <3>1. Towards(f, w.here) \in Real
      BY <1>2 DEF Towards
    <3>2. told \in AllTold
      BY <1>2, <3>1 DEF AllTold
    <3>3. w.steps \in Seq(AllTold)
      OBVIOUS
    <3>. HIDE DEF told
    <3>4. Append(w.steps, told) \in Seq(AllTold)
      BY <3>2, <3>3, AppendProperties
    <3>5. OneOn(w, f) = [here |-> Towards(f, w.here), steps |-> Append(w.steps, told)]
      BY DEF OneOn, told
    <3>. QED
      BY <3>1, <3>4, <3>5
  <2>. HIDE DEF V
  <2>. QED
    BY <2>1
<1>5. PICK g \in [SUBSET (1 .. n) -> V] : FoldsPlaces(g, n, base, step)
  <2>. HIDE DEF V, base, step
  <2>. QED
    BY <1>3, <1>4, FoldByPlaces
<1>6. g = Body(g)
  <2>1. ASSUME NEW s \in SUBSET (1 .. n), s # {}
        PROVE  step[Max(s)][g[s \ {Max(s)}]] = OneOn(g[s \ {Max(s)}], path[Max(s)])
    <3>1. Max(s) \in 1 .. n
      BY <2>1, MaxOfSome
    <3>2. g[s \ {Max(s)}] \in V
      OBVIOUS
    <3>. HIDE DEF V
    <3>. QED
      BY <3>1, <3>2
  <2>. HIDE DEF V, base, step
  <2>. QED
    BY <1>5, <2>1 DEF FoldsPlaces
<1>7. iter = Body(iter)
  <2>. HIDE DEF Body
  <2>. QED
    BY <1>6
<1>8. Along(p[0], path) = iter[1 .. n].steps
  BY <1>1 DEF Along, FoldLeft, MapThenFoldSet, OneOn
<1>. HIDE DEF iter
<1>9. \A s \in SUBSET (1 .. n) :
        iter[s] = IF s = {} THEN base ELSE OneOn(iter[s \ {Max(s)}], path[Max(s)])
  <2>. HIDE DEF base
  <2>. QED
    BY <1>7
<1>10. iter[1 .. 0] = base
  <2>1. 1 .. 0 = {} /\ {} \in SUBSET (1 .. n)
    OBVIOUS
  <2>. HIDE DEF base
  <2>. QED
    BY <1>9, <2>1
<1>11. ASSUME NEW k \in 1 .. n PROVE iter[1 .. k] = OneOn(iter[1 .. k - 1], path[k])
  <2>1. 1 .. k # {} /\ Max(1 .. k) = k /\ (1 .. k) \ {k} = 1 .. k - 1
    BY MaxOfPlaces
  <2>2. 1 .. k \in SUBSET (1 .. n)
    OBVIOUS
  <2>. HIDE DEF base
  <2>. QED
    BY <1>9, <2>1, <2>2
<1>. DEFINE TellsTo(k) ==
              /\ iter[1 .. k].here = p[k]
              /\ iter[1 .. k].steps \in Seq(AllTold) /\ Len(iter[1 .. k].steps) = k
              /\ \A m \in 1 .. k : iter[1 .. k].steps[m] = Told(path[m], p[m - 1], p[m])
            Good == {k \in 0 .. n : TellsTo(k)}
<1>12. 0 \in Good
  <2>1. iter[1 .. 0].here = p[0] /\ iter[1 .. 0].steps = <<>>
    BY <1>10
  <2>2. <<>> \in Seq(AllTold) /\ Len(<<>>) = 0
    OBVIOUS
  <2>3. 0 \in 0 .. n /\ \A m \in 1 .. 0 : FALSE
    OBVIOUS
  <2>. QED
    BY <2>1, <2>2, <2>3
<1>13. ASSUME NEW k \in 0 .. n - 1, k \in Good PROVE k + 1 \in Good
  <2>1. iter[1 .. k + 1] = OneOn(iter[1 .. k], path[k + 1])
    <3>1. k + 1 \in 1 .. n /\ (k + 1) - 1 = k
      OBVIOUS
    <3>. QED
      BY <1>11, <3>1
  <2>. DEFINE w == iter[1 .. k]
              told == Told(path[k + 1], p[k], p[k + 1])
  <2>2. w.here = p[k] /\ w.steps \in Seq(AllTold) /\ Len(w.steps) = k
        /\ \A m \in 1 .. k : w.steps[m] = Told(path[m], p[m - 1], p[m])
    BY <1>13
  <2>3. k + 1 \in 1 .. n /\ (k + 1) - 1 = k
    OBVIOUS
  <2>4. Towards(path[k + 1], p[k]) = p[k + 1]
    BY <1>1, <2>3
  <2>5. told \in AllTold
    BY <1>1, <1>2, <2>3 DEF Told, AllTold
  <2>6. OneOn(w, path[k + 1]) = [here |-> p[k + 1], steps |-> Append(w.steps, told)]
    BY <2>2, <2>4 DEF OneOn, Told
  <2>. HIDE DEF w, told
  <2>7. iter[1 .. k + 1].here = p[k + 1] /\ iter[1 .. k + 1].steps = Append(w.steps, told)
    BY <2>1, <2>6 DEF w
  <2>8. /\ Append(w.steps, told) \in Seq(AllTold) /\ Len(Append(w.steps, told)) = k + 1
        /\ Append(w.steps, told)[k + 1] = told
        /\ \A m \in 1 .. k : Append(w.steps, told)[m] = w.steps[m]
    BY <2>2, <2>5, AppendProperties
  <2>9. \A m \in 1 .. k + 1 : m = k + 1 \/ m \in 1 .. k
    OBVIOUS
  <2>10. \A m \in 1 .. k + 1 : Append(w.steps, told)[m] = Told(path[m], p[m - 1], p[m])
    BY <2>2, <2>3, <2>8, <2>9 DEF told
  <2>11. TellsTo(k + 1)
    BY <2>7, <2>8, <2>10
  <2>. HIDE DEF TellsTo
  <2>. QED
    BY <2>3, <2>11
<1>14. 0 .. n \subseteq Good
  <2>. HIDE DEF Good
  <2>. QED
    BY <1>12, <1>13, UpTo
<1>15. TellsTo(n)
  <2>. HIDE DEF TellsTo
  <2>. QED
    BY <1>14
<1>. QED
  BY <1>8, <1>15

\* what the reader has reached after each step
IsReading(F, start, steps, classes) ==
    /\ F[0] = Thing(start, classes)
    /\ \A k \in 1 .. Len(steps) : F[k] = Reached(CurrentEdges, F[k - 1], steps[k], classes)

\* no step leads out of D
StaysIn(D, steps, classes) ==
    \A S \in SUBSET D : \A k \in DOMAIN steps :
        Reached(CurrentEdges, S, steps[k], classes) \in SUBSET D

\* the reading of these steps, from this start, is a fold that stops here
IsRead(start, steps, classes) ==
    \E F : /\ IsReading(F, start, steps, classes)
           /\ ReadByNames(start, steps, classes) = {Thing(i, classes) : i \in F[Len(steps)]}

LEMMA ReadStepByStep ==
    ASSUME NEW n \in Nat, NEW X, NEW steps \in Seq(X), Len(steps) = n, NEW start, NEW classes, NEW D,
           Thing(start, classes) \in SUBSET D, StaysIn(D, steps, classes)
    PROVE  IsRead(start, steps, classes)
<1>. DEFINE V == SUBSET D
            base == Thing(start, classes)
            step == [k \in 1 .. n |-> [S \in V |-> Reached(CurrentEdges, S, steps[k], classes)]]
            Body(g) == [s \in SUBSET (1 .. n) |->
                          IF s = {} THEN base
                          ELSE Reached(CurrentEdges, g[s \ {Max(s)}], steps[Max(s)], classes)]
            iter == CHOOSE g : g = Body(g)
<1>1. base \in V /\ step \in [1 .. n -> [V -> V]]
  <2>1. DOMAIN steps = 1 .. n
    BY LenProperties
  <2>. QED
    BY <2>1 DEF StaysIn
<1>2. PICK g \in [SUBSET (1 .. n) -> V] : FoldsPlaces(g, n, base, step)
  <2>. HIDE DEF V, base, step
  <2>. QED
    BY <1>1, FoldByPlaces
<1>3. g = Body(g)
  <2>1. ASSUME NEW s \in SUBSET (1 .. n), s # {}
        PROVE  step[Max(s)][g[s \ {Max(s)}]]
                  = Reached(CurrentEdges, g[s \ {Max(s)}], steps[Max(s)], classes)
    <3>1. Max(s) \in 1 .. n
      BY <2>1, MaxOfSome
    <3>2. g[s \ {Max(s)}] \in V
      OBVIOUS
    <3>. HIDE DEF V
    <3>. QED
      BY <3>1, <3>2
  <2>. HIDE DEF V, base, step
  <2>. QED
    BY <1>2, <2>1 DEF FoldsPlaces
<1>4. iter = Body(iter)
  <2>. HIDE DEF Body
  <2>. QED
    BY <1>3
<1>5. ReadByNames(start, steps, classes) = {Thing(i, classes) : i \in iter[1 .. n]}
  <2>1. DOMAIN steps = 1 .. n
    BY LenProperties
  <2>. QED
    BY <2>1 DEF ReadByNames, FoldLeft, MapThenFoldSet
<1>. HIDE DEF iter
<1>6. \A s \in SUBSET (1 .. n) :
        iter[s] = IF s = {} THEN base
                  ELSE Reached(CurrentEdges, iter[s \ {Max(s)}], steps[Max(s)], classes)
  <2>. HIDE DEF base
  <2>. QED
    BY <1>4
<1>. DEFINE F == [k \in 0 .. n |-> iter[1 .. k]]
<1>7. F[0] = base
  <2>1. 1 .. 0 = {} /\ {} \in SUBSET (1 .. n) /\ F[0] = iter[1 .. 0]
    OBVIOUS
  <2>. HIDE DEF base, F
  <2>. QED
    BY <1>6, <2>1
<1>8. ASSUME NEW k \in 1 .. n PROVE F[k] = Reached(CurrentEdges, F[k - 1], steps[k], classes)
  <2>1. 1 .. k # {} /\ Max(1 .. k) = k /\ (1 .. k) \ {k} = 1 .. k - 1
    <3>1. k \in Nat \ {0}
      OBVIOUS
    <3>. QED
      BY <3>1, MaxOfPlaces
  <2>2. 1 .. k \in SUBSET (1 .. n) /\ F[k] = iter[1 .. k] /\ F[k - 1] = iter[1 .. k - 1]
    OBVIOUS
  <2>. HIDE DEF F, base
  <2>. QED
    BY <1>6, <2>1, <2>2
<1>9. F[n] = iter[1 .. n]
  OBVIOUS
<1>. HIDE DEF F
<1>10. IsReading(F, start, steps, classes)
  BY <1>7, <1>8 DEF IsReading
<1>. QED
  BY <1>5, <1>9, <1>10 DEF IsRead

LEMMA ThingOf ==
    ASSUME LabelsInv, NEW i \in DOMAIN name
    PROVE  /\ Thing(i, Classes) \in Classes /\ i \in Thing(i, Classes)
           /\ Thing(i, Classes) \subseteq DOMAIN name
<1>1. IsPartition(Classes, DOMAIN name)
  BY ClassesPartition
<1>2. \E c \in Classes : i \in c
  BY <1>1 DEF IsPartition
<1>3. Thing(i, Classes) \in Classes /\ i \in Thing(i, Classes)
  BY <1>2 DEF Thing
<1>. QED
  BY <1>1, <1>3 DEF IsPartition

LEMMA EndsAreNamed ==
    ASSUME WorldInv, LabelsInv, NEW f \in facts
    PROVE  f.subject \in DOMAIN name /\ f.object \in DOMAIN name
BY DEF WorldInv, FactsInv, RealFact, GhostFact, LabelsInv

LEMMA ReachedIsNamed ==
    ASSUME WorldInv, LabelsInv, NEW S, NEW step
    PROVE  Reached(CurrentEdges, S, step, Classes) \in SUBSET DOMAIN name
<1>. DEFINE live == {f \in CurrentEdges : f.predicate = step.predicate}
            far == IF step.forward THEN {f.object : f \in {x \in live : x.subject \in S}}
                   ELSE {f.subject : f \in {x \in live : x.object \in S}}
<1>1. far \subseteq DOMAIN name
  BY EndsAreNamed DEF CurrentEdges
<1>2. \A i \in far : Thing(i, Classes) \subseteq DOMAIN name
  BY <1>1, ThingOf
<1>. HIDE DEF far
<1>3. {j \in UNION {Thing(i, Classes) : i \in far} : type[j] = step.kind} \subseteq DOMAIN name
  BY <1>2
<1>. QED
  BY <1>3 DEF Reached, far

\* what is reached from S in a step with this predicate, forward and kind, entity by entity
LEMMA ReachedIs ==
    ASSUME NEW S, NEW step, NEW j
    PROVE  j \in Reached(CurrentEdges, S, step, Classes) <=>
              /\ type[j] = step.kind
              /\ \E f \in CurrentEdges :
                    /\ f.predicate = step.predicate
                    /\ IF step.forward THEN f.subject \in S /\ j \in Thing(f.object, Classes)
                       ELSE f.object \in S /\ j \in Thing(f.subject, Classes)
<1>1. CASE step.forward
  BY <1>1 DEF Reached
<1>2. CASE ~step.forward
  BY <1>2 DEF Reached
<1>. QED
  BY <1>1, <1>2

\* A path of gold goes through real entities, from the start to an answer.
LEMMA GoldGoesThrough ==
    ASSUME WorldInv, NEW q, DenotedRight(q), ChainShaped(q), NEW path \in q.paths
    PROVE  \E p : /\ GoesThrough(path, p, q.hops) /\ p[0] = q.start /\ p[q.hops] \in q.answers
                  /\ \A k \in 1 .. q.hops : Holds(path[k], p[k - 1], q.relations[k], p[k])
<1>1. Len(path) = q.hops /\ Supports(path, q) /\ path \in Seq(Live) /\ q.hops \in Nat \ {0}
  BY DEF DenotedRight, ChainShaped
<1>2. PICK p \in [0 .. q.hops -> Real] :
          /\ p[0] = q.start /\ p[q.hops] \in q.answers
          /\ \A k \in 1 .. q.hops : path[k] \in TrueIn(EndYear) /\ Holds(path[k], p[k - 1], q.relations[k], p[k])
  BY <1>1 DEF Supports
<1>3. ASSUME NEW k \in 1 .. q.hops
      PROVE  Touches(path[k], p[k - 1]) /\ Towards(path[k], p[k - 1]) = p[k]
  <2>1. path[k] \in Live
    BY <1>1, ElementOfSeq
  <2>2. path[k].subject # path[k].object
    BY <2>1, LiveIs
  <2>3. Holds(path[k], p[k - 1], q.relations[k], p[k])
    BY <1>2
  <2>. QED
    BY <2>2, <2>3 DEF Holds, Touches, Towards
<1>4. GoesThrough(path, p, q.hops)
  BY <1>1, <1>2, <1>3 DEF GoesThrough
<1>. QED
  BY <1>2, <1>4

\* The reader is where the path is, after each step.
LEMMA ReaderKeepsUp ==
    ASSUME WorldInv, LabelsInv, NEW n \in Nat, NEW path, NEW p, GoesThrough(path, p, n),
           NEW steps, steps = Along(p[0], path), NEW F, IsReading(F, p[0], steps, Classes)
    PROVE  p[n] \in F[n]
<1>1. /\ Len(steps) = n /\ \A k \in 1 .. n : steps[k] = Told(path[k], p[k - 1], p[k])
  BY AlongTells
<1>2. /\ \A k \in 1 .. n : path[k] \in Live
      /\ \A k \in 0 .. n : p[k] \in Real
      /\ \A k \in 1 .. n : Touches(path[k], p[k - 1]) /\ Towards(path[k], p[k - 1]) = p[k]
  BY ElementOfSeq DEF GoesThrough
<1>3. \A k \in 0 .. n : p[k] \in DOMAIN name /\ p[k] \in Thing(p[k], Classes)
  BY <1>2, ThingOf DEF LabelsInv
<1>. DEFINE Good == {k \in 0 .. n : p[k] \in F[k]}
<1>4. 0 \in Good
  BY <1>3 DEF IsReading
<1>5. ASSUME NEW k \in 0 .. n - 1, k \in Good PROVE k + 1 \in Good
  <2>1. k + 1 \in 1 .. n /\ (k + 1) - 1 = k /\ k + 1 \in 0 .. n
    OBVIOUS
  <2>. DEFINE f == path[k + 1]
              step == steps[k + 1]
  <2>2. F[k + 1] = Reached(CurrentEdges, F[k], step, Classes)
    BY <1>1, <2>1 DEF IsReading
  <2>3. step.predicate = f.predicate /\ (step.forward <=> f.subject = p[k]) /\ step.kind = type[p[k + 1]]
    <3>1. step = Told(f, p[k], p[k + 1])
      <4>1. steps[k + 1] = Told(path[k + 1], p[(k + 1) - 1], p[k + 1])
        BY <1>1, <2>1
      <4>. QED
        BY <2>1, <4>1
    <3>. HIDE DEF f, step
    <3>. QED
      BY <3>1 DEF Told
  <2>4. f \in CurrentEdges
    BY <1>2, <2>1 DEF Live
  <2>5. Touches(f, p[k]) /\ Towards(f, p[k]) = p[k + 1]
    BY <1>2, <2>1
  <2>6. p[k] \in F[k]
    BY <1>5
  <2>7. p[k + 1] \in Thing(p[k + 1], Classes)
    BY <1>3, <2>1
  <2>8. IF step.forward THEN f.subject \in F[k] /\ p[k + 1] \in Thing(f.object, Classes)
        ELSE f.object \in F[k] /\ p[k + 1] \in Thing(f.subject, Classes)
    BY <2>3, <2>5, <2>6, <2>7 DEF Touches, Towards
  <2>. HIDE DEF f, step
  <2>9. p[k + 1] \in F[k + 1]
    BY <2>2, <2>3, <2>4, <2>8, ReachedIs
  <2>. QED
    BY <2>1, <2>9
<1>6. 0 .. n \subseteq Good
  <2>. HIDE DEF Good
  <2>. QED
    BY <1>4, <1>5, UpTo
<1>. QED
  BY <1>6

\* Where every class is one entity, the reader is only where the relations lead.
LEMMA ReaderGoesNoFurther ==
    ASSUME WorldInv, LabelsInv, NEW n \in Nat, NEW path, NEW p, GoesThrough(path, p, n),
           NEW steps, steps = Along(p[0], path), NEW F, IsReading(F, p[0], steps, Classes),
           NEW relations, \A k \in 1 .. n : relations[k] \in Relations,
           \A k \in 1 .. n : Holds(path[k], p[k - 1], relations[k], p[k]),
           \A i \in DOMAIN name : Thing(i, Classes) = {i}
    PROVE  F[n] \subseteq Led(p[0], relations, n)
<1>1. /\ Len(steps) = n /\ \A k \in 1 .. n : steps[k] = Told(path[k], p[k - 1], p[k])
  BY AlongTells
<1>2. /\ \A k \in 1 .. n : path[k] \in Live
      /\ \A k \in 0 .. n : p[k] \in Real
  BY ElementOfSeq DEF GoesThrough
<1>. DEFINE Good == {k \in 0 .. n : F[k] \subseteq Led(p[0], relations, k)}
<1>3. 0 \in Good
  <2>1. p[0] \in Real /\ p[0] \in DOMAIN name
    BY <1>2 DEF LabelsInv
  <2>2. F[0] = {p[0]}
    BY <2>1 DEF IsReading
  <2>. QED
    BY <2>1, <2>2, LedNowhere
<1>4. ASSUME NEW k \in 0 .. n - 1, k \in Good PROVE k + 1 \in Good
  <2>1. k + 1 \in 1 .. n /\ (k + 1) - 1 = k /\ k + 1 \in 0 .. n /\ k \in Nat
    OBVIOUS
  <2>. DEFINE f == path[k + 1]
              step == steps[k + 1]
              r == relations[k + 1]
  <2>2. F[k + 1] = Reached(CurrentEdges, F[k], step, Classes)
    BY <1>1, <2>1 DEF IsReading
  <2>3. f \in Live /\ r \in Relations /\ Holds(f, p[k], r, p[k + 1])
    BY <1>2, <2>1
  <2>4. step.predicate = f.predicate /\ (step.forward <=> f.subject = p[k])
        /\ step.forward \in BOOLEAN
    <3>1. step = Told(f, p[k], p[k + 1])
      <4>1. steps[k + 1] = Told(path[k + 1], p[(k + 1) - 1], p[k + 1])
        BY <1>1, <2>1
      <4>. QED
        BY <2>1, <4>1
    <3>. HIDE DEF f, step
    <3>. QED
      BY <3>1 DEF Told
  <2>5. r.forward \in BOOLEAN
    BY <2>3 DEF Relations, Relation, Steps
  <2>6. step.predicate = r.predicate /\ step.forward = r.forward /\ r.predicate \in Predicates
    <3>1. f.subject # f.object /\ f.predicate \in Predicates
      BY <2>3, LiveIs
    <3>. QED
      BY <2>3, <2>4, <2>5, <3>1 DEF Holds
  <2>7. F[k] \subseteq Led(p[0], relations, k)
    BY <1>4
  <2>8. Led(p[0], relations, k) \subseteq Real
    BY DEF Led
  <2>9. p[0] \in Real
    BY <1>2
  <2>10. Led(p[0], relations, k + 1) = Reach(Led(p[0], relations, k), r)
    BY <2>1, <2>3, <2>9, LedFurther
  <2>. HIDE DEF f, step, r
  <2>11. ASSUME NEW j \in F[k + 1] PROVE j \in Reach(Led(p[0], relations, k), r)
    <3>1. PICK e \in CurrentEdges :
              /\ e.predicate = step.predicate
              /\ IF step.forward THEN e.subject \in F[k] /\ j \in Thing(e.object, Classes)
                 ELSE e.object \in F[k] /\ j \in Thing(e.subject, Classes)
      BY <2>2, <2>11, ReachedIs
    <3>2. e \in facts
      BY DEF CurrentEdges
    <3>3. e.subject \in DOMAIN name /\ e.object \in DOMAIN name
      BY <3>2, EndsAreNamed
    <3>4. e.subject \in Real \/ e.object \in Real
      BY <2>7, <2>8, <3>1
    <3>5. e.subject \in Real /\ e.object \in Real
      BY <3>2, <3>4, WorldAssumption DEF WorldInv, FactsInv, RealFact, GhostFact
    <3>6. e \in Live
      BY <2>6, <3>1, <3>5, WorldAssumption DEF Live
    <3>7. \E x \in Led(p[0], relations, k) : Holds(e, x, r, j)
      BY <2>6, <2>7, <3>1, <3>3 DEF Holds
    <3>. QED
      BY <2>3, <3>6, <3>7, ReachIs
  <2>. QED
    BY <2>1, <2>10, <2>11
<1>5. 0 .. n \subseteq Good
  <2>. HIDE DEF Good
  <2>. QED
    BY <1>3, <1>4, UpTo
<1>. QED
  BY <1>5

LEMMA AloneInClass ==
    ASSUME LabelsInv, \A c \in Classes : Cardinality(c) = 1, NEW i \in DOMAIN name
    PROVE  Thing(i, Classes) = {i}
<1>1. /\ Thing(i, Classes) \in Classes /\ i \in Thing(i, Classes)
      /\ Thing(i, Classes) \subseteq DOMAIN name
  BY ThingOf
<1>2. IsFiniteSet(DOMAIN name)
  BY FS_Union, FS_Subset, WorldAssumption DEF LabelsInv
<1>3. IsFiniteSet(Thing(i, Classes)) /\ Cardinality(Thing(i, Classes)) = 1
  BY <1>1, <1>2, FS_Subset
<1>4. PICK x : Thing(i, Classes) = {x}
  BY <1>3, FS_Singleton
<1>. QED
  BY <1>1, <1>4

\* A question's path is read as far as its facts go.
LEMMA GoldIsRead ==
    ASSUME WorldInv, LabelsInv, NEW n \in Nat, NEW path, NEW p, GoesThrough(path, p, n)
    PROVE  IsRead(p[0], Along(p[0], path), Classes)
<1>1. Along(p[0], path) \in Seq(AllTold) /\ Len(Along(p[0], path)) = n
  BY AlongTells
<1>2. p[0] \in DOMAIN name
  BY DEF GoesThrough, LabelsInv
<1>3. Thing(p[0], Classes) \in SUBSET DOMAIN name
  BY <1>2, ThingOf
<1>. DEFINE steps == Along(p[0], path)
<1>4. StaysIn(DOMAIN name, steps, Classes)
  BY ReachedIsNamed DEF StaysIn
<1>5. steps \in Seq(AllTold) /\ Len(steps) = n
  BY <1>1
<1>. HIDE DEF steps
<1>6. IsRead(p[0], steps, Classes)
  BY <1>3, <1>4, <1>5, ReadStepByStep
<1>. QED
  BY <1>6 DEF steps

\* A reader who knows only names finds every answer of a chain question whose path is typed like
\* the one walked again, and where no two entities share a name finds nothing else.
THEOREM NamesAlwaysReachTheGold == GeneratorSpec => []NamesReachTheGold
<1>1. ASSUME WorldInv, LabelsInv, GoldInv PROVE NamesReachTheGold
  <2>1. SUFFICES ASSUME NEW q \in asked, q.kind \in {"entity", "set", "count"}, NEW path \in q.paths
        PROVE  /\ \A p \in q.paths : Along(q.start, p) = Along(q.start, path) =>
                    \E i \in q.answers :
                        /\ i \in Ends(p[Len(p)])
                        /\ Thing(i, Classes) \in ReadByNames(q.start, Along(q.start, path), Classes)
               /\ (\A c \in Classes : Cardinality(c) = 1) => Extra(q, path, Classes) = {}
    BY DEF NamesReachTheGold, OfKind
  <2>. DEFINE n == q.hops
              steps == Along(q.start, path)
  <2>2. DenotedRight(q) /\ ChainShaped(q)
    BY <1>1, <2>1 DEF GoldInv, Right
  <2>3. n \in Nat \ {0} /\ q.start \in Real /\ Len(q.relations) = n
        /\ \A k \in 1 .. n : q.relations[k] \in Relations
    BY <2>2 DEF ChainShaped
  <2>4. PICK p : /\ GoesThrough(path, p, n) /\ p[0] = q.start /\ p[n] \in q.answers
                 /\ \A k \in 1 .. n : Holds(path[k], p[k - 1], q.relations[k], p[k])
    BY <1>1, <2>2, GoldGoesThrough
  <2>5. PICK F : /\ IsReading(F, q.start, steps, Classes)
                 /\ ReadByNames(q.start, steps, Classes) = {Thing(i, Classes) : i \in F[n]}
    <3>1. IsRead(p[0], Along(p[0], path), Classes)
      BY <1>1, <2>3, <2>4, GoldIsRead
    <3>2. Len(steps) = n
      BY <1>1, <2>3, <2>4, AlongTells
    <3>. QED
      BY <2>4, <3>1, <3>2 DEF IsRead
  <2>6. ASSUME NEW other \in q.paths, Along(q.start, other) = steps
        PROVE  \E i \in q.answers :
                  /\ i \in Ends(other[Len(other)])
                  /\ Thing(i, Classes) \in ReadByNames(q.start, steps, Classes)
    <3>1. PICK w : /\ GoesThrough(other, w, n) /\ w[0] = q.start /\ w[n] \in q.answers
                   /\ \A k \in 1 .. n : Holds(other[k], w[k - 1], q.relations[k], w[k])
      BY <1>1, <2>2, GoldGoesThrough
    <3>2. w[n] \in F[n]
      BY <1>1, <2>3, <2>5, <2>6, <3>1, ReaderKeepsUp
    <3>3. Len(other) = n /\ Holds(other[n], w[n - 1], q.relations[n], w[n])
      BY <2>3, <3>1 DEF GoesThrough
    <3>4. w[n] \in Ends(other[Len(other)])
      BY <3>3 DEF Holds, Ends
    <3>. QED
      BY <2>5, <3>1, <3>2, <3>4
  <2>7. ASSUME \A c \in Classes : Cardinality(c) = 1 PROVE Extra(q, path, Classes) = {}
    <3>1. \A i \in DOMAIN name : Thing(i, Classes) = {i}
      BY <1>1, <2>7, AloneInClass
    <3>2. F[n] \subseteq Led(q.start, q.relations, n)
      BY <1>1, <2>3, <2>4, <2>5, <3>1, ReaderGoesNoFurther
    <3>3. q.answers = Led(q.start, q.relations, n)
      BY <1>1, <2>2, <2>3, DenotedIs DEF DenotedRight
    <3>. QED
      BY <2>5, <3>2, <3>3 DEF Extra
  <2>. QED
    BY <2>6, <2>7
<1>. QED
  BY <1>1, WorldInvHolds, LabelsInvHolds, GoldInvHolds, PTL
=============================================================================
