-------------------------- MODULE BenchmarkProofs --------------------------
(***************************************************************************)
(* What is proved of kgbench: how answers are graded, for any questions,   *)
(* sentences and structures; what one harness reports, run after run, for  *)
(* any files, subsets, object keys and answers; and what is asked of a     *)
(* model and kept of its replies, for any prompts, replies and threads.    *)
(***************************************************************************)
EXTENDS BenchmarkProperties, TLAPS, FiniteSetTheorems, WellFoundedInduction, SequenceTheorems

(***************************************************************************)
(* Induction and recursion, in the form the proofs below use: the claim to *)
(* be proved by induction is a set of those it holds for, and what a       *)
(* recursive definition does at each step is a function.                   *)
(***************************************************************************)

\* Some number of a set of naturals is the least.
LEMMA LeastOfNaturals ==
    ASSUME NEW T, T \subseteq Nat, T # {}
    PROVE  \E n \in T : \A m \in T : n <= m
<1>. DEFINE R == {p \in Nat \X Nat : p[1] < p[2]}
<1>1. IsWellFoundedOn(R, Nat)
  BY NatLessThanWellFounded DEF OpToRel
<1>2. \A x, y \in Nat : x < y => <<x, y>> \in R
  OBVIOUS
<1>. HIDE DEF R
<1>3. PICK x \in T : \A y \in T : ~(<<y, x>> \in R)
  BY <1>1, WFMin
<1>4. \A y \in T : x <= y
  <2>1. TAKE y \in T
  <2>2. x \in Nat /\ y \in Nat /\ ~(y < x)
    BY <1>2, <1>3
  <2>. QED
    BY <2>2
<1>. QED
  BY <1>4

\* Every number up to N is in a set that holds 0 and with n also n + 1.
LEMMA CountUp ==
    ASSUME NEW N \in Nat, NEW Good, 0 \in Good,
           \A n \in 0 .. N - 1 : n \in Good => n + 1 \in Good
    PROVE  0 .. N \subseteq Good
<1>. DEFINE Bad == {n \in 0 .. N : n \notin Good}
<1>. SUFFICES ASSUME Bad # {} PROVE FALSE
  OBVIOUS
<1>1. PICK n \in Bad : \A m \in Bad : n <= m
  <2>1. Bad \subseteq Nat
    OBVIOUS
  <2>. HIDE DEF Bad
  <2>. QED
    BY <2>1, LeastOfNaturals
<1>2. n \in 1 .. N /\ n - 1 \in 0 .. N - 1 /\ n - 1 \notin Bad
  BY <1>1
<1>3. n - 1 \in Good
  BY <1>2
<1>4. (n - 1) + 1 \in Good
  BY <1>2, <1>3
<1>. QED
  BY <1>1, <1>2, <1>4

\* Every subset of a finite set is in a collection that holds {} and holds a set when it holds
\* the set without any one of its elements.
LEMMA SubsetInduction ==
    ASSUME NEW S, IsFiniteSet(S), NEW Good, {} \in Good,
           \A s \in SUBSET S : s # {} /\ (\A x \in s : s \ {x} \in Good) => s \in Good
    PROVE  \A s \in SUBSET S : s \in Good
<1>. DEFINE All(n) == \A s \in SUBSET S : Cardinality(s) = n => s \in Good
            Heights == {n \in Nat : All(n)}
<1>1. Cardinality(S) \in Nat
  BY FS_CardinalityType
<1>2. 0 \in Heights
  <2>1. ASSUME NEW s \in SUBSET S, Cardinality(s) = 0 PROVE s = {}
    BY <2>1, FS_Subset, FS_EmptySet
  <2>. QED
    BY <2>1
<1>3. ASSUME NEW n \in Nat, n \in Heights PROVE n + 1 \in Heights
  <2>1. ASSUME NEW s \in SUBSET S, Cardinality(s) = n + 1 PROVE s \in Good
    <3>1. IsFiniteSet(s)
      BY FS_Subset
    <3>2. s # {}
      <4>1. Cardinality({}) = 0 /\ n + 1 # 0
        BY FS_EmptySet
      <4>. QED
        BY <2>1, <4>1
    <3>3. ASSUME NEW x \in s PROVE s \ {x} \in Good
      <4>1. Cardinality(s \ {x}) = Cardinality(s) - 1
        BY <3>1, FS_RemoveElement
      <4>2. Cardinality(s \ {x}) = n
        BY <2>1, <4>1
      <4>. QED
        BY <1>3, <4>2
    <3>. QED
      BY <3>2, <3>3
  <2>. QED
    BY <2>1
<1>4. 0 .. Cardinality(S) \subseteq Heights
  <2>. HIDE DEF Heights
  <2>1. \A n \in 0 .. Cardinality(S) - 1 : n \in Heights => n + 1 \in Heights
    BY <1>1, <1>3
  <2>. QED
    BY <1>1, <1>2, <2>1, CountUp
<1>5. \A s \in SUBSET S : Cardinality(s) \in 0 .. Cardinality(S)
  <2>1. TAKE s \in SUBSET S
  <2>2. IsFiniteSet(s) /\ Cardinality(s) <= Cardinality(S)
    BY FS_Subset
  <2>3. Cardinality(s) \in Nat
    BY <2>2, FS_CardinalityType
  <2>. QED
    BY <1>1, <2>2, <2>3
<1>. QED
  BY <1>4, <1>5

\* Every finite set is in a collection that holds {} and can be added to.
LEMMA SetInduction ==
    ASSUME NEW S, IsFiniteSet(S), NEW Good, {} \in Good,
           \A s \in SUBSET S : \A x \in S \ s : s \in Good => s \cup {x} \in Good
    PROVE  S \in Good
<1>1. ASSUME NEW s \in SUBSET S, s # {}, \A x \in s : s \ {x} \in Good PROVE s \in Good
  <2>1. PICK x \in s : TRUE
    BY <1>1
  <2>2. s \ {x} \in SUBSET S /\ x \in S \ (s \ {x}) /\ s \ {x} \in Good
    BY <1>1
  <2>3. (s \ {x}) \cup {x} \in Good
    BY <2>2
  <2>4. (s \ {x}) \cup {x} = s
    OBVIOUS
  <2>. QED
    BY <2>3, <2>4
<1>. QED
  BY <1>1, SubsetInduction

\* g goes through N steps from a
Leads(g, N, a, step) ==
    /\ g[0] = a
    /\ \A n \in 1 .. N : g[n] = step[n][g[n - 1]]

\* Steps one after the other lead somewhere.
LEMMA StepsLead ==
    ASSUME NEW N \in Nat, NEW V, NEW a \in V, NEW step \in [1 .. N -> [V -> V]]
    PROVE  \E g \in [0 .. N -> V] : Leads(g, N, a, step)
<1>. DEFINE Good == {n \in 0 .. N : \E g \in [0 .. n -> V] : Leads(g, n, a, step)}
<1>1. 0 \in Good
  <2>1. [k \in 0 .. 0 |-> a] \in [0 .. 0 -> V] /\ Leads([k \in 0 .. 0 |-> a], 0, a, step)
    BY DEF Leads
  <2>. QED
    BY <2>1
<1>2. ASSUME NEW n \in 0 .. N - 1, n \in Good PROVE n + 1 \in Good
  <2>1. PICK g \in [0 .. n -> V] : Leads(g, n, a, step)
    BY <1>2
  <2>. DEFINE h == [k \in 0 .. n + 1 |-> IF k = n + 1 THEN step[n + 1][g[n]] ELSE g[k]]
  <2>2. n + 1 \in 1 .. N /\ n \in 0 .. n /\ g[n] \in V /\ step[n + 1][g[n]] \in V
    OBVIOUS
  <2>3. h \in [0 .. n + 1 -> V]
    BY <2>2
  <2>4. h[0] = a
    BY <2>1 DEF Leads
  <2>5. ASSUME NEW k \in 1 .. n + 1 PROVE h[k] = step[k][h[k - 1]]
    <3>1. CASE k = n + 1
      BY <3>1
    <3>2. CASE k # n + 1
      <4>1. k \in 1 .. n /\ k - 1 \in 0 .. n
        BY <3>2
      <4>2. h[k] = g[k] /\ h[k - 1] = g[k - 1]
        BY <4>1
      <4>. QED
        BY <2>1, <4>1, <4>2 DEF Leads
    <3>. QED
      BY <3>1, <3>2
  <2>6. Leads(h, n + 1, a, step)
    BY <2>4, <2>5 DEF Leads
  <2>. HIDE DEF h
  <2>. QED
    BY <2>3, <2>6
<1>3. 0 .. N \subseteq Good
  <2>. HIDE DEF Good
  <2>. QED
    BY <1>1, <1>2, CountUp
<1>. QED
  BY <1>3

\* from every subset of S that is not empty, something is picked
Picks(pick, S) == \A s \in SUBSET S : s # {} => pick[s] \in s

\* g folds every subset of S, taking the element picked last
Folds(g, S, base, step, pick) ==
    \A s \in SUBSET S : g[s] = IF s = {} THEN base ELSE step[pick[s]][g[s \ {pick[s]}]]

\* Every finite set can be folded.
LEMMA FoldExists ==
    ASSUME NEW S, IsFiniteSet(S), NEW V, NEW base \in V, NEW step \in [S -> [V -> V]],
           NEW pick, Picks(pick, S)
    PROVE  \E g \in [SUBSET S -> V] : Folds(g, S, base, step, pick)
<1>. DEFINE upTo(n) == {s \in SUBSET S : Cardinality(s) <= n}
            IsFold(g, n) == \A s \in upTo(n) :
                g[s] = IF s = {} THEN base ELSE step[pick[s]][g[s \ {pick[s]}]]
            Good == {n \in Nat : \E g \in [upTo(n) -> V] : IsFold(g, n)}
<1>1. Cardinality(S) \in Nat
  BY FS_CardinalityType
<1>2. \A s \in SUBSET S : Cardinality(s) \in Nat /\ IsFiniteSet(s) /\ Cardinality(s) <= Cardinality(S)
  BY FS_Subset, FS_CardinalityType
<1>3. \A s \in SUBSET S : s # {} =>
        pick[s] \in s /\ Cardinality(s \ {pick[s]}) = Cardinality(s) - 1
  BY <1>2, FS_RemoveElement DEF Picks
<1>4. \A s \in SUBSET S : Cardinality(s) <= 0 => s = {}
  BY <1>2, FS_EmptySet
<1>5. 0 \in Good
  <2>1. [s \in upTo(0) |-> base] \in [upTo(0) -> V] /\ IsFold([s \in upTo(0) |-> base], 0)
    BY <1>4
  <2>. QED
    BY <2>1
<1>6. ASSUME NEW n \in Nat, n \in Good PROVE n + 1 \in Good
  <2>1. PICK g \in [upTo(n) -> V] : IsFold(g, n)
    BY <1>6
  <2>. DEFINE h == [s \in upTo(n + 1) |->
                       IF s = {} THEN base ELSE step[pick[s]][g[s \ {pick[s]}]]]
  <2>2. \A s \in upTo(n + 1) : s # {} => s \ {pick[s]} \in upTo(n) /\ pick[s] \in S
    BY <1>2, <1>3
  <2>3. h \in [upTo(n + 1) -> V]
    BY <2>2
  <2>4. upTo(n) \subseteq upTo(n + 1)
    BY <1>2
  <2>5. \A s \in upTo(n) : h[s] = g[s]
    BY <2>1, <2>4
  <2>6. IsFold(h, n + 1)
    BY <2>2, <2>5
  <2>7. \E f \in [upTo(n + 1) -> V] : IsFold(f, n + 1)
    <3>. HIDE DEF h, IsFold, upTo
    <3>. QED
      BY <2>3, <2>6
  <2>. HIDE DEF IsFold, upTo
  <2>. QED
    BY <2>7
<1>7. Cardinality(S) \in Good
  <2>. HIDE DEF Good
  <2>1. 0 .. Cardinality(S) \subseteq Good
    BY <1>1, <1>5, <1>6, CountUp
  <2>. QED
    BY <1>1, <2>1
<1>8. upTo(Cardinality(S)) = SUBSET S
  BY <1>2
<1>9. PICK g \in [upTo(Cardinality(S)) -> V] : IsFold(g, Cardinality(S))
  BY <1>7
<1>. QED
  BY <1>8, <1>9 DEF Folds

\* The image of a finite set is finite, and as large when no two elements have the same image.
LEMMA ImageSize ==
    ASSUME NEW S, NEW f, IsFiniteSet(S)
    PROVE  /\ IsFiniteSet({f[x] : x \in S}) /\ Cardinality({f[x] : x \in S}) <= Cardinality(S)
           /\ (\A x, y \in S : f[x] = f[y] => x = y) => Cardinality({f[x] : x \in S}) = Cardinality(S)
<1>. DEFINE T == {f[x] : x \in S}
            g == [x \in S |-> f[x]]
<1>1. g \in Surjection(S, T)
  BY DEF Surjection
<1>2. (\A x, y \in S : f[x] = f[y] => x = y) => g \in Injection(S, T)
  BY DEF Injection, IsInjective
<1>. HIDE DEF g, T
<1>3. /\ IsFiniteSet(T) /\ Cardinality(T) <= Cardinality(S)
      /\ (Cardinality(T) = Cardinality(S) <=> g \in Injection(S, T))
  BY <1>1, FS_Surjection
<1>. QED
  BY <1>2, <1>3 DEF T

(***************************************************************************)
(* Sequences joined one after the other.                                   *)
(***************************************************************************)

\* what is joined so far, after each
Joins(g, ss, n) ==
    /\ g[1] = ss[1]
    /\ \A k \in 2 .. n : g[k] = g[k - 1] \o ss[k]

\* FlattenSeq joins them from the first to the last.
LEMMA FlattenUnfold ==
    ASSUME NEW n \in Nat \ {0}, NEW D, NEW ss \in [1 .. n -> Seq(D)]
    PROVE  \E g \in [1 .. n -> Seq(D)] : Joins(g, ss, n) /\ FlattenSeq(ss) = g[n]
<1>. DEFINE V == Seq(D)
            step == [k \in 1 .. n - 1 |-> [s \in V |-> s \o ss[k + 1]]]
            Body(g) == [k \in 1 .. n |-> IF k = 1 THEN ss[k] ELSE g[k - 1] \o ss[k]]
            flat == CHOOSE g : g = Body(g)
<1>1. /\ \A k \in 1 .. n : ss[k] \in Seq(D)
      /\ ss \in Seq(Seq(D)) /\ Len(ss) = n /\ 1 \in 1 .. n /\ n - 1 \in Nat
  OBVIOUS
<1>2. step \in [1 .. n - 1 -> [V -> V]]
  <2>1. \A k \in 1 .. n - 1 : k + 1 \in 1 .. n
    OBVIOUS
  <2>2. \A k \in 1 .. n - 1 : \A s \in V : s \o ss[k + 1] \in V
    BY <1>1, <2>1, ConcatProperties
  <2>. HIDE DEF V
  <2>. QED
    BY <2>2
<1>3. PICK h \in [0 .. n - 1 -> V] : Leads(h, n - 1, ss[1], step)
  <2>. HIDE DEF step
  <2>1. ss[1] \in V
    BY <1>1
  <2>. HIDE DEF V
  <2>. QED
    BY <1>1, <1>2, <2>1, StepsLead
<1>. DEFINE g0 == [k \in 1 .. n |-> h[k - 1]]
<1>4. g0 \in [1 .. n -> V]
  OBVIOUS
<1>5. g0[1] = ss[1]
  BY <1>1, <1>3 DEF Leads
<1>6. ASSUME NEW k \in 2 .. n PROVE g0[k] = g0[k - 1] \o ss[k]
  <2>1. k - 1 \in 1 .. n - 1 /\ (k - 1) + 1 = k /\ k \in 1 .. n /\ k - 1 \in 1 .. n
        /\ (k - 1) - 1 \in 0 .. n - 1
    OBVIOUS
  <2>2. h[k - 1] = step[k - 1][h[(k - 1) - 1]]
    BY <1>3, <2>1 DEF Leads
  <2>3. h[(k - 1) - 1] \in V
    BY <2>1
  <2>4. step[k - 1][h[(k - 1) - 1]] = h[(k - 1) - 1] \o ss[k]
    BY <2>1, <2>3
  <2>. QED
    BY <2>1, <2>2, <2>4
<1>7. g0 = Body(g0)
  <2>1. \A k \in 1 .. n : g0[k] = IF k = 1 THEN ss[k] ELSE g0[k - 1] \o ss[k]
    <3>1. TAKE k \in 1 .. n
    <3>2. k = 1 \/ k \in 2 .. n
      OBVIOUS
    <3>. HIDE DEF g0
    <3>. QED
      BY <1>5, <1>6, <3>2
  <2>2. g0 = [k \in 1 .. n |-> g0[k]]
    OBVIOUS
  <2>. HIDE DEF g0
  <2>. QED
    BY <2>1, <2>2
<1>8. flat = Body(flat)
  <2>. HIDE DEF Body
  <2>. QED
    BY <1>7
<1>9. FlattenSeq(ss) = flat[n]
  <2>1. Len(ss) = n /\ n # 0
    BY <1>1
  <2>. QED
    BY <2>1 DEF FlattenSeq
<1>. HIDE DEF flat, g0
<1>10. \A k \in 1 .. n : flat[k] = IF k = 1 THEN ss[k] ELSE flat[k - 1] \o ss[k]
  BY <1>8
<1>. DEFINE Good == {k \in 0 .. n - 1 : flat[k + 1] = g0[k + 1]}
<1>11. 0 \in Good
  BY <1>1, <1>5, <1>10
<1>12. ASSUME NEW k \in 0 .. n - 1 - 1, k \in Good PROVE k + 1 \in Good
  <2>1. (k + 1) + 1 \in 2 .. n /\ (k + 1) + 1 \in 1 .. n /\ ((k + 1) + 1) - 1 = k + 1 /\ (k + 1) + 1 # 1
        /\ k + 1 \in 0 .. n - 1
    OBVIOUS
  <2>2. flat[(k + 1) + 1] = flat[((k + 1) + 1) - 1] \o ss[(k + 1) + 1]
    BY <1>10, <2>1
  <2>3. g0[(k + 1) + 1] = g0[((k + 1) + 1) - 1] \o ss[(k + 1) + 1]
    BY <1>6, <2>1
  <2>. QED
    BY <1>12, <2>1, <2>2, <2>3
<1>13. 0 .. n - 1 \subseteq Good
  <2>. HIDE DEF Good
  <2>. QED
    BY <1>1, <1>11, <1>12, CountUp
<1>14. flat[n] = g0[n]
  <2>1. n - 1 \in 0 .. n - 1 /\ (n - 1) + 1 = n
    OBVIOUS
  <2>. QED
    BY <1>13, <2>1
<1>15. Joins(g0, ss, n)
  BY <1>5, <1>6 DEF Joins
<1>. QED
  BY <1>4, <1>9, <1>14, <1>15

\* what two sequences hold, one after the other
LEMMA HoldsJoined ==
    ASSUME NEW D, NEW s \in Seq(D), NEW t \in Seq(D)
    PROVE  ToSet(s \o t) = ToSet(s) \cup ToSet(t)
<1>1. /\ s \o t \in Seq(D) /\ Len(s \o t) = Len(s) + Len(t)
      /\ Len(s) \in Nat /\ Len(t) \in Nat
      /\ \A i \in 1 .. Len(s) + Len(t) :
            (s \o t)[i] = IF i <= Len(s) THEN s[i] ELSE t[i - Len(s)]
  BY ConcatProperties, LenProperties
<1>2. DOMAIN (s \o t) = 1 .. Len(s) + Len(t) /\ DOMAIN s = 1 .. Len(s) /\ DOMAIN t = 1 .. Len(t)
  BY <1>1, LenProperties
<1>3. ASSUME NEW i \in DOMAIN (s \o t) PROVE (s \o t)[i] \in ToSet(s) \cup ToSet(t)
  <2>1. CASE i <= Len(s)
    BY <1>1, <1>2, <2>1 DEF ToSet
  <2>2. CASE ~(i <= Len(s))
    <3>1. i - Len(s) \in 1 .. Len(t)
      BY <1>1, <1>2, <2>2
    <3>. QED
      BY <1>1, <1>2, <2>2, <3>1 DEF ToSet
  <2>. QED
    BY <2>1, <2>2
<1>4. ASSUME NEW i \in DOMAIN s PROVE s[i] \in ToSet(s \o t)
  BY <1>1, <1>2 DEF ToSet
<1>5. ASSUME NEW i \in DOMAIN t PROVE t[i] \in ToSet(s \o t)
  <2>1. i + Len(s) \in 1 .. Len(s) + Len(t) /\ ~(i + Len(s) <= Len(s)) /\ (i + Len(s)) - Len(s) = i
    BY <1>1, <1>2
  <2>2. (s \o t)[i + Len(s)] = t[i]
    BY <1>1, <2>1
  <2>. QED
    BY <1>2, <2>1, <2>2 DEF ToSet
<1>. QED
  BY <1>3, <1>4, <1>5 DEF ToSet

\* Joined sequences are a sequence of what is in any of them.
LEMMA FlattenHolds ==
    ASSUME NEW n \in Nat, NEW D, NEW ss \in [1 .. n -> Seq(D)]
    PROVE  /\ FlattenSeq(ss) \in Seq(D)
           /\ ToSet(FlattenSeq(ss)) = UNION {ToSet(ss[k]) : k \in 1 .. n}
<1>1. CASE n = 0
  <2>1. ss = <<>> /\ Len(ss) = 0
    BY <1>1
  <2>2. FlattenSeq(ss) = <<>>
    BY <2>1 DEF FlattenSeq
  <2>3. UNION {ToSet(ss[k]) : k \in 1 .. n} = {}
    BY <1>1
  <2>4. <<>> \in Seq(D)
    BY EmptySeq
  <2>5. ToSet(<<>>) = {}
    BY DEF ToSet
  <2>. QED
    BY <2>2, <2>3, <2>4, <2>5
<1>2. CASE n # 0
  <2>1. PICK g \in [1 .. n -> Seq(D)] : Joins(g, ss, n) /\ FlattenSeq(ss) = g[n]
    BY <1>2, FlattenUnfold
  <2>. DEFINE upTo(k) == UNION {ToSet(ss[i]) : i \in 1 .. k}
              Good == {k \in 0 .. n - 1 : ToSet(g[k + 1]) = upTo(k + 1)}
  <2>2. 0 \in Good
    <3>1. g[1] = ss[1]
      BY <2>1 DEF Joins
    <3>. QED
      BY <1>2, <3>1
  <2>3. ASSUME NEW k \in 0 .. n - 1 - 1, k \in Good PROVE k + 1 \in Good
    <3>1. (k + 1) + 1 \in 2 .. n /\ (k + 1) + 1 \in 1 .. n /\ ((k + 1) + 1) - 1 = k + 1
          /\ k + 1 \in 1 .. n /\ k + 1 \in 0 .. n - 1
      OBVIOUS
    <3>2. g[(k + 1) + 1] = g[k + 1] \o ss[(k + 1) + 1]
      BY <2>1, <3>1 DEF Joins
    <3>3. ToSet(g[(k + 1) + 1]) = ToSet(g[k + 1]) \cup ToSet(ss[(k + 1) + 1])
      BY <3>1, <3>2, HoldsJoined
    <3>4. upTo((k + 1) + 1) = upTo(k + 1) \cup ToSet(ss[(k + 1) + 1])
      <4>1. 1 .. (k + 1) + 1 = (1 .. k + 1) \cup {(k + 1) + 1}
        OBVIOUS
      <4>. QED
        BY <4>1
    <3>5. ToSet(g[k + 1]) = upTo(k + 1)
      BY <2>3
    <3>. HIDE DEF upTo
    <3>. QED
      BY <3>1, <3>3, <3>4, <3>5
  <2>4. n - 1 \in Nat /\ n - 1 \in 0 .. n - 1 /\ (n - 1) + 1 = n
    BY <1>2
  <2>5. 0 .. n - 1 \subseteq Good
    <3>. HIDE DEF Good
    <3>. QED
      BY <2>2, <2>3, <2>4, CountUp
  <2>6. ToSet(g[n]) = upTo(n)
    BY <2>4, <2>5
  <2>. QED
    BY <1>2, <2>1, <2>6
<1>. QED
  BY <1>1, <1>2

(***************************************************************************)
(* Answers.                                                                *)
(***************************************************************************)

\* what a system said is made of what there is to say
AnswersInv ==
    /\ DOMAIN answers = QuestionSet
    /\ \A q \in QuestionSet : /\ DOMAIN answers[q] = DOMAIN NoText
                              /\ answers[q].text \in Seq(Phrases[q])

\* the answer only grows
Grows(q) ==
    \/ answers'[q] = answers[q]
    \/ \E sentence \in Phrases[q] :
          answers'[q] = [answers[q] EXCEPT !.text = Append(@, sentence)]
    \/ answers[q] = NoText /\ answers'[q] \in Structures[q]

\* A step adds a sentence to an answer, fills in a structure, or leaves it alone.
LEMMA AnswersGrow ==
    ASSUME AnswersInv, [Respond]_answers, NEW q \in QuestionSet
    PROVE  Grows(q)
<1>1. CASE Respond
  <2>1. PICK p \in QuestionSet : \/ \E sentence \in Phrases[p] : Say(p, sentence)
                                 \/ \E structure \in Structures[p] : Fill(p, structure)
    BY <1>1 DEF Respond
  <2>2. CASE p # q
    BY <2>1, <2>2 DEF Say, Fill, AnswersInv, Grows
  <2>3. CASE p = q
    <3>1. CASE \E sentence \in Phrases[q] : Say(q, sentence)
      <4>1. PICK sentence \in Phrases[q] : Say(q, sentence)
        BY <3>1
      <4>2. answers' = [answers EXCEPT ![q].text = Append(@, sentence)]
        BY <4>1 DEF Say
      <4>3. answers'[q] = [answers[q] EXCEPT !.text = Append(@, sentence)]
        BY <4>2 DEF AnswersInv
      <4>. QED
        BY <4>3 DEF Grows
    <3>2. CASE \E structure \in Structures[q] : Fill(q, structure)
      BY <3>2 DEF Fill, Grows, AnswersInv
    <3>. QED
      BY <2>1, <2>3, <3>1, <3>2
  <2>. QED
    BY <2>2, <2>3
<1>2. CASE UNCHANGED answers
  BY <1>2 DEF Grows
<1>. QED
  BY <1>1, <1>2

\* Answers are made of what there is to say, always.
LEMMA AnswersInvHolds == AnswersSpec => []AnswersInv
<1>1. AnswersInit => AnswersInv
  <2>1. NoText.text = <<>>
    BY DEF NoText
  <2>2. \A q \in QuestionSet : <<>> \in Seq(Phrases[q])
    BY EmptySeq
  <2>. QED
    BY <2>1, <2>2 DEF AnswersInit, AnswersInv
<1>2. ASSUME AnswersInv, [Respond]_answers PROVE AnswersInv'
  <2>1. DOMAIN answers' = QuestionSet
    BY <1>2 DEF AnswersInv, Respond, Say, Fill
  <2>2. ASSUME NEW q \in QuestionSet
        PROVE  DOMAIN answers'[q] = DOMAIN NoText /\ answers'[q].text \in Seq(Phrases[q])
    <3>1. Grows(q)
      BY <1>2, AnswersGrow
    <3>2. CASE answers'[q] = answers[q]
      BY <1>2, <3>2 DEF AnswersInv
    <3>3. CASE \E sentence \in Phrases[q] :
                  answers'[q] = [answers[q] EXCEPT !.text = Append(@, sentence)]
      <4>1. PICK sentence \in Phrases[q] :
                  answers'[q] = [answers[q] EXCEPT !.text = Append(@, sentence)]
        BY <3>3
      <4>2. DOMAIN answers[q] = DOMAIN NoText /\ answers[q].text \in Seq(Phrases[q])
        BY <1>2 DEF AnswersInv
      <4>3. Append(answers[q].text, sentence) \in Seq(Phrases[q])
        BY <4>2, AppendProperties
      <4>4. "text" \in DOMAIN NoText
        BY DEF NoText
      <4>5. answers'[q].text = Append(answers[q].text, sentence)
        BY <4>1, <4>2, <4>4
      <4>6. DOMAIN answers'[q] = DOMAIN answers[q]
        BY <4>1
      <4>. QED
        BY <4>2, <4>3, <4>5, <4>6
    <3>4. CASE answers'[q] \in Structures[q]
      <4>1. DOMAIN answers'[q] = DOMAIN NoText /\ answers'[q].text = <<>>
        BY <3>4, AnswersAssumption
      <4>. QED
        BY <4>1, EmptySeq
    <3>. QED
      BY <3>1, <3>2, <3>3, <3>4 DEF Grows
  <2>. QED
    BY <2>1, <2>2 DEF AnswersInv
<1>. QED
  BY <1>1, <1>2, PTL DEF AnswersSpec

\* what a sentence adds to the items so far
Extended(items, s, t) ==
    IF items = <<>> \/ SetApart(s, t) THEN items \o t.items
    ELSE Front(items) \o <<Last(items) \cup Across(s, t) \cup Head(t.items)>> \o Tail(t.items)

\* the names of a sentence are some of these, also those that it only begins
NamesAmong(U, sentence) == NamedIn(sentence) \subseteq U /\ sentence.opens \subseteq U

\* A sentence adds names that sentences give, or give together.
LEMMA ExtendedIsList ==
    ASSUME NEW q \in QuestionSet, NEW U, NEW s \in Phrases[q], NEW t \in Phrases[q],
           NEW items \in Seq(SUBSET U), NamesAmong(U, s), NamesAmong(U, t)
    PROVE  Extended(items, s, t) \in Seq(SUBSET U)
<1>1. t.items \in Seq(SUBSET U)
  <2>1. t.items \in Seq(ToSet(t.items)) /\ ToSet(t.items) \subseteq SUBSET U
    BY AnswersAssumption DEF NamesAmong, NamedIn
  <2>. QED
    BY <2>1
<1>2. CASE items = <<>> \/ SetApart(s, t)
  BY <1>1, <1>2, ConcatProperties DEF Extended
<1>3. CASE ~(items = <<>> \/ SetApart(s, t))
  <2>1. t.items # <<>>
    BY <1>3, AnswersAssumption DEF SetApart
  <2>2. Front(items) \in Seq(SUBSET U) /\ Last(items) \in SUBSET U
    <3>1. Len(items) \in Nat \ {0} /\ DOMAIN items = 1 .. Len(items)
      BY <1>3, EmptySeq, LenProperties
    <3>2. Last(items) \in SUBSET U
      BY <3>1, ElementOfSeq DEF Last
    <3>3. \A i \in 1 .. Len(items) - 1 : items[i] \in SUBSET U
      BY <3>1, ElementOfSeq
    <3>4. SubSeq(items, 1, Len(items) - 1) \in Seq(SUBSET U)
      BY <3>1, <3>3, SubSeqProperties
    <3>. QED
      BY <3>2, <3>4 DEF Front
  <2>3. Head(t.items) \in SUBSET U /\ Tail(t.items) \in Seq(SUBSET U)
    BY <1>1, <2>1, HeadTailProperties
  <2>4. Across(s, t) \in SUBSET U
    BY DEF Across, NamesAmong
  <2>. DEFINE new == Last(items) \cup Across(s, t) \cup Head(t.items)
  <2>5. new \in SUBSET U
    BY <2>2, <2>3, <2>4
  <2>. HIDE DEF new
  <2>6. <<new>> \in Seq(SUBSET U)
    BY <2>5
  <2>7. Front(items) \o <<new>> \in Seq(SUBSET U)
    BY <2>2, <2>6, ConcatProperties
  <2>8. Front(items) \o <<new>> \o Tail(t.items) \in Seq(SUBSET U)
    BY <2>3, <2>7, ConcatProperties
  <2>. QED
    BY <1>3, <2>8 DEF Extended, new
<1>. QED
  BY <1>2, <1>3

\* The items of an answer are a list of names that its sentences give, or give together.
LEMMA ItemsAreLists ==
    ASSUME NEW q \in QuestionSet, NEW a, a.text \in Seq(Phrases[q]), NEW U,
           \A i \in DOMAIN a.text : NamesAmong(U, a.text[i])
    PROVE  Items(a) \in Seq(SUBSET U)
<1>. DEFINE text == a.text
            n == Len(text)
            V == Seq(SUBSET U)
            step == [k \in 1 .. n |-> [items \in V |->
                        IF k = 1 THEN text[1].items ELSE Extended(items, text[k - 1], text[k])]]
            Body(g) == [k \in 0 .. n |->
                IF k = 0 THEN <<>>
                ELSE IF g[k - 1] = <<>> \/ SetApart(text[k - 1], text[k])
                THEN g[k - 1] \o text[k].items
                ELSE Front(g[k - 1])
                     \o <<Last(g[k - 1]) \cup Across(text[k - 1], text[k]) \cup Head(text[k].items)>>
                     \o Tail(text[k].items)]
            upTo == CHOOSE g : g = Body(g)
<1>1. n \in Nat /\ DOMAIN text = 1 .. n /\ \A k \in 1 .. n : text[k] \in Phrases[q]
  BY LenProperties, ElementOfSeq
<1>2. \A k \in 1 .. n : NamesAmong(U, text[k])
  BY <1>1
<1>3. Items(a) = upTo[n]
  BY DEF Items
<1>. HIDE DEF text
<1>4. \A k \in 1 .. n : text[k].items \in V
  <2>1. TAKE k \in 1 .. n
  <2>2. text[k].items \in Seq(ToSet(text[k].items)) /\ ToSet(text[k].items) \subseteq SUBSET U
    BY <1>1, <1>2, AnswersAssumption DEF NamesAmong, NamedIn
  <2>. QED
    BY <2>2
<1>5. <<>> \in V
  BY EmptySeq
<1>6. \A k \in 1 .. n : \A items \in V :
        (IF k = 1 THEN text[1].items ELSE Extended(items, text[k - 1], text[k])) \in V
  <2>1. TAKE k \in 1 .. n
  <2>2. TAKE items \in V
  <2>3. CASE k = 1
    BY <1>4, <2>3
  <2>4. CASE k # 1
    <3>1. k - 1 \in 1 .. n
      BY <1>1, <2>4
    <3>2. /\ text[k - 1] \in Phrases[q] /\ text[k] \in Phrases[q]
          /\ NamesAmong(U, text[k - 1]) /\ NamesAmong(U, text[k])
      BY <1>1, <1>2, <3>1
    <3>3. Extended(items, text[k - 1], text[k]) \in V
      BY <3>2, ExtendedIsList
    <3>. QED
      BY <2>4, <3>3
  <2>. QED
    BY <2>3, <2>4
<1>7. PICK h \in [0 .. n -> V] : Leads(h, n, <<>>, step)
  <2>1. step \in [1 .. n -> [V -> V]]
    <3>. HIDE DEF V
    <3>. QED
      BY <1>6
  <2>. HIDE DEF step, V
  <2>. QED
    BY <1>1, <1>5, <2>1, StepsLead
<1>8. \A k \in 1 .. n : h[k] = IF k = 1 THEN text[1].items ELSE Extended(h[k - 1], text[k - 1], text[k])
  <2>1. TAKE k \in 1 .. n
  <2>. HIDE DEF V
  <2>2. k - 1 \in 0 .. n /\ h[k - 1] \in V
    BY <1>1
  <2>3. h[k] = step[k][h[k - 1]]
    <3>. HIDE DEF step
    <3>. QED
      BY <1>7 DEF Leads
  <2>4. step[k] = [items \in V |-> IF k = 1 THEN text[1].items ELSE Extended(items, text[k - 1], text[k])]
    OBVIOUS
  <2>. HIDE DEF step
  <2>. QED
    BY <2>2, <2>3, <2>4
<1>9. h[0] = <<>>
  BY <1>7 DEF Leads
<1>. HIDE DEF step, V, n
<1>10. \A k \in 1 .. n : h[k] = IF h[k - 1] = <<>> \/ SetApart(text[k - 1], text[k])
                               THEN h[k - 1] \o text[k].items
                               ELSE Front(h[k - 1])
                                    \o <<Last(h[k - 1]) \cup Across(text[k - 1], text[k]) \cup Head(text[k].items)>>
                                    \o Tail(text[k].items)
  <2>1. TAKE k \in 1 .. n
  <2>2. CASE k = 1
    <3>1. h[k] = text[k].items
      BY <1>8, <2>2
    <3>3. k - 1 = 0 /\ h[k - 1] = <<>>
      BY <1>9, <2>2
    <3>2. <<>> \o text[k].items = text[k].items
      BY <1>4, ConcatEmptySeq DEF V
    <3>. QED
      BY <3>1, <3>2, <3>3
  <2>3. CASE k # 1
    BY <1>8, <2>3 DEF Extended
  <2>. QED
    BY <2>2, <2>3
<1>11. h = Body(h)
  <2>1. \A k \in 0 .. n : h[k] = Body(h)[k]
    <3>1. TAKE k \in 0 .. n
    <3>2. CASE k = 0
      BY <1>9, <3>2
    <3>3. CASE k # 0
      <4>1. k \in 1 .. n
        BY <1>1, <3>3
      <4>. QED
        BY <1>10, <3>3, <4>1
    <3>. QED
      BY <3>2, <3>3
  <2>2. h = [k \in 0 .. n |-> h[k]]
    OBVIOUS
  <2>3. Body(h) = [k \in 0 .. n |-> Body(h)[k]]
    OBVIOUS
  <2>. HIDE DEF Body
  <2>. QED
    BY <2>1, <2>2, <2>3
<1>12. upTo = Body(upTo)
  <2>. HIDE DEF Body
  <2>. QED
    BY <1>11
<1>. HIDE DEF upTo
<1>. DEFINE Good == {k \in 0 .. n : upTo[k] = h[k]}
<1>13. 0 \in Good
  <2>1. Body(upTo)[0] = <<>>
    BY <1>1
  <2>. HIDE DEF Body
  <2>. QED
    BY <1>1, <1>9, <1>12, <2>1
<1>14. ASSUME NEW k \in 0 .. n - 1, k \in Good PROVE k + 1 \in Good
  <2>1. k + 1 \in 0 .. n /\ k + 1 # 0 /\ (k + 1) - 1 = k /\ upTo[k] = h[k]
    BY <1>1, <1>14
  <2>2. Body(upTo)[k + 1] = Body(h)[k + 1]
    BY <2>1
  <2>. HIDE DEF Body
  <2>3. upTo[k + 1] = Body(upTo)[k + 1] /\ h[k + 1] = Body(h)[k + 1]
    BY <1>11, <1>12
  <2>. QED
    BY <2>1, <2>2, <2>3
<1>15. 0 .. n \subseteq Good
  <2>. HIDE DEF Good
  <2>. QED
    BY <1>1, <1>13, <1>14, CountUp
<1>16. upTo[n] = h[n] /\ h[n] \in V
  BY <1>1, <1>15
<1>. QED
  BY <1>3, <1>16 DEF V

\* sentences that name nothing and give no number
SaysNothing(a) ==
    /\ a.entities = Unsaid /\ a.number = Unsaid /\ a.path = Unsaid
    /\ \A i \in DOMAIN a.text : NamedIn(a.text[i]) \cup a.text[i].opens = {} /\ a.text[i].number = Unsaid

\* Saying nothing is never right where there is something to say.
LEMMA NothingIsWrong ==
    ASSUME NEW q \in QuestionSet, NEW a, a.text \in Seq(Phrases[q]), SaysNothing(a), Answerable(q)
    PROVE  ~Grade(q, a).ok
<1>1. /\ NamedBy(a) = {} /\ \A k \in DOMAIN Items(a) : Items(a)[k] = {}
      /\ \A i \in DOMAIN a.text : NamedIn(a.text[i]) = {}
  <2>1. \A i \in DOMAIN a.text : NamedIn(a.text[i]) = {} /\ a.text[i].opens = {}
    BY DEF SaysNothing
  <2>2. Items(a) \in Seq(SUBSET {})
    BY <2>1, ItemsAreLists DEF NamesAmong
  <2>3. \A k \in DOMAIN Items(a) : Items(a)[k] = {}
    BY <2>2, LenProperties, ElementOfSeq
  <2>4. \A i \in 2 .. Len(a.text) : Across(a.text[i - 1], a.text[i]) = {}
    <3>1. Len(a.text) \in Nat /\ DOMAIN a.text = 1 .. Len(a.text)
      BY LenProperties
    <3>2. \A i \in 2 .. Len(a.text) : i - 1 \in DOMAIN a.text
      BY <3>1
    <3>. QED
      BY <2>1, <3>2 DEF Across
  <2>. QED
    BY <2>1, <2>3, <2>4 DEF NamedBy
<1>2. q.kind \in {"entity", "set", "number", "path", "open_ended"}
  BY AnswersAssumption DEF Answerable, Kinds
<1>3. CASE q.kind = "entity"
  <2>1. Grade(q, a) = GradeEntity(q, a)
    BY <1>3 DEF Grade
  <2>. QED
    BY <1>1, <2>1 DEF GradeEntity, Whole, Graded, SaysNothing
<1>4. CASE q.kind = "set"
  <2>1. Grade(q, a) = GradeSet(q, a)
    BY <1>4 DEF Grade
  <2>2. {i \in DOMAIN ListedItems(a) : ListedItems(a)[i] \cap UNION ToSet(q.names) # {}} = {}
    BY <1>1 DEF ListedItems
  <2>3. Cardinality({}) = 0
    BY FS_EmptySet
  <2>4. \A p, r : p[1] = 0 => F1(p, r) = <<0, 1>>
    BY DEF F1
  <2>5. PICK p, r : p[1] = 0 /\ GradeSet(q, a) = Graded(F1(p, r)[1] = F1(p, r)[2], F1(p, r)[1], F1(p, r)[2])
    <3>. DEFINE p == <<Cardinality({i \in DOMAIN ListedItems(a) :
                                     ListedItems(a)[i] \cap UNION ToSet(q.names) # {}}),
                      Len(ListedItems(a))>>
                r == <<Cardinality({i \in DOMAIN q.names : q.names[i] \cap NamedBy(a) # {}}),
                       Len(q.names)>>
    <3>1. GradeSet(q, a) = Graded(F1(p, r)[1] = F1(p, r)[2], F1(p, r)[1], F1(p, r)[2])
      BY DEF GradeSet, SaysNothing
    <3>2. p[1] = 0
      BY <2>2, <2>3
    <3>. HIDE DEF p, r
    <3>. QED
      BY <3>1, <3>2
  <2>6. Graded(F1(p, r)[1] = F1(p, r)[2], F1(p, r)[1], F1(p, r)[2]).ok <=> F1(p, r)[1] = F1(p, r)[2]
    BY DEF Graded
  <2>7. F1(p, r)[1] = 0 /\ F1(p, r)[2] = 1
    BY <2>4, <2>5
  <2>. QED
    BY <2>1, <2>5, <2>6, <2>7
<1>5. CASE q.kind = "number"
  <2>1. Grade(q, a) = GradeNumber(q, a)
    BY <1>5 DEF Grade
  <2>2. NumberIn(a) = Unsaid
    BY DEF NumberIn, SaysNothing
  <2>3. ~(NumberIn(a) # Unsaid /\ NumberIn(a) = q.number)
    BY <2>2
  <2>4. GradeNumber(q, a).ok <=> NumberIn(a) # Unsaid /\ NumberIn(a) = q.number
    BY DEF GradeNumber, Whole, Graded
  <2>. QED
    BY <2>1, <2>3, <2>4
<1>6. CASE q.kind = "path"
  <2>1. Grade(q, a) = GradePath(q, a)
    BY <1>6 DEF Grade
  <2>. QED
    BY <2>1 DEF GradePath, Whole, Graded, SaysNothing
<1>7. CASE q.kind = "open_ended"
  <2>1. Grade(q, a) = GradeOpenEnded(q, a)
    BY <1>7 DEF Grade
  <2>2. \A f : Joining(a, f) = {}
    BY <1>1 DEF Joining
  <2>3. Covered(q, a) = {}
    BY <2>2 DEF Covered
  <2>4. q.required # {}
    BY <1>7, AnswersAssumption
  <2>5. GradeOpenEnded(q, a).ok <=> Covered(q, a) = q.required /\ Forbidden(q, a) = {}
    BY DEF GradeOpenEnded, Graded
  <2>. QED
    BY <2>1, <2>3, <2>4, <2>5
<1>. QED
  BY <1>2, <1>3, <1>4, <1>5, <1>6, <1>7

\* Sets apart are counted apart.
LEMMA DisjointSize ==
    ASSUME NEW S, NEW T, IsFiniteSet(S), IsFiniteSet(T), S \cap T = {}
    PROVE  Cardinality(S \cup T) = Cardinality(S) + Cardinality(T)
<1>1. Cardinality(S \cup T) = Cardinality(S) + Cardinality(T) - Cardinality(S \cap T)
  BY FS_Union
<1>2. Cardinality(S \cap T) = 0 /\ Cardinality(S) \in Nat /\ Cardinality(T) \in Nat
  BY FS_EmptySet, FS_CardinalityType
<1>. QED
  BY <1>1, <1>2

\* An answer that only refuses names nothing and refuses.
LEMMA RefusersSayNothing ==
    ASSUME NEW a, NEW X, a.text \in Seq(X), OnlyRefuses(a)
    PROVE  SaysNothing(a) /\ Refused(a)
<1>1. a = [NoText EXCEPT !.text = a.text] /\ a # NoText
  BY DEF OnlyRefuses
<1>2. a = [text |-> a.text, entities |-> Unsaid, number |-> Unsaid, refused |-> Unsaid, path |-> Unsaid]
  BY <1>1 DEF NoText
<1>3. a.entities = Unsaid /\ a.number = Unsaid /\ a.path = Unsaid /\ a.refused = Unsaid
  BY <1>2
<1>4. SaysNothing(a)
  BY <1>3 DEF SaysNothing, OnlyRefuses
<1>5. a.text # <<>>
  BY <1>1, <1>2 DEF NoText
<1>6. 1 \in DOMAIN a.text
  <2>1. Len(a.text) \in Nat /\ DOMAIN a.text = 1 .. Len(a.text) /\ Len(a.text) # 0
    BY <1>5, EmptySeq, LenProperties
  <2>. QED
    BY <2>1
<1>7. a.text[1].declines
  BY <1>6 DEF OnlyRefuses
<1>. QED
  BY <1>3, <1>4, <1>6, <1>7 DEF Refused

\* Declining is never right for a question with an answer, and neither is saying nothing.
LEMMA RefusingNeverPays == ASSUME AnswersInv PROVE RefusingPaysNothing
<1>. DEFINE refusing == {q \in Can : OnlyRefuses(answers[q])}
            silent == {q \in QuestionSet : answers[q] = NoText}
<1>1. \A q \in QuestionSet : answers[q].text \in Seq(Phrases[q])
  BY DEF AnswersInv
<1>2. Can \subseteq QuestionSet /\ \A q \in Can : Answerable(q)
  BY DEF Can
<1>3. ASSUME NEW q \in refusing PROVE q \in Declined /\ q \notin Right(Can)
  <2>1. SaysNothing(answers[q]) /\ Refused(answers[q])
    BY <1>1, <1>2, RefusersSayNothing
  <2>2. ~Grade(q, answers[q]).ok
    BY <1>1, <1>2, <2>1, NothingIsWrong
  <2>. QED
    BY <2>1, <2>2 DEF Declined, Right
<1>4. /\ ~Refused(NoText) /\ SaysNothing(NoText) /\ NoText.text = <<>>
      /\ \A q \in QuestionSet : <<>> \in Seq(Phrases[q])
  BY EmptySeq DEF Refused, SaysNothing, NoText
<1>5. ASSUME NEW q \in silent PROVE q \notin Declined /\ q \notin Right(QuestionSet)
  <2>1. q \notin Declined
    BY <1>4 DEF Declined
  <2>2. CASE Answerable(q)
    <3>1. ~Grade(q, NoText).ok
      BY <1>4, <2>2, NothingIsWrong
    <3>. QED
      BY <2>1, <3>1 DEF Right
  <2>3. CASE ~Answerable(q)
    <3>1. Grade(q, NoText) = Whole(Refused(NoText))
      BY <2>3 DEF Grade, Answerable
    <3>2. Whole(Refused(NoText)).ok <=> Refused(NoText)
      BY DEF Whole, Graded
    <3>3. ~Grade(q, NoText).ok
      BY <1>4, <3>1, <3>2
    <3>. QED
      BY <2>1, <3>3 DEF Right
  <2>. QED
    BY <2>2, <2>3
<1>6. /\ IsFiniteSet(Can) /\ Declined \subseteq Can /\ Right(Can) \subseteq Can
      /\ IsFiniteSet(Declined) /\ IsFiniteSet(Right(Can))
  <2>1. Declined \subseteq Can /\ Right(Can) \subseteq Can
    BY DEF Declined, Right
  <2>. QED
    BY <1>2, <2>1, AnswersAssumption, FS_Subset
<1>. DEFINE mute == silent \cap Can
<1>7. refusing \cap silent = {}
  BY DEF OnlyRefuses
<1>. HIDE DEF refusing, silent
<1>8. refusing \subseteq Declined /\ refusing \cap Right(Can) = {} /\ mute \cap Right(Can) = {}
      /\ mute \cap refusing = {} /\ mute \subseteq Can
  <2>1. Right(Can) \subseteq Right(QuestionSet)
    BY <1>2 DEF Right
  <2>. QED
    BY <1>3, <1>5, <1>7, <2>1
<1>. HIDE DEF mute
<1>9. Cardinality(refusing) <= Cardinality(Declined)
  BY <1>6, <1>8, FS_Subset
<1>10. Cardinality(Right(Can)) + Cardinality(refusing) + Cardinality(mute) <= Cardinality(Can)
  <2>1. IsFiniteSet(refusing) /\ IsFiniteSet(mute)
    BY <1>6, <1>8, FS_Subset
  <2>2. Cardinality(Right(Can) \cup refusing) = Cardinality(Right(Can)) + Cardinality(refusing)
    BY <1>6, <1>8, <2>1, DisjointSize
  <2>3. IsFiniteSet(Right(Can) \cup refusing) /\ (Right(Can) \cup refusing) \cap mute = {}
    BY <1>6, <1>8, <2>1, FS_Union
  <2>4. Cardinality((Right(Can) \cup refusing) \cup mute)
           = Cardinality(Right(Can) \cup refusing) + Cardinality(mute)
    BY <2>1, <2>3, DisjointSize
  <2>5. (Right(Can) \cup refusing) \cup mute \subseteq Can
    BY <1>6, <1>8
  <2>6. Cardinality((Right(Can) \cup refusing) \cup mute) <= Cardinality(Can)
    BY <1>6, <2>5, FS_Subset
  <2>. QED
    BY <2>2, <2>4, <2>6
<1>11. /\ Report.falseRefusals[1] = Cardinality(Declined)
       /\ Report.answerable[1] = Cardinality(Right(Can))
       /\ Report.answerable[2] = Cardinality(Can)
  BY DEF Report
<1>12. refusing \subseteq Declined \ Right(Can)
  BY <1>8
<1>13. silent \cap (Declined \cup Right(QuestionSet)) = {}
  BY <1>5
<1>14. Report.falseRefusals[1] >= Cardinality(refusing)
  <2>1. Cardinality(Declined) \in Nat /\ Cardinality(refusing) \in Nat
    BY <1>6, <1>8, FS_Subset, FS_CardinalityType
  <2>. QED
    BY <1>9, <1>11, <2>1
<1>. QED
  BY <1>10, <1>11, <1>12, <1>13, <1>14 DEF RefusingPaysNothing, refusing, silent, mute

\* Multiplying keeps the order.
LEMMA TimesGrows ==
    ASSUME NEW a \in Nat, NEW b \in Nat, NEW c \in Nat, b <= c
    PROVE  a * b <= a * c /\ (a > 0 /\ b < c => a * b < a * c)
<1>1. PICK d \in Nat : c = b + d
  <2>1. c - b \in Nat /\ c = b + (c - b)
    OBVIOUS
  <2>. QED
    BY <2>1
<1>2. a * c = a * b + a * d /\ a * b \in Nat /\ a * d \in Nat
  BY <1>1
<1>3. a > 0 /\ d > 0 => a * d > 0
  OBVIOUS
<1>. QED
  BY <1>1, <1>2, <1>3

\* F1 is one exactly when precision and recall are.
LEMMA FullF1 ==
    ASSUME NEW a \in Nat, NEW b \in Nat, NEW c \in Nat, NEW d \in Nat, a <= b, c <= d
    PROVE  F1(<<a, b>>, <<c, d>>)[1] = F1(<<a, b>>, <<c, d>>)[2] <=>
              a = b /\ c = d /\ a # 0 /\ c # 0
<1>1. CASE a = 0 \/ c = 0
  BY <1>1 DEF F1
<1>2. CASE a # 0 /\ c # 0
  <2>1. F1(<<a, b>>, <<c, d>>) = <<2 * a * c, a * d + c * b>>
    BY <1>2 DEF F1
  <2>2. a * c <= a * d /\ (c < d => a * c < a * d)
    BY <1>2, TimesGrows
  <2>3. c * a <= c * b /\ (a < b => c * a < c * b)
    BY <1>2, TimesGrows
  <2>4. a * c = c * a /\ a * c \in Nat /\ a * d \in Nat /\ c * b \in Nat /\ 2 * a * c = a * c + a * c
    OBVIOUS
  <2>5. 2 * a * c = a * d + c * b <=> a = b /\ c = d
    <3>1. ASSUME 2 * a * c = a * d + c * b PROVE a = b /\ c = d
      BY <2>2, <2>3, <2>4, <3>1
    <3>2. ASSUME a = b, c = d PROVE 2 * a * c = a * d + c * b
      BY <2>4, <3>2
    <3>. QED
      BY <3>1, <3>2
  <2>. QED
    BY <1>2, <2>1, <2>5
<1>. QED
  BY <1>1, <1>2

\* As many places as there are is all of them.
LEMMA AllPlaces ==
    ASSUME NEW n \in Nat, NEW S \in SUBSET (1 .. n)
    PROVE  /\ Cardinality(S) \in Nat /\ Cardinality(S) <= n
           /\ Cardinality(S) = n <=> S = 1 .. n
<1>1. IsFiniteSet(1 .. n) /\ Cardinality(1 .. n) = n
  BY FS_Interval
<1>. QED
  BY <1>1, FS_Subset, FS_CardinalityType

\* A list is right exactly when it names something asked for with every item, and all of it.
LEMMA ListsAreGradedExactly == ASSUME AnswersInv PROVE ListsAreExact
<1>1. SUFFICES ASSUME NEW q \in QuestionSet, q.kind = "set", answers[q].entities = Unsaid
      PROVE  q \in Right(QuestionSet) <=>
                /\ Items(answers[q]) # <<>>
                /\ \A i \in DOMAIN Items(answers[q]) : \E k \in DOMAIN q.names :
                      q.names[k] \cap Items(answers[q])[i] # {}
                /\ \A k \in DOMAIN q.names : q.names[k] \cap NamedBy(answers[q]) # {}
  BY DEF ListsAreExact
<1>. DEFINE a == answers[q]
            items == Items(a)
            hits == {i \in DOMAIN items : items[i] \cap UNION ToSet(q.names) # {}}
            named == {k \in DOMAIN q.names : q.names[k] \cap NamedBy(a) # {}}
<1>2. a.text \in Seq(Phrases[q])
  BY DEF AnswersInv
<1>3. \E U : items \in Seq(SUBSET U)
  <2>. DEFINE U == UNION {NamedIn(a.text[i]) \cup a.text[i].opens : i \in DOMAIN a.text}
  <2>1. \A i \in DOMAIN a.text : NamesAmong(U, a.text[i])
    BY DEF NamesAmong
  <2>. HIDE DEF U
  <2>2. items \in Seq(SUBSET U)
    <3>. HIDE DEF a
    <3>. QED
      BY <1>2, <2>1, ItemsAreLists
  <2>. QED
    BY <2>2
<1>4. Len(items) \in Nat /\ DOMAIN items = 1 .. Len(items)
  BY <1>3, LenProperties
<1>5. q.names \in Seq(ToSet(q.names))
  BY <1>1, AnswersAssumption
<1>6. Len(q.names) \in Nat /\ DOMAIN q.names = 1 .. Len(q.names)
  BY <1>5, LenProperties
<1>7. /\ Cardinality(hits) \in Nat /\ Cardinality(hits) <= Len(items)
      /\ Cardinality(hits) = Len(items) <=> hits = 1 .. Len(items)
  BY <1>4, AllPlaces
<1>8. /\ Cardinality(named) \in Nat /\ Cardinality(named) <= Len(q.names)
      /\ Cardinality(named) = Len(q.names) <=> named = 1 .. Len(q.names)
  BY <1>6, AllPlaces
<1>. DEFINE p == <<Cardinality(hits), Len(items)>>
            r == <<Cardinality(named), Len(q.names)>>
<1>9. Grade(q, a).ok <=> F1(p, r)[1] = F1(p, r)[2]
  <2>1. Grade(q, a) = GradeSet(q, a)
    BY <1>1 DEF Grade
  <2>2. GradeSet(q, a).ok <=> F1(p, r)[1] = F1(p, r)[2]
    BY <1>1 DEF GradeSet, ListedItems, Graded
  <2>. QED
    BY <2>1, <2>2
<1>10. q \in Right(QuestionSet) <=> Grade(q, a).ok
  BY DEF Right
<1>11. \A i \in DOMAIN items : (i \in hits <=> \E k \in DOMAIN q.names : q.names[k] \cap items[i] # {})
  BY DEF ToSet
<1>12. items # <<>> <=> Len(items) # 0
  BY <1>3, EmptySeq
<1>. HIDE DEF items
<1>14. Grade(q, a).ok <=> /\ hits = 1 .. Len(items) /\ named = 1 .. Len(q.names)
                          /\ Len(items) # 0 /\ Len(q.names) # 0
  <2>. HIDE DEF hits, named
  <2>1. F1(p, r)[1] = F1(p, r)[2] <=>
           /\ Cardinality(hits) = Len(items) /\ Cardinality(named) = Len(q.names)
           /\ Cardinality(hits) # 0 /\ Cardinality(named) # 0
    BY <1>4, <1>6, <1>7, <1>8, FullF1
  <2>. HIDE DEF p, r
  <2>. QED
    BY <1>7, <1>8, <1>9, <2>1
<1>15. named = 1 .. Len(q.names) <=> \A k \in DOMAIN q.names : q.names[k] \cap NamedBy(a) # {}
  BY <1>6
<1>16. hits = 1 .. Len(items) <=>
          \A i \in DOMAIN items : \E k \in DOMAIN q.names : q.names[k] \cap items[i] # {}
  BY <1>4, <1>11
<1>17. hits = 1 .. Len(items) /\ Len(items) # 0 => Len(q.names) # 0
  <2>1. ASSUME hits = 1 .. Len(items), Len(items) # 0 PROVE Len(q.names) # 0
    <3>1. 1 \in DOMAIN items
      BY <1>4, <2>1
    <3>2. PICK k \in DOMAIN q.names : q.names[k] \cap items[1] # {}
      BY <1>16, <2>1, <3>1
    <3>. QED
      BY <1>6, <3>2
  <2>. QED
    BY <2>1
<1>. HIDE DEF hits, named
<1>. QED
  BY <1>10, <1>12, <1>14, <1>15, <1>16, <1>17 DEF items

\* Sentence i by itself joins what it joined in the answer.
JoinsAlone(a, i, f) ==
    /\ Alone(a, i).text = <<a.text[i]>>
    /\ \A k : k \in Joining(Alone(a, i), f) <=> k = 1 /\ i \in Joining(a, f)

\* A sentence by itself joins what it joined among the others.
LEMMA SaidAlone ==
    ASSUME NEW a, DOMAIN a = DOMAIN NoText, NEW i \in DOMAIN a.text, NEW f
    PROVE  JoinsAlone(a, i, f)
<1>1. "text" \in DOMAIN a
  BY DEF NoText
<1>2. Alone(a, i).text = <<a.text[i]>>
  BY <1>1 DEF Alone
<1>3. DOMAIN Alone(a, i).text = {1} /\ Alone(a, i).text[1] = a.text[i]
  BY <1>2
<1>. DEFINE b == Alone(a, i)
<1>. HIDE DEF b
<1>4. /\ b.text = <<a.text[i]>>
      /\ DOMAIN b.text = {1}
      /\ b.text[1] = a.text[i]
  BY <1>2, <1>3 DEF b
<1>5. \A k : k \in Joining(b, f) <=> k = 1 /\ i \in Joining(a, f)
  BY <1>4 DEF Joining
<1>. QED
  BY <1>4, <1>5 DEF JoinsAlone, b

\* What an answer covers or wrongly claims, one of its sentences does.
LEMMA ClaimsAreOfSentences == ASSUME AnswersInv PROVE ClaimsAreMadeInASentence
<1>1. SUFFICES ASSUME NEW q \in QuestionSet
      PROVE  /\ Covered(q, answers[q]) =
                   UNION {Covered(q, Alone(answers[q], i)) : i \in DOMAIN answers[q].text}
             /\ Forbidden(q, answers[q]) =
                   UNION {Forbidden(q, Alone(answers[q], i)) : i \in DOMAIN answers[q].text}
  BY DEF ClaimsAreMadeInASentence
<1>. DEFINE a == answers[q]
<1>2. DOMAIN a = DOMAIN NoText
  BY DEF AnswersInv
<1>. HIDE DEF a
<1>3. \A f : Joining(a, f) \subseteq DOMAIN a.text
  BY DEF Joining
<1>4. ASSUME NEW i \in DOMAIN a.text, NEW f
      PROVE  /\ Joining(Alone(a, i), f) # {} <=> i \in Joining(a, f)
             /\ (\E k \in Joining(Alone(a, i), f) : ~Alone(a, i).text[k].past)
                   <=> i \in Joining(a, f) /\ ~a.text[i].past
  <2>1. JoinsAlone(a, i, f)
    BY <1>2, SaidAlone
  <2>2. Alone(a, i).text[1] = a.text[i]
    BY <2>1 DEF JoinsAlone
  <2>3. \A k : k \in Joining(Alone(a, i), f) <=> k = 1 /\ i \in Joining(a, f)
    BY <2>1 DEF JoinsAlone
  <2>. QED
    BY <2>2, <2>3
<1>5. \A f : f \in Covered(q, a) <=> \E i \in DOMAIN a.text : f \in Covered(q, Alone(a, i))
  BY <1>3, <1>4 DEF Covered
<1>6. \A f : f \in Forbidden(q, a) <=> \E i \in DOMAIN a.text : f \in Forbidden(q, Alone(a, i))
  BY <1>3, <1>4 DEF Forbidden
<1>. QED
  BY <1>5, <1>6 DEF a

\* b says one sentence more than a.
SaysMore(a, s, b) ==
    /\ DOMAIN b.text = DOMAIN a.text \cup {Len(a.text) + 1}
    /\ \A i \in DOMAIN a.text : b.text[i] = a.text[i]
    /\ b.text[Len(a.text) + 1] = s /\ Last(b.text) = s
    /\ \A f : /\ Joining(a, f) \subseteq Joining(b, f)
              /\ Joining(b, f) \subseteq Joining(a, f) \cup {Len(a.text) + 1}

\* What one sentence more joins is told by that sentence.
LEMMA OneSentenceMore ==
    ASSUME NEW X, NEW a, NEW s \in X, NEW b, a.text \in Seq(X), b.text = Append(a.text, s)
    PROVE  SaysMore(a, s, b)
<1>1. Len(a.text) \in Nat /\ DOMAIN a.text = 1 .. Len(a.text)
  BY LenProperties
<1>2. b.text \in Seq(X) /\ Len(b.text) = Len(a.text) + 1
      /\ \A i \in 1 .. Len(a.text) : b.text[i] = a.text[i]
      /\ b.text[Len(a.text) + 1] = s
  BY <1>1, AppendProperties
<1>3. DOMAIN b.text = 1 .. Len(a.text) + 1
  BY <1>2, LenProperties
<1>4. 1 .. Len(a.text) + 1 = (1 .. Len(a.text)) \cup {Len(a.text) + 1}
  BY <1>1
<1>5. Last(b.text) = s
  BY <1>2 DEF Last
<1>6. ASSUME NEW f PROVE /\ Joining(a, f) \subseteq Joining(b, f)
                         /\ Joining(b, f) \subseteq Joining(a, f) \cup {Len(a.text) + 1}
  BY <1>1, <1>2, <1>3, <1>4 DEF Joining
<1>. QED
  BY <1>1, <1>2, <1>3, <1>4, <1>5, <1>6 DEF SaysMore

\* A sentence about the past costs nothing, and no sentence takes back what was said.
LEMMA PastCostsNothing ==
    ASSUME AnswersInv, AnswersInv', [Respond]_answers, NEW q \in QuestionSet
    PROVE  PastIsFree(q)
<1>. DEFINE a == answers[q]
            b == answers'[q]
<1>1. SUFFICES ASSUME Len(b.text) > Len(a.text)
      PROVE  CASE q.kind = "entity" -> Last(b.text).past /\ Grade(q, a).ok => Grade(q, b).ok
               [] q.kind = "open_ended" ->
                     /\ Covered(q, a) \subseteq Covered(q, b)
                     /\ Last(b.text).past => Forbidden(q, b) = Forbidden(q, a)
               [] OTHER -> TRUE
  BY DEF PastIsFree
<1>2. /\ a.text \in Seq(Phrases[q]) /\ DOMAIN a = DOMAIN NoText /\ b.text \in Seq(Phrases[q])
      /\ Len(a.text) \in Nat /\ Len(b.text) \in Nat
  BY LenProperties DEF AnswersInv
<1>3. Grows(q)
  BY AnswersGrow
<1>4. \A structure \in Structures[q] : Len(structure.text) = 0
  BY AnswersAssumption
<1>5. \/ b = a
      \/ \E s \in Phrases[q] : b = [a EXCEPT !.text = Append(@, s)]
      \/ b \in Structures[q]
  BY <1>3 DEF Grows
<1>. HIDE DEF a, b
<1>11. b # a /\ b \notin Structures[q]
  BY <1>1, <1>2, <1>4
<1>12. PICK s \in Phrases[q] : b = [a EXCEPT !.text = Append(@, s)]
  BY <1>5, <1>11
<1>6. b.text = Append(a.text, s) /\ b.entities = a.entities
  BY <1>2, <1>12 DEF NoText
<1>13. SaysMore(a, s, b)
  BY <1>2, <1>6, OneSentenceMore
<1>7. /\ DOMAIN b.text = DOMAIN a.text \cup {Len(a.text) + 1}
      /\ \A i \in DOMAIN a.text : b.text[i] = a.text[i]
      /\ b.text[Len(a.text) + 1] = s /\ Last(b.text) = s
      /\ \A f : /\ Joining(a, f) \subseteq Joining(b, f)
                /\ Joining(b, f) \subseteq Joining(a, f) \cup {Len(a.text) + 1}
  BY <1>13 DEF SaysMore
<1>8. CASE q.kind = "entity"
  <2>1. ASSUME s.past, Grade(q, a).ok PROVE Grade(q, b).ok
    <3>1. Grade(q, a) = GradeEntity(q, a) /\ Grade(q, b) = GradeEntity(q, b)
      BY <1>8 DEF Grade
    <3>2. CASE a.entities # Unsaid
      <4>1. GradeEntity(q, a) = GradeEntity(q, b)
        BY <1>6, <3>2 DEF GradeEntity
      <4>. QED
        BY <2>1, <3>1, <4>1
    <3>3. CASE a.entities = Unsaid
      <4>1. NamedBy(a) \subseteq NamedBy(b)
        <5>1. /\ UNION {NamedIn(a.text[i]) : i \in DOMAIN a.text}
                    \subseteq UNION {NamedIn(b.text[i]) : i \in DOMAIN b.text}
              /\ DOMAIN a.text = 1 .. Len(a.text) /\ DOMAIN b.text = 1 .. Len(b.text)
          BY <1>2, <1>7, LenProperties
        <5>2. ASSUME NEW i \in 2 .. Len(a.text)
              PROVE  /\ i \in 2 .. Len(b.text)
                     /\ Across(a.text[i - 1], a.text[i]) = Across(b.text[i - 1], b.text[i])
          <6>1. i \in DOMAIN a.text /\ i - 1 \in DOMAIN a.text
            BY <1>2, <5>1
          <6>2. i \in 2 .. Len(b.text)
            BY <1>2, <1>7, <5>1, <6>1
          <6>. QED
            BY <1>7, <6>1, <6>2
        <5>. QED
          BY <5>1, <5>2 DEF NamedBy
      <4>2. StaleClaimed(q, b) = StaleClaimed(q, a)
        BY <1>7, <2>1 DEF StaleClaimed
      <4>3. \A x : x.entities = Unsaid =>
               (GradeEntity(q, x).ok <=> /\ UNION ToSet(q.names) \cap NamedBy(x) # {}
                                         /\ StaleClaimed(q, x) = {})
        BY DEF GradeEntity, Whole, Graded
      <4>4. UNION ToSet(q.names) \cap NamedBy(a) # {} /\ StaleClaimed(q, a) = {}
        BY <2>1, <3>1, <3>3, <4>3
      <4>5. UNION ToSet(q.names) \cap NamedBy(b) # {} /\ StaleClaimed(q, b) = {}
        BY <4>1, <4>2, <4>4
      <4>. QED
        BY <1>6, <3>1, <3>3, <4>3, <4>5
    <3>. QED
      BY <3>2, <3>3
  <2>. QED
    BY <1>7, <1>8, <2>1
<1>9. CASE q.kind = "open_ended"
  <2>1. Covered(q, a) \subseteq Covered(q, b)
    BY <1>7 DEF Covered
  <2>2. ASSUME s.past PROVE Forbidden(q, b) = Forbidden(q, a)
    <3>1. \A f : Joining(a, f) \subseteq DOMAIN a.text
      BY DEF Joining
    <3>2. \A f : (\E i \in Joining(b, f) : ~b.text[i].past) <=> (\E i \in Joining(a, f) : ~a.text[i].past)
      BY <1>7, <2>2, <3>1
    <3>. QED
      BY <3>2 DEF Forbidden
  <2>. QED
    BY <1>7, <1>9, <2>1, <2>2
<1>10. CASE q.kind \notin {"entity", "open_ended"}
  BY <1>10
<1>. QED
  BY <1>8, <1>9, <1>10

\* An answer is graded by what it says, however it was built up, for any questions and answers:
\* declining earns nothing; a list is right when each item of the whole text names something asked for
\* and nothing asked for is left out; each claim is made by one sentence, and what is said of the
\* past costs nothing.
THEOREM GradesAreAlwaysFair == AnswersSpec => GradesAreFair
<1>1. ASSUME AnswersInv PROVE RefusingPaysNothing /\ ListsAreExact /\ ClaimsAreMadeInASentence
  BY <1>1, RefusingNeverPays, ListsAreGradedExactly, ClaimsAreOfSentences
<1>2. ASSUME AnswersInv, AnswersInv', [Respond]_answers
      PROVE  [\A q \in QuestionSet : PastIsFree(q)]_answers
  BY <1>2, PastCostsNothing
<1>. QED
  BY <1>1, <1>2, AnswersInvHolds, PTL DEF AnswersSpec, GradesAreFair, TalkOfThePastIsFree

(***************************************************************************)
(* Sums.                                                                   *)
(***************************************************************************)

\* what the library's sums take next
Next1(s) == CHOOSE x \in s : TRUE

\* g is the sum of f over each subset of S
IsSum(g, f, S) ==
    \A s \in SUBSET S : g[s] = IF s = {} THEN 0 ELSE f[Next1(s)] + g[s \ {Next1(s)}]

Naturals1(f, S) == IsFiniteSet(S) /\ \A x \in S : f[x] \in Nat

\* Only one function is.
LEMMA SumUnique ==
    ASSUME NEW S, IsFiniteSet(S), NEW f, NEW g, NEW h, IsSum(g, f, S), IsSum(h, f, S)
    PROVE  \A s \in SUBSET S : g[s] = h[s]
<1>. DEFINE Good == {s \in SUBSET S : g[s] = h[s]}
<1>1. {} \in Good
  BY DEF IsSum
<1>2. ASSUME NEW s \in SUBSET S, s # {}, \A x \in s : s \ {x} \in Good PROVE s \in Good
  <2>1. Next1(s) \in s
    BY <1>2 DEF Next1
  <2>2. g[s \ {Next1(s)}] = h[s \ {Next1(s)}]
    BY <1>2, <2>1
  <2>3. g[s] = h[s]
    BY <1>2, <2>2 DEF IsSum
  <2>. QED
    BY <2>3
<1>3. \A s \in SUBSET S : s \in Good
  <2>. HIDE DEF Good
  <2>. QED
    BY <1>1, <1>2, SubsetInduction
<1>. QED
  BY <1>3

\* What the library sums is such a function's value.
LEMMA SumUnfold ==
    ASSUME NEW S, NEW f, Naturals1(f, S)
    PROVE  \E g \in [SUBSET S -> Nat] : IsSum(g, f, S) /\ SumFunctionOnSet(f, S) = g[S]
<1>. DEFINE step == [x \in S |-> [n \in Nat |-> f[x] + n]]
            pick == [s \in SUBSET S |-> Next1(s)]
            Body(g) == [s \in SUBSET S |->
                          IF s = {} THEN 0 ELSE f[Next1(s)] + g[s \ {Next1(s)}]]
            iter == CHOOSE g : g = Body(g)
<1>1. \A x \in S : f[x] \in Nat
  BY DEF Naturals1
<1>2. IsFiniteSet(S)
  BY DEF Naturals1
<1>3. step \in [S -> [Nat -> Nat]]
  BY <1>1
<1>4. PICK g \in [SUBSET S -> Nat] : Folds(g, S, 0, step, pick)
  <2>1. Picks(pick, S)
    BY DEF Picks, Next1
  <2>. HIDE DEF step, pick
  <2>. QED
    BY <1>2, <1>3, <2>1, FoldExists
<1>5. ASSUME NEW s \in SUBSET S, s # {} PROVE Next1(s) \in S /\ g[s \ {Next1(s)}] \in Nat
  BY <1>5 DEF Next1
<1>6. IsSum(g, f, S)
  <2>1. ASSUME NEW s \in SUBSET S
        PROVE  g[s] = IF s = {} THEN 0 ELSE f[Next1(s)] + g[s \ {Next1(s)}]
    <3>1. g[s] = IF s = {} THEN 0 ELSE step[Next1(s)][g[s \ {Next1(s)}]]
      BY <1>4 DEF Folds
    <3>2. s # {} => step[Next1(s)][g[s \ {Next1(s)}]] = f[Next1(s)] + g[s \ {Next1(s)}]
      BY <1>5
    <3>. HIDE DEF step
    <3>. QED
      BY <3>1, <3>2
  <2>. QED
    BY <2>1 DEF IsSum
<1>7. g = Body(g)
  BY <1>6 DEF IsSum
<1>8. iter = Body(iter)
  <2>. HIDE DEF Body
  <2>. QED
    BY <1>7
<1>9. IsSum(iter, f, S)
  <2>. HIDE DEF iter
  <2>. QED
    BY <1>8 DEF IsSum
<1>10. iter[S] = g[S]
  <2>. HIDE DEF iter
  <2>. QED
    BY <1>2, <1>6, <1>9, SumUnique
<1>11. SumFunctionOnSet(f, S) = iter[S]
  BY DEF SumFunctionOnSet, FoldFunctionOnSet, MapThenFoldSet, Next1
<1>. QED
  BY <1>6, <1>10, <1>11

Sums(g, f, S) ==
    /\ g \in [SUBSET S -> Nat]
    /\ IsSum(g, f, S)
    /\ \A s \in SUBSET S : SumFunctionOnSet(f, s) = g[s]

\* The sums over all subsets are one such function.
LEMMA SumsOf ==
    ASSUME NEW S, NEW f, Naturals1(f, S)
    PROVE  \E g : Sums(g, f, S)
<1>1. PICK g \in [SUBSET S -> Nat] : IsSum(g, f, S)
  BY SumUnfold
<1>2. ASSUME NEW s \in SUBSET S PROVE SumFunctionOnSet(f, s) = g[s]
  <2>1. IsFiniteSet(s) /\ Naturals1(f, s)
    BY FS_Subset DEF Naturals1
  <2>2. PICK h \in [SUBSET s -> Nat] : IsSum(h, f, s) /\ SumFunctionOnSet(f, s) = h[s]
    BY <2>1, SumUnfold
  <2>3. IsSum(g, f, s)
    BY <1>1 DEF IsSum
  <2>. QED
    BY <2>1, <2>2, <2>3, SumUnique
<1>. QED
  BY <1>1, <1>2 DEF Sums

\* A sum is a natural number.
LEMMA SumType ==
    ASSUME NEW S, NEW f, Naturals1(f, S)
    PROVE  SumFunctionOnSet(f, S) \in Nat
<1>1. PICK g \in [SUBSET S -> Nat] : IsSum(g, f, S) /\ SumFunctionOnSet(f, S) = g[S]
  BY SumUnfold
<1>. QED
  BY <1>1

\* Nothing sums to zero.
LEMMA SumEmpty == ASSUME NEW f PROVE SumFunctionOnSet(f, {}) = 0
<1>1. Naturals1(f, {})
  BY FS_EmptySet DEF Naturals1
<1>2. PICK g \in [SUBSET {} -> Nat] : IsSum(g, f, {}) /\ SumFunctionOnSet(f, {}) = g[{}]
  BY <1>1, SumUnfold
<1>3. {} \in SUBSET {}
  OBVIOUS
<1>. QED
  BY <1>2, <1>3 DEF IsSum

\* Any element can be taken out, not only the one the fold picks.
LEMMA SumRemove ==
    ASSUME NEW S, NEW f, NEW x \in S, Naturals1(f, S)
    PROVE  SumFunctionOnSet(f, S) = f[x] + SumFunctionOnSet(f, S \ {x})
<1>0. PICK g : Sums(g, f, S)
  BY SumsOf
<1>1. /\ g \in [SUBSET S -> Nat] /\ IsSum(g, f, S)
      /\ \A s \in SUBSET S : SumFunctionOnSet(f, s) = g[s]
  BY <1>0 DEF Sums
<1>2. IsFiniteSet(S) /\ \A y \in S : f[y] \in Nat
  BY DEF Naturals1
<1>. DEFINE Good == {s \in SUBSET S : \A y \in s : g[s] = f[y] + g[s \ {y}]}
<1>3. {} \in Good
  OBVIOUS
<1>4. ASSUME NEW s \in SUBSET S, s # {}, \A y \in s : s \ {y} \in Good PROVE s \in Good
  <2>. DEFINE c == Next1(s)
  <2>1. c \in s
    BY <1>4 DEF Next1
  <2>. HIDE DEF c
  <2>2. g[s] = f[c] + g[s \ {c}]
    BY <1>1, <1>4 DEF IsSum, c
  <2>3. ASSUME NEW y \in s, y # c PROVE g[s] = f[y] + g[s \ {y}]
    <3>1. s \ {c} \in Good /\ s \ {y} \in Good
      BY <1>4, <2>1
    <3>2. y \in s \ {c} /\ c \in s \ {y}
      BY <2>1, <2>3
    <3>3. g[s \ {c}] = f[y] + g[(s \ {c}) \ {y}] /\ g[s \ {y}] = f[c] + g[(s \ {y}) \ {c}]
      BY <3>1, <3>2
    <3>4. (s \ {c}) \ {y} = (s \ {y}) \ {c}
      OBVIOUS
    <3>5. g[(s \ {c}) \ {y}] \in Nat /\ f[y] \in Nat /\ f[c] \in Nat
      BY <1>1, <1>2, <2>1
    <3>6. g[s] = f[c] + (f[y] + g[(s \ {c}) \ {y}])
      BY <2>2, <3>3
    <3>7. \A i, j, k \in Nat : i + (j + k) = j + (i + k)
      OBVIOUS
    <3>8. g[s] = f[y] + (f[c] + g[(s \ {c}) \ {y}])
      BY <3>5, <3>6, <3>7
    <3>. QED
      BY <3>3, <3>4, <3>8
  <2>. QED
    BY <2>2, <2>3
<1>5. S \in Good
  <2>. HIDE DEF Good
  <2>1. \A s \in SUBSET S : s \in Good
    BY <1>2, <1>3, <1>4, SubsetInduction
  <2>. QED
    BY <2>1
<1>6. SumFunctionOnSet(f, S) = g[S] /\ SumFunctionOnSet(f, S \ {x}) = g[S \ {x}]
  BY <1>1
<1>. QED
  BY <1>5, <1>6

\* One more adds its value.
LEMMA SumAdd ==
    ASSUME NEW S, NEW f, NEW x, x \notin S, Naturals1(f, S \cup {x})
    PROVE  SumFunctionOnSet(f, S \cup {x}) = f[x] + SumFunctionOnSet(f, S)
<1>1. (S \cup {x}) \ {x} = S /\ x \in S \cup {x}
  OBVIOUS
<1>. QED
  BY <1>1, SumRemove

AddsUp(f, s, x) ==
    /\ SumFunctionOnSet(f, s) \in Nat /\ f[x] \in Nat
    /\ SumFunctionOnSet(f, s \cup {x}) = f[x] + SumFunctionOnSet(f, s)

\* What an induction over sums needs: for every subset, and every element to add.
LEMMA SumStep ==
    ASSUME NEW S, NEW f, Naturals1(f, S), NEW s \in SUBSET S, NEW x \in S \ s
    PROVE  AddsUp(f, s, x)
<1>1. Naturals1(f, s) /\ Naturals1(f, s \cup {x}) /\ f[x] \in Nat
  BY FS_Subset, s \cup {x} \in SUBSET S DEF Naturals1
<1>2. SumFunctionOnSet(f, s) \in Nat
  BY <1>1, SumType
<1>3. SumFunctionOnSet(f, s \cup {x}) = f[x] + SumFunctionOnSet(f, s)
  BY <1>1, SumAdd
<1>. QED
  BY <1>1, <1>2, <1>3 DEF AddsUp

\* Sums of functions that agree, of two functions, of a multiple and of ones.
LEMMA SumSame ==
    ASSUME NEW S, NEW f, NEW g, Naturals1(f, S), \A x \in S : f[x] = g[x]
    PROVE  SumFunctionOnSet(f, S) = SumFunctionOnSet(g, S)
<1>. DEFINE Good == {s \in SUBSET S : SumFunctionOnSet(f, s) = SumFunctionOnSet(g, s)}
<1>1. Naturals1(g, S) /\ IsFiniteSet(S)
  BY DEF Naturals1
<1>2. {} \in Good
  BY SumEmpty
<1>3. ASSUME NEW s \in SUBSET S, NEW x \in S \ s, s \in Good PROVE s \cup {x} \in Good
  <2>1. SumFunctionOnSet(f, s) = SumFunctionOnSet(g, s)
    BY <1>3
  <2>2. SumFunctionOnSet(f, s \cup {x}) = SumFunctionOnSet(g, s \cup {x})
    <3>. HIDE DEF Good
    <3>1. AddsUp(f, s, x) /\ AddsUp(g, s, x)
      BY <1>1, SumStep
    <3>. QED
      BY <2>1, <3>1 DEF AddsUp
  <2>. QED
    BY <2>2
<1>4. S \in Good
  <2>. HIDE DEF Good
  <2>. QED
    BY <1>1, <1>2, <1>3, SetInduction
<1>. QED
  BY <1>4

\* The sum of sums, place by place.
LEMMA SumPlus ==
    ASSUME NEW S, NEW f, NEW g, NEW h, Naturals1(f, S), Naturals1(g, S),
           \A x \in S : h[x] = f[x] + g[x]
    PROVE  SumFunctionOnSet(h, S) = SumFunctionOnSet(f, S) + SumFunctionOnSet(g, S)
<1>. DEFINE Good == {s \in SUBSET S :
               SumFunctionOnSet(h, s) = SumFunctionOnSet(f, s) + SumFunctionOnSet(g, s)}
<1>1. Naturals1(h, S) /\ IsFiniteSet(S)
  BY DEF Naturals1
<1>2. {} \in Good
  BY SumEmpty
<1>3. ASSUME NEW s \in SUBSET S, NEW x \in S \ s, s \in Good PROVE s \cup {x} \in Good
  <2>. HIDE DEF Good
  <2>1. AddsUp(f, s, x)
    BY SumStep
  <2>2. AddsUp(g, s, x)
    BY SumStep
  <2>3. AddsUp(h, s, x)
    BY <1>1, SumStep
  <2>4. SumFunctionOnSet(h, s) = SumFunctionOnSet(f, s) + SumFunctionOnSet(g, s)
    BY <1>3 DEF Good
  <2>. QED
    BY <2>1, <2>2, <2>3, <2>4 DEF Good, AddsUp
<1>4. S \in Good
  <2>. HIDE DEF Good
  <2>. QED
    BY <1>1, <1>2, <1>3, SetInduction
<1>. QED
  BY <1>4

\* A sum is at least each of its terms.
LEMMA SumAtLeast ==
    ASSUME NEW S, NEW f, NEW x \in S, Naturals1(f, S)
    PROVE  SumFunctionOnSet(f, S) >= f[x]
<1>1. SumFunctionOnSet(f, S) = f[x] + SumFunctionOnSet(f, S \ {x})
  BY SumRemove
<1>2. Naturals1(f, S \ {x}) /\ f[x] \in Nat
  BY FS_Subset DEF Naturals1
<1>3. SumFunctionOnSet(f, S \ {x}) \in Nat
  BY <1>2, SumType
<1>. QED
  BY <1>1, <1>2, <1>3

\* Classes of a function's values: their sizes sum to the number of arguments.
LEMMA SumOfClasses ==
    ASSUME NEW S, IsFiniteSet(S), NEW T, IsFiniteSet(T), NEW f \in [S -> T], NEW size,
           \A t \in T : size[t] = Cardinality({x \in S : f[x] = t})
    PROVE  SumFunctionOnSet(size, T) = Cardinality(S)
<1>. DEFINE class(t) == {x \in S : f[x] = t}
            upTo(u) == {x \in S : f[x] \in u}
            Good == {u \in SUBSET T : SumFunctionOnSet(size, u) = Cardinality(upTo(u))}
<1>1. \A t \in T : IsFiniteSet(class(t)) /\ Cardinality(class(t)) \in Nat
  BY FS_Subset, FS_CardinalityType
<1>2. Naturals1(size, T)
  BY <1>1 DEF Naturals1
<1>3. {} \in Good
  <2>1. upTo({}) = {}
    OBVIOUS
  <2>. QED
    BY <2>1, SumEmpty, FS_EmptySet
<1>4. ASSUME NEW u \in SUBSET T, NEW t \in T \ u, u \in Good PROVE u \cup {t} \in Good
  <2>1. AddsUp(size, u, t)
    BY <1>2, SumStep
  <2>2. upTo(u \cup {t}) = upTo(u) \cup class(t) /\ upTo(u) \cap class(t) = {}
    OBVIOUS
  <2>3. IsFiniteSet(upTo(u)) /\ Cardinality(upTo(u)) \in Nat
    BY FS_Subset, FS_CardinalityType
  <2>4. IsFiniteSet(class(t)) /\ Cardinality(class(t)) \in Nat
    BY <1>1
  <2>5. Cardinality(upTo(u) \cup class(t)) = Cardinality(upTo(u)) + Cardinality(class(t))
    <3>. HIDE DEF upTo, class
    <3>1. Cardinality(upTo(u) \cup class(t))
             = Cardinality(upTo(u)) + Cardinality(class(t)) - Cardinality(upTo(u) \cap class(t))
      BY <2>3, <2>4, FS_Union
    <3>2. Cardinality(upTo(u) \cap class(t)) = 0
      BY <2>2, FS_EmptySet
    <3>. QED
      BY <2>3, <2>4, <3>1, <3>2
  <2>6. size[t] = Cardinality(class(t)) /\ SumFunctionOnSet(size, u) = Cardinality(upTo(u))
    BY <1>4
  <2>7. SumFunctionOnSet(size, u \cup {t}) = Cardinality(upTo(u \cup {t}))
    <3>. HIDE DEF upTo, class
    <3>. QED
      BY <2>1, <2>2, <2>3, <2>4, <2>5, <2>6 DEF AddsUp
  <2>. QED
    BY <2>7
<1>5. T \in Good
  <2>. HIDE DEF Good
  <2>. QED
    BY <1>2, <1>3, <1>4, SetInduction
<1>6. upTo(T) = S
  OBVIOUS
<1>. QED
  BY <1>5, <1>6

\* What is never less sums to no less, and to as much only when it is the same.
LEMMA SumCompare ==
    ASSUME NEW S, NEW f, NEW g, Naturals1(f, S), Naturals1(g, S), \A x \in S : f[x] <= g[x]
    PROVE  /\ SumFunctionOnSet(f, S) <= SumFunctionOnSet(g, S)
           /\ SumFunctionOnSet(f, S) = SumFunctionOnSet(g, S) => \A x \in S : f[x] = g[x]
<1>. DEFINE h == [x \in S |-> g[x] - f[x]]
<1>1. \A x \in S : h[x] \in Nat /\ g[x] = f[x] + h[x]
  <2>1. TAKE x \in S
  <2>2. f[x] \in Nat /\ g[x] \in Nat /\ f[x] <= g[x] /\ h[x] = g[x] - f[x]
    BY DEF Naturals1
  <2>. HIDE DEF h
  <2>. QED
    BY <2>2
<1>. HIDE DEF h
<1>2. Naturals1(h, S)
  BY <1>1 DEF Naturals1
<1>3. SumFunctionOnSet(g, S) = SumFunctionOnSet(f, S) + SumFunctionOnSet(h, S)
  BY <1>1, <1>2, SumPlus
<1>4. SumFunctionOnSet(f, S) \in Nat /\ SumFunctionOnSet(h, S) \in Nat
  BY <1>2, SumType
<1>5. ASSUME SumFunctionOnSet(h, S) = 0, NEW x \in S PROVE f[x] = g[x]
  <2>1. SumFunctionOnSet(h, S) >= h[x]
    BY <1>2, SumAtLeast
  <2>2. h[x] \in Nat /\ g[x] = f[x] + h[x] /\ f[x] \in Nat
    BY <1>1 DEF Naturals1
  <2>. QED
    BY <1>5, <2>1, <2>2
<1>6. SumFunctionOnSet(f, S) = SumFunctionOnSet(g, S) => SumFunctionOnSet(h, S) = 0
  BY <1>3, <1>4
<1>. QED
  BY <1>3, <1>4, <1>5, <1>6

(***************************************************************************)
(* The metrics of the harness.                                             *)
(***************************************************************************)
IsText(words) == words \in Seq(ToSet(words))

\* There are n places from 1 to n.
LEMMA SomePlaces == ASSUME NEW n \in Nat PROVE IsFiniteSet(1 .. n) /\ Cardinality(1 .. n) = n
  BY FS_Interval

\* A sequence is one of the words in it.
LEMMA TextOf == ASSUME NEW D, NEW s \in Seq(D) PROVE IsText(s)
<1>1. Len(s) \in Nat /\ DOMAIN s = 1 .. Len(s) /\ s = [i \in 1 .. Len(s) |-> s[i]]
  BY LenProperties
<1>2. \A i \in 1 .. Len(s) : s[i] \in ToSet(s)
  BY <1>1 DEF ToSet
<1>3. s \in [1 .. Len(s) -> ToSet(s)]
  BY <1>1, <1>2
<1>. QED
  BY <1>1, <1>3 DEF IsText

\* A text normalized is a text.
LEMMA NormalizedText == ASSUME NEW words, IsText(words) PROVE IsText(NormalizeAnswer(words))
<1>. DEFINE n == Len(words)
            D == {Lower[words[i]] : i \in 1 .. n}
            ss == [i \in DOMAIN words |->
                     IF Lower[words[i]] \in Punctuation \cup Articles THEN <<>>
                     ELSE <<Lower[words[i]]>>]
<1>1. n \in Nat /\ DOMAIN words = 1 .. n
  BY LenProperties DEF IsText
<1>2. ASSUME NEW i \in 1 .. n PROVE ss[i] \in Seq(D)
  <2>1. <<>> \in Seq(D)
    BY EmptySeq
  <2>2. Lower[words[i]] \in D
    OBVIOUS
  <2>. HIDE DEF D
  <2>3. <<Lower[words[i]]>> \in Seq(D)
    BY <2>2
  <2>. QED
    BY <1>1, <2>1, <2>3
<1>3. ss \in [1 .. n -> Seq(D)]
  <2>1. ss = [i \in 1 .. n |-> ss[i]]
    BY <1>1
  <2>. HIDE DEF ss
  <2>. QED
    BY <1>2, <2>1
<1>4. FlattenSeq(ss) \in Seq(D)
  <2>. HIDE DEF ss, D
  <2>. QED
    BY <1>1, <1>3, FlattenHolds
<1>5. NormalizeAnswer(words) = FlattenSeq(ss)
  BY DEF NormalizeAnswer
<1>. QED
  BY <1>4, <1>5, TextOf

\* how often each word of W is in a text
Counts(words, W) == [w \in W |-> Times(words, w)]

\* Words are counted one after the other, or each as often as it is there.
LEMMA WordsCounted ==
    ASSUME NEW words, IsText(words), NEW W, IsFiniteSet(W)
    PROVE  /\ Naturals1(Counts(words, W), W)
           /\ SumFunctionOnSet(Counts(words, W), W) <= Len(words)
           /\ ToSet(words) \subseteq W => SumFunctionOnSet(Counts(words, W), W) = Len(words)
<1>1. Len(words) \in Nat /\ DOMAIN words = 1 .. Len(words)
  BY LenProperties DEF IsText
<1>2. IsFiniteSet(1 .. Len(words)) /\ Cardinality(1 .. Len(words)) = Len(words)
  BY <1>1, SomePlaces
<1>. DEFINE S == {i \in DOMAIN words : words[i] \in W}
            f == [i \in S |-> words[i]]
<1>3. S \subseteq 1 .. Len(words)
  BY <1>1
<1>4. IsFiniteSet(S) /\ Cardinality(S) <= Len(words)
  BY <1>2, <1>3, FS_Subset
<1>5. f \in [S -> W]
  OBVIOUS
<1>6. \A w \in W : {i \in S : f[i] = w} = {i \in DOMAIN words : words[i] = w}
  OBVIOUS
<1>7. \A w \in W : Counts(words, W)[w] = Cardinality({i \in S : f[i] = w})
  BY <1>6 DEF Counts, Times
<1>8. SumFunctionOnSet(Counts(words, W), W) = Cardinality(S)
  <2>. HIDE DEF S, f
  <2>. QED
    BY <1>4, <1>5, <1>7, SumOfClasses
<1>9. Naturals1(Counts(words, W), W)
  <2>1. \A w \in W : IsFiniteSet({i \in S : f[i] = w})
    BY <1>4, FS_Subset
  <2>2. \A w \in W : Counts(words, W)[w] \in Nat
    <3>. HIDE DEF S, f
    <3>. QED
      BY <1>7, <2>1, FS_CardinalityType
  <2>. QED
    BY <2>2 DEF Naturals1
<1>10. ASSUME ToSet(words) \subseteq W PROVE S = 1 .. Len(words)
  BY <1>1, <1>10 DEF ToSet
<1>. HIDE DEF S
<1>. QED
  BY <1>2, <1>4, <1>8, <1>9, <1>10

\* The smaller of two numbers.
LEMMA MinOfTwo ==
    ASSUME NEW a \in Nat, NEW b \in Nat
    PROVE  Min({a, b}) = IF a <= b THEN a ELSE b
<1>. DEFINE m == IF a <= b THEN a ELSE b
<1>1. m \in {a, b} /\ \A x \in {a, b} : m <= x
  OBVIOUS
<1>2. \A x \in {a, b} : (\A y \in {a, b} : x <= y) => x = m
  OBVIOUS
<1>3. Min({a, b}) = CHOOSE x \in {a, b} : \A y \in {a, b} : x <= y
  BY DEF Min
<1>. HIDE DEF m
<1>4. Min({a, b}) = m
  BY <1>1, <1>2, <1>3
<1>. QED
  BY <1>4 DEF m

\* two texts have the same words, each as often
Alike(p, g) == /\ Len(p) = Len(g)
               /\ \A w \in ToSet(p) : Times(p, w) = Times(g, w)

\* Two texts share at most the words of each, and as many as both have when they are alike.
LEMMA SharedWords ==
    ASSUME NEW p, NEW g, IsText(p), IsText(g)
    PROVE  /\ Shared(p, g) \in Nat /\ Shared(p, g) <= Len(p) /\ Shared(p, g) <= Len(g)
           /\ Len(p) \in Nat /\ Len(g) \in Nat
           /\ Shared(p, g) = Len(p) /\ Shared(p, g) = Len(g) => Alike(p, g)
           /\ p = g => Shared(p, g) = Len(p)
<1>1. Len(p) \in Nat /\ Len(g) \in Nat /\ DOMAIN p = 1 .. Len(p)
  BY LenProperties DEF IsText
<1>. DEFINE W == ToSet(p)
            a == Counts(p, W)
            b == Counts(g, W)
            m == [w \in W |-> Min({Times(p, w), Times(g, w)})]
<1>2. IsFiniteSet(W)
  <2>1. IsFiniteSet(1 .. Len(p))
    BY <1>1, FS_Interval
  <2>2. W = {p[i] : i \in 1 .. Len(p)}
    BY <1>1 DEF ToSet
  <2>. HIDE DEF W
  <2>. QED
    BY <2>1, <2>2, ImageSize
<1>3. /\ Naturals1(a, W) /\ Naturals1(b, W)
      /\ SumFunctionOnSet(a, W) = Len(p) /\ SumFunctionOnSet(b, W) <= Len(g)
  BY <1>2, WordsCounted
<1>4. ASSUME NEW w \in W
      PROVE  /\ m[w] \in Nat /\ m[w] <= a[w] /\ m[w] <= b[w]
             /\ a[w] = b[w] => m[w] = a[w]
             /\ a[w] = Times(p, w) /\ b[w] = Times(g, w)
  <2>1. a[w] \in Nat /\ b[w] \in Nat
    BY <1>3 DEF Naturals1
  <2>2. a[w] = Times(p, w) /\ b[w] = Times(g, w)
    BY DEF Counts
  <2>3. m[w] = Min({a[w], b[w]})
    BY <2>2
  <2>. HIDE DEF m, a, b
  <2>4. m[w] = IF a[w] <= b[w] THEN a[w] ELSE b[w]
    BY <2>1, <2>3, MinOfTwo
  <2>. QED
    BY <2>1, <2>2, <2>4
<1>5. Shared(p, g) = SumFunctionOnSet(m, W)
  <2>1. DOMAIN m = W
    OBVIOUS
  <2>2. Shared(p, g) = SumFunction(m)
    BY DEF Shared
  <2>. HIDE DEF m, W
  <2>. QED
    BY <2>1, <2>2 DEF SumFunction
<1>6. p = g => \A w \in W : a[w] = b[w]
  OBVIOUS
<1>. HIDE DEF m, a, b
<1>7. Naturals1(m, W)
  BY <1>2, <1>4 DEF Naturals1
<1>8. /\ SumFunctionOnSet(m, W) <= SumFunctionOnSet(a, W)
      /\ SumFunctionOnSet(m, W) = SumFunctionOnSet(a, W) => \A w \in W : m[w] = a[w]
  BY <1>3, <1>4, <1>7, SumCompare
<1>9. /\ SumFunctionOnSet(m, W) <= SumFunctionOnSet(b, W)
      /\ SumFunctionOnSet(m, W) = SumFunctionOnSet(b, W) => \A w \in W : m[w] = b[w]
  BY <1>3, <1>4, <1>7, SumCompare
<1>10. SumFunctionOnSet(m, W) \in Nat /\ SumFunctionOnSet(b, W) \in Nat
  BY <1>3, <1>7, SumType
<1>11. ASSUME Shared(p, g) = Len(p), Shared(p, g) = Len(g) PROVE Alike(p, g)
  <2>1. SumFunctionOnSet(m, W) = SumFunctionOnSet(a, W) /\ SumFunctionOnSet(m, W) = SumFunctionOnSet(b, W)
    BY <1>1, <1>3, <1>5, <1>9, <1>10, <1>11
  <2>2. \A w \in W : m[w] = a[w] /\ m[w] = b[w]
    BY <1>8, <1>9, <2>1
  <2>3. \A w \in W : Times(p, w) = Times(g, w)
    BY <1>4, <2>2
  <2>. QED
    BY <1>11, <2>3 DEF Alike
<1>12. ASSUME p = g PROVE Shared(p, g) = Len(p)
  <2>1. \A w \in W : m[w] = a[w]
    BY <1>4, <1>6, <1>12
  <2>2. SumFunctionOnSet(m, W) = SumFunctionOnSet(a, W)
    BY <1>7, <2>1, SumSame
  <2>. QED
    BY <1>3, <1>5, <2>2
<1>. QED
  BY <1>1, <1>3, <1>5, <1>8, <1>9, <1>10, <1>11, <1>12

IsRatio(a) == a[1] \in Nat /\ a[2] \in Nat /\ a[2] > 0

\* a score of texts, one exactly when they are alike
ScoreOfTexts(a, p, g) ==
    /\ IsRatio(a) /\ a[1] <= a[2]
    /\ a[1] = a[2] => Alike(p, g)
    /\ p = g => a[1] = a[2]

\* The score of one answer against one gold answer.
LEMMA SingleScore ==
    ASSUME NEW prediction, NEW gold, IsText(prediction), IsText(gold)
    PROVE  ScoreOfTexts(TokenF1Single(prediction, gold),
                        NormalizeAnswer(prediction), NormalizeAnswer(gold))
<1>. DEFINE p == NormalizeAnswer(prediction)
            g == NormalizeAnswer(gold)
            a == TokenF1Single(prediction, gold)
<1>1. IsText(p) /\ IsText(g)
  BY NormalizedText
<1>2. a = IF p = <<>> \/ g = <<>> THEN <<IF p = g THEN 1 ELSE 0, 1>>
          ELSE <<2 * Shared(p, g), Len(p) + Len(g)>>
  BY DEF TokenF1Single
<1>. SUFFICES ScoreOfTexts(a, p, g)
  OBVIOUS
<1>. HIDE DEF p, g, a
<1>3. CASE p = <<>> \/ g = <<>>
  <2>1. a[1] = (IF p = g THEN 1 ELSE 0) /\ a[2] = 1
    BY <1>2, <1>3
  <2>2. p = g => Alike(p, g)
    BY DEF Alike
  <2>3. IsRatio(a) /\ a[1] <= a[2]
    BY <2>1 DEF IsRatio
  <2>4. a[1] = a[2] <=> p = g
    BY <2>1
  <2>. QED
    BY <2>2, <2>3, <2>4 DEF ScoreOfTexts
<1>4. CASE p # <<>> /\ g # <<>>
  <2>1. a[1] = 2 * Shared(p, g) /\ a[2] = Len(p) + Len(g)
    BY <1>2, <1>4
  <2>2. /\ Shared(p, g) \in Nat /\ Shared(p, g) <= Len(p) /\ Shared(p, g) <= Len(g)
        /\ Len(p) \in Nat /\ Len(g) \in Nat
        /\ Shared(p, g) = Len(p) /\ Shared(p, g) = Len(g) => Alike(p, g)
        /\ p = g => Shared(p, g) = Len(p)
    BY <1>1, SharedWords
  <2>3. Len(p) > 0
    <3>1. Len(p) # 0
      BY <1>1, <1>4, EmptySeq DEF IsText
    <3>. QED
      BY <2>2, <3>1
  <2>4. IsRatio(a) /\ a[1] <= a[2]
    BY <2>1, <2>2, <2>3 DEF IsRatio
  <2>5. a[1] = a[2] <=> Shared(p, g) = Len(p) /\ Shared(p, g) = Len(g)
    BY <2>1, <2>2
  <2>6. p = g => Len(p) = Len(g)
    OBVIOUS
  <2>. QED
    BY <2>2, <2>4, <2>5, <2>6 DEF ScoreOfTexts
<1>. QED
  BY <1>3, <1>4

\* Scores compare as fractions do.
LEMMA AtLeastIsOrder ==
    ASSUME NEW a, NEW b, NEW c, IsRatio(a), IsRatio(b), IsRatio(c)
    PROVE  /\ AtLeast(a, a)
           /\ AtLeast(a, b) \/ AtLeast(b, a)
           /\ AtLeast(a, b) /\ AtLeast(b, c) => AtLeast(a, c)
<1>1. PICK a1 \in Nat, a2 \in Nat, b1 \in Nat, b2 \in Nat, c1 \in Nat, c2 \in Nat :
          a1 = a[1] /\ a2 = a[2] /\ b1 = b[1] /\ b2 = b[2] /\ c1 = c[1] /\ c2 = c[2]
  BY DEF IsRatio
<1>2. a2 > 0 /\ b2 > 0 /\ c2 > 0
  BY <1>1 DEF IsRatio
<1>3. /\ AtLeast(a, a) <=> a1 * a2 >= a1 * a2
      /\ AtLeast(a, b) <=> a1 * b2 >= b1 * a2
      /\ AtLeast(b, a) <=> b1 * a2 >= a1 * b2
      /\ AtLeast(b, c) <=> b1 * c2 >= c1 * b2
      /\ AtLeast(a, c) <=> a1 * c2 >= c1 * a2
  BY <1>1 DEF AtLeast
<1>4. /\ a1 * b2 \in Nat /\ b1 * a2 \in Nat /\ b1 * c2 \in Nat /\ c1 * b2 \in Nat
      /\ a1 * c2 \in Nat /\ c1 * a2 \in Nat /\ a1 * a2 \in Nat
  OBVIOUS
<1>5. ASSUME a1 * b2 >= b1 * a2, b1 * c2 >= c1 * b2 PROVE a1 * c2 >= c1 * a2
  <2>1. c2 * (b1 * a2) <= c2 * (a1 * b2)
    BY <1>4, <1>5, TimesGrows
  <2>2. a2 * (c1 * b2) <= a2 * (b1 * c2)
    BY <1>4, <1>5, TimesGrows
  <2>3. c2 * (b1 * a2) = a2 * (b1 * c2)
    OBVIOUS
  <2>4. a2 * (c1 * b2) = b2 * (c1 * a2) /\ c2 * (a1 * b2) = b2 * (a1 * c2)
    OBVIOUS
  <2>5. b2 * (c1 * a2) <= b2 * (a1 * c2)
    <3>1. b2 * (c1 * a2) \in Nat /\ b2 * (a1 * c2) \in Nat /\ c2 * (b1 * a2) \in Nat
      BY <1>4
    <3>. QED
      BY <2>1, <2>2, <2>3, <2>4, <3>1
  <2>6. ASSUME a1 * c2 < c1 * a2 PROVE FALSE
    <3>1. b2 * (a1 * c2) < b2 * (c1 * a2)
      BY <1>2, <1>4, <2>6, TimesGrows
    <3>2. b2 * (c1 * a2) \in Nat /\ b2 * (a1 * c2) \in Nat
      BY <1>4
    <3>. QED
      BY <2>5, <3>1, <3>2
  <2>. QED
    BY <1>4, <2>6
<1>. QED
  BY <1>3, <1>4, <1>5

\* Of finitely many scores one is the best.
LEMMA BestScore ==
    ASSUME NEW all, IsFiniteSet(all), all # {}, \A a \in all : IsRatio(a)
    PROVE  \E a \in all : \A b \in all : AtLeast(a, b)
<1>. DEFINE below(a) == {b \in all : AtLeast(a, b)}
            T == {Cardinality(all) - Cardinality(below(a)) : a \in all}
<1>1. ASSUME NEW a \in all
      PROVE  /\ IsFiniteSet(below(a)) /\ Cardinality(below(a)) \in Nat
             /\ Cardinality(below(a)) <= Cardinality(all)
  BY FS_Subset, FS_CardinalityType
<1>2. Cardinality(all) \in Nat
  BY FS_CardinalityType
<1>3. T \subseteq Nat /\ T # {}
  <2>. HIDE DEF below
  <2>. QED
    BY <1>1, <1>2
<1>4. PICK n \in T : \A m \in T : n <= m
  <2>. HIDE DEF T
  <2>. QED
    BY <1>3, LeastOfNaturals
<1>5. PICK a \in all : n = Cardinality(all) - Cardinality(below(a))
  OBVIOUS
<1>6. ASSUME NEW b \in all, ~AtLeast(a, b) PROVE FALSE
  <2>1. AtLeast(b, a) /\ AtLeast(b, b)
    BY <1>6, AtLeastIsOrder
  <2>2. below(a) \subseteq below(b)
    <3>1. SUFFICES ASSUME NEW c \in all, AtLeast(a, c) PROVE AtLeast(b, c)
      OBVIOUS
    <3>2. IsRatio(a) /\ IsRatio(b) /\ IsRatio(c)
      BY <3>1
    <3>. QED
      BY <2>1, <3>1, <3>2, AtLeastIsOrder
  <2>3. b \in below(b) /\ b \notin below(a)
    BY <1>6, <2>1
  <2>4. Cardinality(below(a)) < Cardinality(below(b))
    <3>1. IsFiniteSet(below(b)) /\ IsFiniteSet(below(a))
      BY <1>1
    <3>. HIDE DEF below
    <3>2. below(a) # below(b)
      BY <2>3
    <3>. QED
      BY <2>2, <3>1, <3>2, FS_Subset, FS_CardinalityType
  <2>5. Cardinality(all) - Cardinality(below(b)) >= n
    BY <1>4
  <2>6. Cardinality(below(a)) \in Nat /\ Cardinality(below(b)) \in Nat
    BY <1>1
  <2>. HIDE DEF below, T
  <2>. QED
    BY <1>2, <1>5, <2>4, <2>5, <2>6
<1>. QED
  BY <1>6

\* what the metrics of a prediction say
MetricsAgreeOn(p, golds) ==
    LET f1 == TokenF1(p, golds)
    IN  /\ f1[1] <= f1[2]
        /\ ExactMatch(p, golds) => f1[1] = f1[2]
        /\ f1[1] = f1[2] => \E g \in golds : Alike(NormalizeAnswer(p), NormalizeAnswer(g))

\* They agree, whatever the answer and the gold answers are.
LEMMA MetricsAgreeAlways ==
    ASSUME NEW p, NEW golds, IsText(p), IsFiniteSet(golds), \A g \in golds : IsText(g)
    PROVE  MetricsAgreeOn(p, golds)
<1>1. CASE golds = {}
  <2>1. TokenF1(p, golds) = <<0, 1>> /\ ~ExactMatch(p, golds)
    BY <1>1 DEF TokenF1, ExactMatch
  <2>. QED
    BY <2>1 DEF MetricsAgreeOn
<1>2. CASE golds # {}
  <2>. DEFINE all == {TokenF1Single(p, g) : g \in golds}
              f1 == TokenF1(p, golds)
  <2>1. \A g \in golds : ScoreOfTexts(TokenF1Single(p, g), NormalizeAnswer(p), NormalizeAnswer(g))
    BY SingleScore
  <2>2. \A a \in all : IsRatio(a)
    BY <2>1 DEF ScoreOfTexts
  <2>3. IsFiniteSet(all) /\ all # {}
    <3>. DEFINE f == [g \in golds |-> TokenF1Single(p, g)]
    <3>1. all = {f[g] : g \in golds}
      OBVIOUS
    <3>. HIDE DEF f
    <3>2. IsFiniteSet({f[g] : g \in golds})
      BY ImageSize
    <3>. QED
      BY <1>2, <3>1, <3>2
  <2>4. f1 = CHOOSE a \in all : \A b \in all : AtLeast(a, b)
    BY <1>2 DEF TokenF1
  <2>. HIDE DEF all, f1
  <2>5. f1 \in all /\ \A b \in all : AtLeast(f1, b)
    <3>1. \E a \in all : \A b \in all : AtLeast(a, b)
      BY <2>2, <2>3, BestScore
    <3>. QED
      BY <2>4, <3>1
  <2>6. PICK g \in golds : f1 = TokenF1Single(p, g)
    BY <2>5 DEF all
  <2>7. ScoreOfTexts(f1, NormalizeAnswer(p), NormalizeAnswer(g))
    BY <2>1, <2>6
  <2>8. ASSUME ExactMatch(p, golds) PROVE f1[1] = f1[2]
    <3>1. PICK h \in golds : NormalizeAnswer(h) = NormalizeAnswer(p)
      BY <2>8 DEF ExactMatch
    <3>. DEFINE x == TokenF1Single(p, h)
    <3>2. ScoreOfTexts(x, NormalizeAnswer(p), NormalizeAnswer(h))
      BY <2>1
    <3>3. x \in all
      BY DEF all
    <3>. HIDE DEF x
    <3>4. x[1] = x[2] /\ IsRatio(x)
      BY <3>1, <3>2 DEF ScoreOfTexts
    <3>5. AtLeast(f1, x)
      BY <2>5, <3>3
    <3>6. IsRatio(f1) /\ f1[1] <= f1[2]
      BY <2>7 DEF ScoreOfTexts
    <3>7. f1[1] * x[2] >= x[2] * f1[2]
      BY <3>4, <3>5 DEF AtLeast
    <3>8. f1[1] < f1[2] => x[2] * f1[1] < x[2] * f1[2]
      BY <3>4, <3>6, TimesGrows DEF IsRatio
    <3>9. f1[1] * x[2] = x[2] * f1[1] /\ x[2] * f1[1] \in Nat /\ x[2] * f1[2] \in Nat
      BY <3>4, <3>6 DEF IsRatio
    <3>10. f1[1] \in Nat /\ f1[2] \in Nat
      BY <3>6 DEF IsRatio
    <3>. QED
      BY <3>6, <3>7, <3>8, <3>9, <3>10
  <2>9. /\ f1[1] <= f1[2]
        /\ f1[1] = f1[2] => \E x \in golds : Alike(NormalizeAnswer(p), NormalizeAnswer(x))
    BY <2>7 DEF ScoreOfTexts
  <2>. QED
    BY <2>8, <2>9 DEF MetricsAgreeOn, f1
<1>. QED
  BY <1>1, <1>2

(***************************************************************************)
(* The harness.                                                            *)
(***************************************************************************)

\* Every place of a stable sort by id is taken by one of the examples.
LEMMA EveryPlaceIsTaken ==
    ASSUME NEW examples, IsText(examples), \A i \in DOMAIN examples : examples[i].id \in Int,
           NEW n \in 1 .. Len(examples)
    PROVE  ById(examples, n) \in DOMAIN examples
<1>. DEFINE N == Len(examples)
            D == 1 .. N
            rank == [i \in D |-> Cardinality(Ahead(examples, i))]
<1>1. N \in Nat /\ DOMAIN examples = D
  BY LenProperties DEF IsText
<1>2. IsFiniteSet(D) /\ Cardinality(D) = N
  BY <1>1, SomePlaces
<1>3. ASSUME NEW i \in D, NEW k \in D
      PROVE  i \in Ahead(examples, k) <=>
                \/ examples[i].id < examples[k].id
                \/ (examples[i].id = examples[k].id /\ i < k)
  BY <1>1 DEF Ahead
<1>4. \A i \in D : Ahead(examples, i) \subseteq D
  BY <1>1 DEF Ahead
<1>5. \A i \in D : examples[i].id \in Int /\ i \in Int
  BY <1>1
<1>. HIDE DEF D
<1>6. \A i \in D : IsFiniteSet(Ahead(examples, i)) /\ Cardinality(Ahead(examples, i)) \in Nat
  BY <1>2, <1>4, FS_Subset, FS_CardinalityType
<1>7. ASSUME NEW i \in D, NEW k \in D, i \in Ahead(examples, k)
      PROVE  Cardinality(Ahead(examples, i)) < Cardinality(Ahead(examples, k))
  <2>1. ASSUME NEW j \in Ahead(examples, i) PROVE j \in Ahead(examples, k)
    <3>1. j \in D
      BY <1>4, <2>1
    <3>. QED
      BY <1>3, <1>5, <1>7, <2>1, <3>1
  <2>2. i \notin Ahead(examples, i)
    BY <1>3, <1>5
  <2>3. Ahead(examples, i) \subseteq Ahead(examples, k) /\ Ahead(examples, i) # Ahead(examples, k)
    BY <1>7, <2>1, <2>2
  <2>. QED
    BY <1>6, <2>3, FS_Subset
<1>8. \A i, k \in D : rank[i] = rank[k] => i = k
  <2>1. SUFFICES ASSUME NEW i \in D, NEW k \in D, i # k PROVE rank[i] # rank[k]
    OBVIOUS
  <2>2. i \in Ahead(examples, k) \/ k \in Ahead(examples, i)
    BY <1>3, <1>5, <2>1
  <2>3. \/ Cardinality(Ahead(examples, i)) < Cardinality(Ahead(examples, k))
        \/ Cardinality(Ahead(examples, k)) < Cardinality(Ahead(examples, i))
    BY <1>7, <2>2
  <2>. QED
    BY <1>6, <2>3
<1>9. ASSUME NEW i \in D PROVE rank[i] \in 0 .. N - 1
  <2>1. i \notin Ahead(examples, i)
    BY <1>3, <1>5
  <2>2. Cardinality(Ahead(examples, i)) < N
    BY <1>2, <1>4, <1>6, <2>1, FS_Subset
  <2>. QED
    BY <1>1, <1>6, <2>2
<1>10. {rank[i] : i \in D} = 0 .. N - 1
  <2>1. {rank[i] : i \in D} \subseteq 0 .. N - 1
    BY <1>9
  <2>. HIDE DEF rank
  <2>2. Cardinality({rank[i] : i \in D}) = N
    BY <1>2, <1>8, ImageSize
  <2>3. IsFiniteSet(0 .. N - 1) /\ Cardinality(0 .. N - 1) = N
    <3>1. \A m \in Nat : IsFiniteSet(0 .. m - 1) /\ Cardinality(0 .. m - 1) = m
      BY FS_Interval
    <3>. QED
      BY <1>1, <3>1
  <2>. QED
    BY <2>1, <2>2, <2>3, FS_Subset
<1>11. n - 1 \in 0 .. N - 1
  BY <1>1
<1>12. PICK i \in D : rank[i] = n - 1
  BY <1>10, <1>11
<1>13. \E k \in DOMAIN examples : Cardinality(Ahead(examples, k)) = n - 1
  BY <1>1, <1>12
<1>. QED
  BY <1>13 DEF ById

\* examples of a file, in some order
ExamplesOf(file, examples) ==
    \E m \in Nat : /\ DOMAIN examples = 1 .. m
                   /\ \A i \in 1 .. m : examples[i] \in ToSet(file)

\* A subset is made of examples of the file.
LEMMA SubsetOfFile ==
    ASSUME NEW file \in Files, NEW size \in Sizes
    PROVE  ExamplesOf(file, SelectSubset(file, size))
<1>. DEFINE m == Min({size, Len(file)})
<1>1. IsText(file) /\ size \in Nat /\ \A i \in DOMAIN file : file[i].id \in Int
  BY HarnessAssumption DEF IsText, ToSet
<1>2. Len(file) \in Nat
  BY <1>1, LenProperties DEF IsText
<1>3. m \in Nat /\ m <= Len(file)
  BY <1>1, <1>2, MinOfTwo
<1>4. SelectSubset(file, size) = [n \in 1 .. m |-> file[ById(file, n)]]
  BY DEF SelectSubset
<1>. HIDE DEF m
<1>5. ASSUME NEW n \in 1 .. m PROVE file[ById(file, n)] \in ToSet(file)
  <2>1. n \in 1 .. Len(file)
    BY <1>2, <1>3
  <2>2. ById(file, n) \in DOMAIN file
    BY <1>1, <2>1, EveryPlaceIsTaken
  <2>. QED
    BY <2>2 DEF ToSet
<1>. QED
  BY <1>3, <1>4, <1>5 DEF ExamplesOf

\* The paragraphs of some examples come in an order.
LEMMA ParagraphsInOrder ==
    ASSUME NEW file \in Files, NEW examples, ExamplesOf(file, examples)
    PROVE  IsText(Paragraphs(examples))
<1>1. PICK m \in Nat : DOMAIN examples = 1 .. m /\ \A i \in 1 .. m : examples[i] \in ToSet(file)
  BY DEF ExamplesOf
<1>. DEFINE D == UNION {ToSet(examples[i].context) : i \in 1 .. m}
            ss == [i \in DOMAIN examples |-> examples[i].context]
<1>2. ASSUME NEW i \in 1 .. m PROVE ss[i] \in Seq(D)
  <2>1. ss[i] = examples[i].context /\ examples[i].context \in Seq(ToSet(examples[i].context))
    BY <1>1, HarnessAssumption
  <2>2. ToSet(examples[i].context) \subseteq D
    OBVIOUS
  <2>. HIDE DEF ss, D
  <2>3. Seq(ToSet(examples[i].context)) \subseteq Seq(D)
    BY <2>2
  <2>. QED
    BY <2>1, <2>3
<1>3. ss \in [1 .. m -> Seq(D)]
  <2>1. ss = [i \in 1 .. m |-> ss[i]]
    BY <1>1
  <2>. HIDE DEF ss, D
  <2>. QED
    BY <1>2, <2>1
<1>4. FlattenSeq(ss) \in Seq(D)
  <2>. HIDE DEF ss, D
  <2>. QED
    BY <1>3, FlattenHolds
<1>. QED
  BY <1>4, TextOf DEF Paragraphs

CallFields == {"stage", "examples", "left", "seen", "before", "cold", "scores"}

KeyOfParagraph(paragraph) == KeyOf[paragraph.title]

\* A key this call has seen is indexed with the paragraph it is titled with.
SeenAreTitled ==
    \A key \in call.seen :
        /\ key \in DOMAIN indexed /\ key \in DOMAIN harness.titles
        /\ harness.titles[key] = indexed[key].title

\* A paragraph's key has been seen, or the paragraph is to come.
NothingIsLeftOut ==
    \A i \in DOMAIN Paragraphs(call.examples) :
        \/ KeyOfParagraph(Paragraphs(call.examples)[i]) \in call.seen
        \/ \E k \in DOMAIN call.left : call.left[k] = Paragraphs(call.examples)[i]

\* A call that goes on has a part of a file, and ingests only what was not ingested.
Going ==
    /\ DOMAIN call = CallFields
    /\ call.stage \in {"ingesting", "scoring"}
    /\ call.cold \in BOOLEAN
    /\ IsText(call.left)
    /\ \E file \in Files : ExamplesOf(file, call.examples)
    /\ call.stage = "ingesting" => call.cold /\ ~harness.ingested
    /\ call.stage = "scoring" => /\ harness.ingested
                                 /\ call.cold => reports = <<>> /\ call.left = <<>>
                                 /\ ~call.cold => llmCalls = call.before
    /\ call.cold => SeenAreTitled /\ NothingIsLeftOut

\* Reports are of the one corpus; only the first may be of the run that ingested it.
ReportsAreOfOneCorpus ==
    \A i \in DOMAIN reports :
        /\ reports[i].cold \in BOOLEAN
        /\ reports[i].cold => i = 1
        /\ ~reports[i].cold => reports[i].calls = 0
        /\ reports[i].documents = Cardinality(DOMAIN harness.titles)

HarnessInv ==
    /\ DOMAIN harness = {"ingested", "titles"}
    /\ harness.ingested \in BOOLEAN
    /\ llmCalls \in Nat
    /\ IsText(reports)
    /\ reports # <<>> => harness.ingested
    /\ ReportsAreOfOneCorpus
    /\ call = Idle \/ Going

\* What is in a text is its head or in its tail.
LEMMA TextTail ==
    ASSUME NEW s, IsText(s), s # <<>>
    PROVE  /\ IsText(Tail(s))
           /\ \A k \in DOMAIN s : s[k] = Head(s) \/ \E j \in DOMAIN Tail(s) : Tail(s)[j] = s[k]
<1>1. Tail(s) \in Seq(ToSet(s)) /\ Len(s) \in Nat /\ DOMAIN s = 1 .. Len(s) /\ Head(s) = s[1]
  BY LenProperties, HeadTailProperties DEF IsText
<1>2. Len(Tail(s)) = Len(s) - 1 /\ \A j \in 1 .. Len(Tail(s)) : Tail(s)[j] = s[j + 1]
  BY HeadTailProperties DEF IsText
<1>3. DOMAIN Tail(s) = 1 .. Len(Tail(s))
  BY <1>1, LenProperties
<1>4. ASSUME NEW k \in DOMAIN s, k # 1 PROVE \E j \in DOMAIN Tail(s) : Tail(s)[j] = s[k]
  <2>1. k - 1 \in 1 .. Len(Tail(s)) /\ (k - 1) + 1 = k
    BY <1>1, <1>2, <1>4
  <2>. QED
    BY <1>2, <1>3, <2>1
<1>. QED
  BY <1>1, <1>4, TextOf

\* The invariant holds at first.
LEMMA HarnessStarts == HarnessInit => HarnessInv
<1>1. SUFFICES ASSUME HarnessInit PROVE HarnessInv
  OBVIOUS
<1>2. DOMAIN harness = {"ingested", "titles"} /\ harness.ingested = FALSE
  BY <1>1 DEF HarnessInit
<1>3. reports = <<>> /\ DOMAIN reports = {}
  BY <1>1 DEF HarnessInit
<1>4. IsText(reports)
  BY <1>3 DEF IsText
<1>. QED
  BY <1>1, <1>2, <1>3, <1>4 DEF HarnessInit, HarnessInv, ReportsAreOfOneCorpus

\* What a step leaves alone.
LEMMA SameReports ==
    ASSUME HarnessInv, UNCHANGED reports, DOMAIN harness'.titles = DOMAIN harness.titles \/ reports = <<>>
    PROVE  IsText(reports') /\ ReportsAreOfOneCorpus'
<1>1. DOMAIN <<>> = {}
  OBVIOUS
<1>. QED
  BY <1>1 DEF HarnessInv, ReportsAreOfOneCorpus

\* Each action keeps it.
LEMMA RunKeeps ==
    ASSUME HarnessInv, NEW file \in Files, NEW size \in Sizes, Run(SelectSubset(file, size))
    PROVE  HarnessInv'
<1>. DEFINE examples == SelectSubset(file, size)
<1>1. ExamplesOf(file, examples)
  BY SubsetOfFile
<1>. HIDE DEF examples
<1>2. /\ call' = [stage |-> IF harness.ingested THEN "scoring" ELSE "ingesting",
                examples |-> examples, left |-> Paragraphs(examples), seen |-> {},
                before |-> llmCalls, cold |-> ~harness.ingested, scores |-> <<>>]
      /\ UNCHANGED <<harness, bucket, indexed, llmCalls, answered, reports>>
  BY DEF Run, examples
<1>3. /\ call'.stage = (IF harness.ingested THEN "scoring" ELSE "ingesting")
      /\ call'.examples = examples /\ call'.left = Paragraphs(examples) /\ call'.seen = {}
      /\ call'.before = llmCalls /\ (call'.cold <=> ~harness.ingested)
      /\ call'.cold \in BOOLEAN
      /\ DOMAIN call' = CallFields
  BY <1>2 DEF CallFields
<1>4. IsText(Paragraphs(examples))
  BY <1>1, ParagraphsInOrder
<1>5. SeenAreTitled'
  BY <1>3 DEF SeenAreTitled
<1>6. NothingIsLeftOut'
  BY <1>3 DEF NothingIsLeftOut
<1>7. harness.ingested \in BOOLEAN
  BY DEF HarnessInv
<1>8. Going'
  <2>1. call'.stage = "scoring" => harness.ingested
    BY <1>3
  <2>2. call'.stage = "ingesting" => ~harness.ingested
    BY <1>3
  <2>3. call'.stage \in {"ingesting", "scoring"}
    BY <1>3
  <2>. QED
    BY <1>1, <1>2, <1>3, <1>4, <1>5, <1>6, <2>1, <2>2, <2>3 DEF Going
<1>9. IsText(reports') /\ ReportsAreOfOneCorpus'
  BY <1>2, SameReports
<1>. QED
  BY <1>2, <1>8, <1>9 DEF HarnessInv

\* The head of what is left makes way.
LEMMA NextParagraph ==
    ASSUME HarnessInv, Ingesting, DOMAIN call' = CallFields,
           call'.stage = call.stage, call'.examples = call.examples, call'.cold <=> call.cold,
           call'.cold \in BOOLEAN,
           call'.left = Tail(call.left), call.seen \subseteq call'.seen, NextKey \in call'.seen,
           UNCHANGED reports, harness'.ingested = harness.ingested,
           DOMAIN harness' = DOMAIN harness, llmCalls' \in Nat,
           SeenAreTitled',
           DOMAIN harness'.titles = DOMAIN harness.titles \/ reports = <<>>
    PROVE  HarnessInv'
<1>1. Going /\ call.left # <<>> /\ call.stage = "ingesting"
  BY DEF HarnessInv, Ingesting, Idle
<1>2. /\ IsText(call'.left)
      /\ \A k \in DOMAIN call.left :
            \/ call.left[k] = Head(call.left)
            \/ \E j \in DOMAIN call'.left : call'.left[j] = call.left[k]
  BY <1>1, TextTail DEF Going
<1>3. NothingIsLeftOut'
  <2>1. SUFFICES ASSUME NEW i \in DOMAIN Paragraphs(call.examples),
                        KeyOfParagraph(Paragraphs(call.examples)[i]) \notin call'.seen
        PROVE  \E k \in DOMAIN call'.left : call'.left[k] = Paragraphs(call.examples)[i]
    BY DEF NothingIsLeftOut
  <2>2. PICK k \in DOMAIN call.left : call.left[k] = Paragraphs(call.examples)[i]
    BY <1>1, <2>1 DEF Going, NothingIsLeftOut
  <2>3. call.left[k] # Head(call.left)
    BY <2>1, <2>2 DEF NextKey, KeyOfParagraph
  <2>. QED
    BY <1>2, <2>2, <2>3
<1>4. Going'
  BY <1>1, <1>2, <1>3 DEF Going
<1>5. IsText(reports') /\ ReportsAreOfOneCorpus'
  BY SameReports
<1>. QED
  BY <1>4, <1>5 DEF HarnessInv

LEMMA SkipKeeps == ASSUME HarnessInv, Skip PROVE HarnessInv'
<1>1. Ingesting /\ NextKey \in call.seen /\ call' = [call EXCEPT !.left = Tail(@)]
      /\ UNCHANGED <<harness, bucket, indexed, llmCalls, answered, reports>>
  BY DEF Skip
<1>2. Going
  BY <1>1 DEF HarnessInv, Ingesting, Idle
<1>3. DOMAIN call = CallFields
  BY <1>2 DEF Going
<1>4. /\ DOMAIN call' = CallFields
      /\ call'.stage = call.stage /\ call'.examples = call.examples /\ call'.cold = call.cold
      /\ call'.left = Tail(call.left) /\ call'.seen = call.seen
  BY <1>1, <1>3 DEF CallFields
<1>5. call.cold \in BOOLEAN /\ SeenAreTitled /\ llmCalls \in Nat
  BY <1>1, <1>2 DEF Going, Ingesting, HarnessInv
<1>6. SeenAreTitled'
  BY <1>1, <1>4, <1>5 DEF SeenAreTitled
<1>. QED
  BY <1>1, <1>4, <1>5, <1>6, NextParagraph

\* Calls are counted.
LEMMA CountsCalls == ASSUME NEW text, llmCalls \in Nat, Extracted(text) PROVE llmCalls' \in Nat
  BY DEF Extracted

LEMMA ProcessKeeps == ASSUME HarnessInv, Process PROVE HarnessInv'
<1>. DEFINE next == Head(call.left)
<1>1. /\ Ingesting /\ NextKey \notin call.seen
      /\ indexed' = Stored(indexed, NextKey, next)
      /\ Extracted(next.text)
      /\ harness' = [harness EXCEPT !.titles = Stored(@, NextKey, next.title)]
      /\ call' = [call EXCEPT !.left = Tail(@), !.seen = @ \cup {NextKey}]
      /\ UNCHANGED reports
  BY DEF Process
<1>. HIDE DEF next
<1>2. Going
  BY <1>1 DEF HarnessInv, Ingesting, Idle
<1>3. DOMAIN call = CallFields
  BY <1>2 DEF Going
<1>4. /\ DOMAIN call' = CallFields
      /\ call'.stage = call.stage /\ call'.examples = call.examples /\ call'.cold = call.cold
      /\ call'.left = Tail(call.left) /\ call'.seen = call.seen \cup {NextKey}
  BY <1>1, <1>3 DEF CallFields
<1>5. /\ call.cold \in BOOLEAN /\ SeenAreTitled /\ llmCalls \in Nat /\ ~harness.ingested
      /\ DOMAIN harness = {"ingested", "titles"}
  BY <1>1, <1>2 DEF Going, Ingesting, HarnessInv
<1>6. /\ harness'.titles = Stored(harness.titles, NextKey, next.title)
      /\ harness'.ingested = harness.ingested /\ DOMAIN harness' = DOMAIN harness
  BY <1>1, <1>5
<1>7. SeenAreTitled'
  <2>1. SUFFICES ASSUME NEW key \in call'.seen
        PROVE  /\ key \in DOMAIN indexed' /\ key \in DOMAIN harness'.titles
               /\ harness'.titles[key] = indexed'[key].title
    BY DEF SeenAreTitled
  <2>2. CASE key = NextKey
    BY <1>1, <1>6, <2>2 DEF Stored
  <2>3. CASE key # NextKey
    <3>1. /\ key \in DOMAIN indexed /\ key \in DOMAIN harness.titles
          /\ harness.titles[key] = indexed[key].title
      BY <1>4, <1>5, <2>1, <2>3 DEF SeenAreTitled
    <3>2. key \in DOMAIN indexed' /\ indexed'[key] = indexed[key]
      BY <1>1, <2>3, <3>1 DEF Stored
    <3>3. key \in DOMAIN harness'.titles /\ harness'.titles[key] = harness.titles[key]
      BY <1>6, <2>3, <3>1 DEF Stored
    <3>. QED
      BY <3>1, <3>2, <3>3
  <2>. QED
    BY <2>2, <2>3
<1>8. llmCalls' \in Nat
  BY <1>1, <1>5, CountsCalls
<1>9. reports = <<>>
  BY <1>5 DEF HarnessInv
<1>. QED
  BY <1>1, <1>4, <1>5, <1>6, <1>7, <1>8, <1>9, NextParagraph

\* A call that ends leaves the rest to the next.
LEMMA EndKeeps ==
    ASSUME HarnessInv, call' = Idle, UNCHANGED <<harness, reports>>, llmCalls' \in Nat
    PROVE  HarnessInv'
<1>1. IsText(reports') /\ ReportsAreOfOneCorpus'
  BY SameReports
<1>. QED
  BY <1>1 DEF HarnessInv

LEMMA RaiseKeeps == ASSUME HarnessInv, Raise PROVE HarnessInv'
<1>1. llmCalls \in Nat
  BY DEF HarnessInv
<1>2. llmCalls' = llmCalls \/ Extracted(Head(call.left).text)
  BY DEF Raise
<1>3. llmCalls' \in Nat
  BY <1>1, <1>2, CountsCalls
<1>. QED
  BY <1>3, EndKeeps DEF Raise

LEMMA QueryRaisesKeeps == ASSUME HarnessInv, QueryRaises PROVE HarnessInv'
<1>1. llmCalls' \in Nat
  BY DEF HarnessInv, QueryRaises
<1>. QED
  BY <1>1, EndKeeps DEF QueryRaises

LEMMA IngestedKeeps == ASSUME HarnessInv, Ingested PROVE HarnessInv'
<1>1. /\ call.stage = "ingesting" /\ call.left = <<>>
      /\ harness' = [harness EXCEPT !.ingested = TRUE]
      /\ call' = [call EXCEPT !.stage = "scoring"]
      /\ UNCHANGED <<bucket, indexed, llmCalls, answered, reports>>
  BY DEF Ingested
<1>2. Going
  BY <1>1 DEF HarnessInv, Idle
<1>3. DOMAIN call = CallFields /\ DOMAIN harness = {"ingested", "titles"}
  BY <1>2 DEF Going, HarnessInv
<1>4. /\ DOMAIN call' = CallFields
      /\ call'.stage = "scoring" /\ call'.examples = call.examples /\ call'.cold = call.cold
      /\ call'.left = call.left /\ call'.seen = call.seen
  BY <1>1, <1>3 DEF CallFields
<1>5. /\ harness'.titles = harness.titles /\ harness'.ingested = TRUE
      /\ DOMAIN harness' = {"ingested", "titles"}
  BY <1>1, <1>3
<1>6. call.cold /\ reports = <<>> /\ SeenAreTitled /\ NothingIsLeftOut
  BY <1>1, <1>2 DEF Going, HarnessInv
<1>7. SeenAreTitled'
  BY <1>1, <1>4, <1>5, <1>6 DEF SeenAreTitled
<1>8. NothingIsLeftOut'
  BY <1>1, <1>4, <1>6 DEF NothingIsLeftOut
<1>9. Going'
  <2>1. IsText(call'.left) /\ \E file \in Files : ExamplesOf(file, call'.examples)
    BY <1>2, <1>4 DEF Going
  <2>2. call'.cold = TRUE
    BY <1>2, <1>4, <1>6 DEF Going
  <2>. QED
    BY <1>1, <1>4, <1>5, <1>6, <1>7, <1>8, <2>1, <2>2 DEF Going
<1>10. IsText(reports') /\ ReportsAreOfOneCorpus'
  BY <1>1, <1>6, SameReports
<1>. QED
  BY <1>1, <1>5, <1>9, <1>10 DEF HarnessInv

LEMMA ScoreKeeps == ASSUME HarnessInv, ScoreExample PROVE HarnessInv'
<1>1. call.stage = "scoring" /\ UNCHANGED <<harness, bucket, indexed, llmCalls, answered, reports>>
  BY DEF ScoreExample
<1>2. PICK scores : call' = [call EXCEPT !.scores = scores]
  BY DEF ScoreExample
<1>3. Going
  BY <1>1 DEF HarnessInv, Idle
<1>4. DOMAIN call = CallFields
  BY <1>3 DEF Going
<1>5. /\ DOMAIN call' = CallFields
      /\ call'.stage = call.stage /\ call'.examples = call.examples /\ call'.cold = call.cold
      /\ call'.left = call.left /\ call'.seen = call.seen /\ call'.before = call.before
  BY <1>2, <1>4 DEF CallFields
<1>6. SeenAreTitled' = SeenAreTitled
  BY <1>1, <1>5 DEF SeenAreTitled
<1>7. NothingIsLeftOut' = NothingIsLeftOut
  BY <1>5 DEF NothingIsLeftOut
<1>8. Going'
  BY <1>1, <1>3, <1>5, <1>6, <1>7 DEF Going
<1>9. IsText(reports') /\ ReportsAreOfOneCorpus'
  BY <1>1, SameReports
<1>. QED
  BY <1>1, <1>8, <1>9 DEF HarnessInv

LEMMA ReturnKeeps == ASSUME HarnessInv, Return PROVE HarnessInv'
<1>. DEFINE n == Len(reports)
            last == [documents |-> Cardinality(DOMAIN harness.titles),
                     calls |-> llmCalls - call.before,
                     matches |-> Cardinality({i \in DOMAIN call.scores : call.scores[i].match}),
                     cold |-> call.cold]
<1>1. /\ call.stage = "scoring" /\ reports' = Append(reports, last) /\ call' = Idle
      /\ UNCHANGED <<harness, bucket, indexed, llmCalls, answered>>
  BY DEF Return
<1>2. Going
  BY <1>1 DEF HarnessInv, Idle
<1>3. /\ harness.ingested /\ call.cold \in BOOLEAN /\ llmCalls \in Nat
      /\ call.cold => reports = <<>>
      /\ ~call.cold => llmCalls = call.before
  BY <1>1, <1>2 DEF Going, HarnessInv
<1>4. /\ last.documents = Cardinality(DOMAIN harness.titles)
      /\ last.calls = llmCalls - call.before /\ last.cold = call.cold
  OBVIOUS
<1>. HIDE DEF last
<1>5. n \in Nat /\ DOMAIN reports = 1 .. n
  BY LenProperties DEF HarnessInv, IsText
<1>. DEFINE D == ToSet(reports) \cup {last}
<1>6. reports \in Seq(D) /\ last \in D
  <2>1. reports \in Seq(ToSet(reports)) /\ ToSet(reports) \subseteq D
    BY DEF HarnessInv, IsText
  <2>. HIDE DEF D
  <2>2. Seq(ToSet(reports)) \subseteq Seq(D)
    BY <2>1
  <2>. QED
    BY <2>1, <2>2 DEF D
<1>. HIDE DEF D
<1>7. /\ reports' \in Seq(D) /\ Len(reports') = n + 1
      /\ \A i \in 1 .. n : reports'[i] = reports[i]
      /\ reports'[n + 1] = last
  BY <1>1, <1>6, AppendProperties
<1>8. IsText(reports') /\ DOMAIN reports' = 1 .. n + 1
  BY <1>5, <1>7, TextOf, LenProperties
<1>9. ReportsAreOfOneCorpus'
  <2>1. SUFFICES ASSUME NEW i \in 1 .. n + 1
        PROVE  /\ reports'[i].cold \in BOOLEAN
               /\ reports'[i].cold => i = 1
               /\ ~reports'[i].cold => reports'[i].calls = 0
               /\ reports'[i].documents = Cardinality(DOMAIN harness.titles)
    BY <1>1, <1>8 DEF ReportsAreOfOneCorpus
  <2>2. CASE i = n + 1
    <3>1. reports'[i] = last
      BY <1>7, <2>2
    <3>2. reports = <<>> => n = 0
      OBVIOUS
    <3>3. ~call.cold => llmCalls - call.before = 0
      BY <1>3
    <3>. HIDE DEF n
    <3>. QED
      BY <1>3, <1>4, <2>2, <3>1, <3>2, <3>3
  <2>3. CASE i \in 1 .. n
    <3>1. reports'[i] = reports[i] /\ i \in DOMAIN reports
      BY <1>5, <1>7, <2>3
    <3>. QED
      BY <3>1 DEF HarnessInv, ReportsAreOfOneCorpus
  <2>. QED
    BY <1>5, <2>2, <2>3
<1>. QED
  BY <1>1, <1>3, <1>8, <1>9 DEF HarnessInv

\* Every step keeps the invariant.
LEMMA HarnessStep == ASSUME HarnessInv, [RunHarness]_harnessVars PROVE HarnessInv'
<1>1. CASE UNCHANGED harnessVars
  BY <1>1 DEF harnessVars, HarnessInv, Going, SeenAreTitled, NothingIsLeftOut,
     ReportsAreOfOneCorpus, IsText
<1>2. CASE \E file \in Files, size \in Sizes : Run(SelectSubset(file, size))
  BY <1>2, RunKeeps
<1>. QED
  BY <1>1, <1>2, SkipKeeps, ProcessKeeps, RaiseKeeps, IngestedKeeps, ScoreKeeps, QueryRaisesKeeps,
     ReturnKeeps DEF RunHarness

\* The harness keeps track of what it ingested, for any files, subsets, keys and answers.
THEOREM HarnessInvHolds == HarnessSpec => []HarnessInv
  BY HarnessStarts, HarnessStep, PTL DEF HarnessSpec

\* What the invariant says of titles, of reports and of answers.
LEMMA TitlesAreRight == ASSUME HarnessInv PROVE TitlesMatchTexts
<1>1. SUFFICES ASSUME call.stage = "scoring", call.cold
      PROVE  /\ \A i \in DOMAIN Paragraphs(call.examples) :
                   KeyOf[Paragraphs(call.examples)[i].title] \in DOMAIN indexed
             /\ \A key \in call.seen : harness.titles[key] = indexed[key].title
  BY DEF TitlesMatchTexts
<1>2. Going
  BY <1>1 DEF HarnessInv, Idle
<1>3. SeenAreTitled /\ NothingIsLeftOut /\ call.left = <<>>
  BY <1>1, <1>2 DEF Going
<1>4. DOMAIN call.left = {}
  BY <1>3
<1>5. \A i \in DOMAIN Paragraphs(call.examples) :
         KeyOf[Paragraphs(call.examples)[i].title] \in call.seen
  BY <1>3, <1>4 DEF NothingIsLeftOut, KeyOfParagraph
<1>. QED
  BY <1>3, <1>5 DEF SeenAreTitled

\* Reports are of one corpus.
LEMMA ReportsAreRight == ASSUME HarnessInv PROVE LaterRunsAreFree
<1>1. SUFFICES ASSUME NEW i \in DOMAIN reports
      PROVE  /\ reports[i].cold => i = 1
             /\ ~reports[i].cold => reports[i].calls = 0
             /\ reports[i].documents = reports[1].documents
  BY DEF LaterRunsAreFree
<1>2. Len(reports) \in Nat /\ DOMAIN reports = 1 .. Len(reports)
  BY LenProperties DEF HarnessInv, IsText
<1>3. 1 \in DOMAIN reports
  BY <1>2
<1>. QED
  BY <1>1, <1>3 DEF HarnessInv, ReportsAreOfOneCorpus

\* Answers are scored by metrics that agree.
LEMMA MetricsAreRight == ASSUME HarnessInv PROVE MetricsAgree
<1>1. SUFFICES ASSUME call.stage = "scoring", NEW i \in DOMAIN call.examples, NEW p \in Predictions
      PROVE  MetricsAgreeOn(p, call.examples[i].golds)
  BY DEF MetricsAgree, MetricsAgreeOn, Alike
<1>2. Going
  BY <1>1 DEF HarnessInv, Idle
<1>3. PICK file \in Files : call.examples[i] \in ToSet(file)
  BY <1>2 DEF Going, ExamplesOf
<1>4. /\ IsText(p) /\ IsFiniteSet(call.examples[i].golds)
      /\ \A g \in call.examples[i].golds : IsText(g)
  BY <1>3, HarnessAssumption DEF IsText
<1>. QED
  BY <1>4, MetricsAgreeAlways

\* One ingest feeds every later run, every key is titled with the paragraph indexed under it, and
\* the metrics of any answer agree, for any files, subsets, keys, answers and number of runs.
THEOREM HarnessIsAlwaysWarm == HarnessSpec => []HarnessIsWarm
<1>1. HarnessInv => HarnessIsWarm
  BY TitlesAreRight, ReportsAreRight, MetricsAreRight DEF HarnessIsWarm
<1>. QED
  BY <1>1, HarnessInvHolds, PTL

(***************************************************************************)
(* A model that writes, and what it is paid for.                           *)
(***************************************************************************)

\* what is kept and what a document is to be written from is valid
RepliesAreValid ==
    /\ \A j \in Jobs : thread[j] \in {"storing", "written"} => Valid(reply[j], PromptOf(j))
    /\ \A j \in Jobs : cache[PromptOf(j)] # NoReply => Valid(cache[PromptOf(j)], PromptOf(j))

\* A document is paid for once and its reply is kept or about to be; a thread that calls has not
\* paid, nor has a namesake's before this run; and one that stores what nobody kept paid in it.
PaidForOnce(j) ==
    /\ paid[j] # <<>> => paid[j] = <<paid[j][1]>> /\ (thread[j] = "storing" \/ cache[PromptOf(j)] # NoReply)
    /\ thread[j] = "storing" /\ cache[PromptOf(j)] = NoReply => paid[j] = <<runs>>
    /\ thread[j] = "calling" => paid[j] = <<>>

PaidTogether(i, j) ==
    PromptOf(i) = PromptOf(j) =>
        /\ paid[i] # <<>> /\ paid[j] # <<>> => paid[i] = paid[j]
        /\ thread[j] = "calling" /\ paid[i] # <<>> => paid[i] = <<runs>>

LlmTypes ==
    /\ cache = [p \in {PromptOf(j) : j \in Jobs} |-> cache[p]] /\ reply = [j \in Jobs |-> reply[j]]
    /\ thread = [j \in Jobs |-> thread[j]] /\ paid = [j \in Jobs |-> paid[j]]

LlmInv ==
    /\ LlmTypes /\ RepliesAreValid
    /\ \A j \in Jobs : PaidForOnce(j)
    /\ \A i, j \in Jobs : PaidTogether(i, j)

\* prompts and what is valid for them stay the same
SamePrompts == (\A j : PromptOf(j)' = PromptOf(j)) /\ \A a, p : Valid(a, p)' <=> Valid(a, p)

LEMMA PromptsStay == ASSUME UNCHANGED <<orders, style>> PROVE SamePrompts
  BY DEF SamePrompts, PromptOf, Valid

\* A thread that goes to a stage where it neither calls nor has a reply to store.
LEMMA ThreadRests ==
    ASSUME LlmInv, SamePrompts, NEW j \in Jobs, NEW stage,
           stage \notin {"calling", "storing", "written"}, thread[j] # "storing",
           thread' = [thread EXCEPT ![j] = stage], UNCHANGED <<cache, reply, runs, paid>>
    PROVE  LlmInv'
<1>1. LlmTypes'
  BY DEF LlmInv, LlmTypes, SamePrompts
<1>2. thread'[j] = stage /\ \A i \in Jobs : i # j => thread'[i] = thread[i]
  BY DEF LlmInv, LlmTypes
<1>3. RepliesAreValid'
  BY <1>2 DEF LlmInv, RepliesAreValid, SamePrompts
<1>4. \A i \in Jobs : PaidForOnce(i)'
  BY <1>2 DEF LlmInv, PaidForOnce, SamePrompts
<1>5. \A i, k \in Jobs : PaidTogether(i, k)'
  BY <1>2 DEF LlmInv, PaidTogether, SamePrompts
<1>. QED
  BY <1>1, <1>3, <1>4, <1>5 DEF LlmInv

\* A thread that accepts a cached reply is about to store what is kept.
LEMMA LookUpKeeps == ASSUME LlmInv, SamePrompts, NEW j \in Jobs, LookUp(j) PROVE LlmInv'
<1>1. thread[j] = "looking" /\ UNCHANGED <<orders, cache, runs, paid>>
  BY DEF LookUp
<1>2. CASE Goes(j, "rejected") /\ UNCHANGED reply
  BY <1>1, <1>2, ThreadRests DEF Goes
<1>3. CASE /\ cache[PromptOf(j)] # NoReply /\ Valid(cache[PromptOf(j)], PromptOf(j))
           /\ Goes(j, "storing") /\ reply' = [reply EXCEPT ![j] = cache[PromptOf(j)]]
  <2>1. /\ thread'[j] = "storing" /\ \A i \in Jobs : i # j => thread'[i] = thread[i]
        /\ reply'[j] = cache[PromptOf(j)] /\ \A i \in Jobs : i # j => reply'[i] = reply[i]
    BY <1>3 DEF LlmInv, LlmTypes, Goes
  <2>2. LlmTypes'
    BY <1>1, <1>3 DEF LlmInv, LlmTypes, SamePrompts, Goes
  <2>3. RepliesAreValid'
    BY <1>1, <1>3, <2>1 DEF LlmInv, RepliesAreValid, SamePrompts
  <2>4. \A i \in Jobs : PaidForOnce(i)'
    BY <1>1, <1>3, <2>1 DEF LlmInv, PaidForOnce, SamePrompts
  <2>5. \A i, k \in Jobs : PaidTogether(i, k)'
    BY <1>1, <2>1 DEF LlmInv, PaidTogether, SamePrompts
  <2>. QED
    BY <2>2, <2>3, <2>4, <2>5 DEF LlmInv
<1>4. CASE cache[PromptOf(j)] = NoReply /\ Goes(j, "calling") /\ UNCHANGED reply
  <2>1. thread'[j] = "calling" /\ \A i \in Jobs : i # j => thread'[i] = thread[i]
    BY <1>4 DEF LlmInv, LlmTypes, Goes
  <2>2. LlmTypes'
    BY <1>1, <1>4 DEF LlmInv, LlmTypes, SamePrompts, Goes
  <2>3. RepliesAreValid'
    BY <1>1, <1>4, <2>1 DEF LlmInv, RepliesAreValid, SamePrompts
  <2>4. paid[j] = <<>>
    BY <1>1, <1>4 DEF LlmInv, PaidForOnce
  <2>5. \A i \in Jobs : PromptOf(i) = PromptOf(j) /\ paid[i] # <<>> => paid[i] = <<runs>>
    BY <1>4 DEF LlmInv, PaidForOnce
  <2>6. \A i \in Jobs : PaidForOnce(i)'
    BY <1>1, <2>1, <2>4 DEF LlmInv, PaidForOnce, SamePrompts
  <2>7. ASSUME NEW i \in Jobs, NEW k \in Jobs PROVE PaidTogether(i, k)'
    <3>1. PaidTogether(i, k)
      BY DEF LlmInv
    <3>2. CASE k = j
      BY <1>1, <2>1, <2>4, <2>5, <3>2 DEF PaidTogether, SamePrompts
    <3>3. CASE k # j
      BY <1>1, <2>1, <3>1, <3>3 DEF PaidTogether, SamePrompts
    <3>. QED
      BY <3>2, <3>3
  <2>. QED
    BY <2>2, <2>3, <2>6, <2>7 DEF LlmInv
<1>. QED
  BY <1>2, <1>3, <1>4 DEF LookUp, Accept

\* A valid answer is paid for in this run, in which whoever paid for the same prompt did too.
LEMMA AnswerKeeps == ASSUME LlmInv, SamePrompts, NEW j \in Jobs, Answer(j) PROVE LlmInv'
<1>1. thread[j] = "calling" /\ UNCHANGED <<orders, cache, runs>>
  BY DEF Answer
<1>2. PICK answer \in Replies \cup {NoReply} :
        /\ Accept(j, answer)
        /\ paid' = IF Valid(answer, PromptOf(j)) THEN [paid EXCEPT ![j] = Append(@, runs)] ELSE paid
  BY DEF Answer
<1>3. paid[j] = <<>>
  BY <1>1 DEF LlmInv, PaidForOnce
<1>4. CASE ~Valid(answer, PromptOf(j))
  BY <1>1, <1>2, <1>4, ThreadRests DEF Accept, Goes
<1>5. CASE Valid(answer, PromptOf(j))
  <2>1. /\ thread' = [thread EXCEPT ![j] = "storing"] /\ reply' = [reply EXCEPT ![j] = answer]
        /\ paid' = [paid EXCEPT ![j] = <<runs>>]
    BY <1>2, <1>3, <1>5 DEF Accept, Goes
  <2>2. /\ thread'[j] = "storing" /\ \A i \in Jobs : i # j => thread'[i] = thread[i]
        /\ reply'[j] = answer /\ \A i \in Jobs : i # j => reply'[i] = reply[i]
        /\ paid'[j] = <<runs>> /\ \A i \in Jobs : i # j => paid'[i] = paid[i]
    BY <2>1 DEF LlmInv, LlmTypes
  <2>3. LlmTypes'
    BY <1>1, <2>1 DEF LlmInv, LlmTypes, SamePrompts
  <2>4. RepliesAreValid'
    BY <1>1, <1>5, <2>2 DEF LlmInv, RepliesAreValid, SamePrompts
  <2>5. \A i \in Jobs : PaidForOnce(i)'
    BY <1>1, <2>2 DEF LlmInv, PaidForOnce, SamePrompts
  <2>6. \A i \in Jobs : PromptOf(i) = PromptOf(j) /\ paid[i] # <<>> => paid[i] = <<runs>>
    BY <1>1 DEF LlmInv, PaidTogether
  <2>7. ASSUME NEW i \in Jobs, NEW k \in Jobs PROVE PaidTogether(i, k)'
    <3>1. PaidTogether(i, k)
      BY DEF LlmInv
    <3>2. CASE i = j
      <4>1. paid'[i] = <<runs>> /\ (PromptOf(i) = PromptOf(k) /\ paid'[k] # <<>> => paid'[k] = <<runs>>)
        BY <2>2, <2>6, <3>2
      <4>. QED
        BY <1>1, <4>1 DEF PaidTogether, SamePrompts
    <3>3. CASE i # j /\ k = j
      BY <1>1, <2>2, <2>6, <3>3 DEF PaidTogether, SamePrompts
    <3>4. CASE i # j /\ k # j
      BY <1>1, <2>2, <3>1, <3>4 DEF PaidTogether, SamePrompts
    <3>. QED
      BY <3>2, <3>3, <3>4
  <2>. QED
    BY <2>3, <2>4, <2>5, <2>7 DEF LlmInv
<1>. QED
  BY <1>4, <1>5

\* What is kept for a prompt is valid, whoever keeps it.
LEMMA KeepingKeeps == ASSUME LlmInv, SamePrompts, NEW j \in Jobs, KeepReply(j) PROVE LlmInv'
<1>. DEFINE p == PromptOf(j)
<1>1. /\ thread[j] = "storing" /\ UNCHANGED <<orders, reply, runs, paid>>
      /\ thread' = [thread EXCEPT ![j] = "written"] /\ cache' = [cache EXCEPT ![p] = reply[j]]
  BY DEF KeepReply, Goes
<1>2. Valid(reply[j], p) /\ reply[j] # NoReply
  BY <1>1 DEF LlmInv, RepliesAreValid, Valid
<1>3. p \in {PromptOf(i) : i \in Jobs}
  OBVIOUS
<1>. HIDE DEF p
<1>4. thread'[j] = "written" /\ \A i \in Jobs : i # j => thread'[i] = thread[i]
  BY <1>1 DEF LlmInv, LlmTypes
<1>5. \A i \in Jobs : cache'[PromptOf(i)] = IF PromptOf(i) = p THEN reply[j] ELSE cache[PromptOf(i)]
  BY <1>1, <1>3 DEF LlmInv, LlmTypes
<1>6. PromptOf(j) = p
  BY DEF p
<1>7. LlmTypes'
  <2>1. {PromptOf(i) : i \in Jobs}' = {PromptOf(i) : i \in Jobs}
    BY <1>1 DEF SamePrompts
  <2>2. cache' = [q \in {PromptOf(i) : i \in Jobs} |-> cache'[q]]
    BY <1>1 DEF LlmInv, LlmTypes
  <2>3. thread' = [i \in Jobs |-> thread'[i]]
    BY <1>1 DEF LlmInv, LlmTypes
  <2>4. UNCHANGED <<reply, paid>>
    BY <1>1
  <2>5. reply' = [i \in Jobs |-> reply'[i]] /\ paid' = [i \in Jobs |-> paid'[i]]
    BY <2>4 DEF LlmInv, LlmTypes
  <2>. QED
    BY <2>1, <2>2, <2>3, <2>5 DEF LlmTypes
<1>8. RepliesAreValid'
  BY <1>1, <1>2, <1>4, <1>5 DEF LlmInv, RepliesAreValid, SamePrompts
<1>9. \A i \in Jobs : PaidForOnce(i)'
  BY <1>1, <1>2, <1>4, <1>5, <1>6 DEF LlmInv, PaidForOnce, SamePrompts
<1>10. \A i, k \in Jobs : PaidTogether(i, k)'
  BY <1>1, <1>4 DEF LlmInv, PaidTogether, SamePrompts
<1>. QED
  BY <1>7, <1>8, <1>9, <1>10 DEF LlmInv

\* A run that starts again: whatever was paid for is kept.
LEMMA AgainKeepsReplies == ASSUME LlmInv, SamePrompts, Again PROVE LlmInv'
<1>1. \A j \in Jobs : thread[j] \notin {"storing"} /\ thread'[j] = "queued"
  BY DEF Again, RunIsOver, Asking
<1>2. UNCHANGED <<cache, paid>>
  BY DEF Again
<1>3. LlmTypes'
  BY <1>2 DEF LlmInv, LlmTypes, SamePrompts, Again
<1>4. RepliesAreValid'
  BY <1>1, <1>2 DEF LlmInv, RepliesAreValid, SamePrompts
<1>5. \A j \in Jobs : PaidForOnce(j)'
  BY <1>1, <1>2 DEF LlmInv, PaidForOnce, SamePrompts
<1>6. \A i, j \in Jobs : PaidTogether(i, j)'
  BY <1>1, <1>2 DEF LlmInv, PaidTogether, SamePrompts
<1>. QED
  BY <1>3, <1>4, <1>5, <1>6 DEF LlmInv

\* Cancelling touches only threads that have not started.
LEMMA CancelKeepsReplies == ASSUME LlmInv, SamePrompts, Cancel PROVE LlmInv'
<1>1. /\ UNCHANGED <<cache, reply, runs, paid>>
      /\ thread' = [j \in Jobs |-> IF j \in Queued THEN "cancelled" ELSE thread[j]]
  BY DEF Cancel
<1>2. \A j \in Jobs : \/ thread'[j] = thread[j]
                      \/ thread'[j] = "cancelled" /\ thread[j] = "queued"
  BY <1>1 DEF Queued
<1>3. LlmTypes'
  BY <1>1 DEF LlmInv, LlmTypes, SamePrompts
<1>4. RepliesAreValid'
  BY <1>1, <1>2 DEF LlmInv, RepliesAreValid, SamePrompts
<1>5. \A j \in Jobs : PaidForOnce(j)'
  BY <1>1, <1>2 DEF LlmInv, PaidForOnce, SamePrompts
<1>6. \A i, j \in Jobs : PaidTogether(i, j)'
  BY <1>1, <1>2 DEF LlmInv, PaidTogether, SamePrompts
<1>. QED
  BY <1>3, <1>4, <1>5, <1>6 DEF LlmInv

\* Every step keeps it.
LEMMA LlmStep ==
    ASSUME LlmInv, [WriteByModel]_<<documentVars, llmVars>>
    PROVE  LlmInv'
<1>1. UNCHANGED <<orders, style>>
  BY DEF WriteByModel, Deliver, documentVars, llmVars, Take, LookUp, Answer, KeepReply, Cancel, Again
<1>2. SamePrompts
  BY <1>1, PromptsStay
<1>3. CASE UNCHANGED llmVars
  <2>1. UNCHANGED <<cache, thread, reply, runs, paid>>
    BY <1>3 DEF llmVars
  <2>2. LlmTypes'
    BY <1>2, <2>1 DEF LlmInv, LlmTypes, SamePrompts
  <2>3. RepliesAreValid'
    BY <1>2, <2>1 DEF LlmInv, RepliesAreValid, SamePrompts
  <2>4. \A j \in Jobs : PaidForOnce(j)'
    BY <1>2, <2>1 DEF LlmInv, PaidForOnce, SamePrompts
  <2>5. \A i, j \in Jobs : PaidTogether(i, j)'
    BY <1>2, <2>1 DEF LlmInv, PaidTogether, SamePrompts
  <2>. QED
    BY <2>2, <2>3, <2>4, <2>5 DEF LlmInv
<1>4. ASSUME NEW j \in Jobs, Take(j) PROVE LlmInv'
  <2>1. thread[j] = "queued"
    BY <1>4 DEF Take, Queued
  <2>. QED
    BY <1>2, <1>4, <2>1, ThreadRests DEF Take, Goes
<1>5. ASSUME NEW j \in Jobs, LookUp(j) \/ Answer(j) \/ KeepReply(j) PROVE LlmInv'
  BY <1>2, <1>5, LookUpKeeps, AnswerKeeps, KeepingKeeps
<1>6. CASE Cancel
  BY <1>2, <1>6, CancelKeepsReplies
<1>7. CASE Again
  BY <1>2, <1>7, AgainKeepsReplies
<1>. QED
  BY <1>3, <1>4, <1>5, <1>6, <1>7 DEF WriteByModel, Deliver, documentVars, llmVars

\* What a run pays for is valid and is kept, and is what documents with the same prompt are written
\* from, for any replies, threads and number of runs (render_documents_llm).
THEOREM LlmInvHolds == LlmSpec => []LlmInv
<1>1. LlmInit => LlmInv
  BY DEF LlmInit, LlmInv, LlmTypes, RepliesAreValid, PaidForOnce, PaidTogether
<1>. QED
  BY <1>1, LlmStep, PTL DEF LlmSpec

\* No document is paid for twice, and what several pay for the same prompt they pay in one run.
THEOREM NothingIsEverAskedTwice == LlmSpec => []NothingIsAskedTwice
<1>1. LlmInv => NothingIsAskedTwice
  <2>1. SUFFICES ASSUME LlmInv, NEW i \in Jobs, NEW j \in Jobs
        PROVE  /\ Len(paid[j]) <= 1
               /\ \A m \in DOMAIN paid[i], n \in DOMAIN paid[j] :
                     PromptOf(i) = PromptOf(j) => paid[i][m] = paid[j][n]
    BY DEF NothingIsAskedTwice
  <2>2. \A k \in Jobs : paid[k] = <<>> \/ paid[k] = <<paid[k][1]>>
    BY <2>1 DEF LlmInv, PaidForOnce
  <2>3. Len(paid[j]) <= 1
    <3>1. CASE paid[j] = <<>>
      BY <3>1
    <3>2. CASE paid[j] # <<>>
      <4>. DEFINE x == paid[j][1]
      <4>1. paid[j] = <<x>>
        BY <2>2, <3>2
      <4>. HIDE DEF x
      <4>. QED
        BY <4>1
    <3>. QED
      BY <3>1, <3>2
  <2>4. \A k \in Jobs : \A m \in DOMAIN paid[k] : m = 1 /\ paid[k] # <<>>
    BY <2>2
  <2>5. PromptOf(i) = PromptOf(j) /\ paid[i] # <<>> /\ paid[j] # <<>> => paid[i] = paid[j]
    BY <2>1 DEF LlmInv, PaidTogether
  <2>. QED
    BY <2>3, <2>4, <2>5
<1>. QED
  BY <1>1, LlmInvHolds, PTL

(***************************************************************************)
(* What was asked is asked again, and answered alike.                      *)
(***************************************************************************)

\* the verdicts some rows were given on a prompt
VerdictsOn(rows, got, p) == UNION {{got[r][k] : k \in {i \in DOMAIN got[r] : rows[r][i] = p}} : r \in DOMAIN got}

\* in this run, and in the one that was last reported, where there was one
SoFar(c) == [r \in DOMAIN c.rows |-> c.threads[r].got]
On(c, p) == VerdictsOn(c.rows, SoFar(c), p)
Prior(c, p) == IF c.reports = <<>> THEN {} ELSE VerdictsOn(c.rows, Last(c.reports), p) \ {None}

\* the prompt a thread is at
At(c, r) == c.rows[r][Len(c.threads[r].got) + 1]
Outcomes(p) == {Read(p, a) : a \in Endpoint(p)}

Working == {"queued", "between", "asked", "keeping"}
Replied == {"asked", "keeping"}

Askable(rows) ==
    /\ rows \in Seq(ToSet(rows))
    /\ \A r \in DOMAIN rows : rows[r] \in Seq(ToSet(rows[r])) \ {<<>>}

\* a thread goes through its row in order
InOrderOf(t, row) ==
    /\ t = [stage |-> t.stage, got |-> t.got, answer |-> t.answer]
    /\ t.got \in Seq(ToSet(t.got)) /\ Len(t.got) <= Len(row)
    /\ t.stage \in Working => Len(t.got) < Len(row)
    /\ t.stage = "done" => Len(t.got) = Len(row)

\* The batch, its threads and the reports, of runs that went through every row.
WellMade(c) ==
    /\ c = [rows |-> c.rows, threads |-> c.threads, kept |-> c.kept, live |-> c.live,
            attempt |-> c.attempt, reports |-> c.reports]
    /\ Askable(c.rows)
    /\ c.threads = [r \in DOMAIN c.rows |-> c.threads[r]]
    /\ \A r \in DOMAIN c.rows : InOrderOf(c.threads[r], c.rows[r])
    /\ c.reports \in Seq(ToSet(c.reports))
    /\ c.reports # <<>> =>
        /\ DOMAIN Last(c.reports) = DOMAIN c.rows
        /\ \A r \in DOMAIN c.rows : DOMAIN Last(c.reports)[r] = DOMAIN c.rows[r]

\* What is read and kept is what the model replied.
FromTheModel(c) ==
    /\ \A p \in DOMAIN c.kept : c.kept[p] \in Endpoint(p)
    /\ \A r \in DOMAIN c.rows : c.threads[r].stage \in Replied => c.threads[r].answer \in Endpoint(At(c, r))
    /\ \A r \in DOMAIN c.rows : \A k \in DOMAIN c.threads[r].got :
          c.threads[r].got[k] \in Outcomes(c.rows[r][k])

\* nothing has been made of what was kept before the run
Untouched(c, p) ==
    /\ On(c, p) = {}
    /\ \A r \in DOMAIN c.rows : c.threads[r].stage \in Replied /\ At(c, r) = p =>
          c.threads[r].stage = "asked" /\ c.threads[r].answer = c.kept[p]

\* What is kept can be read, and reads as some row has it; what a row could read is kept.
KeptIsRead(c) ==
    /\ \A p \in DOMAIN c.kept :
          /\ Read(p, c.kept[p]) # None
          /\ Read(p, c.kept[p]) \in On(c, p) \/ Untouched(c, p)
    /\ \A r \in DOMAIN c.rows : \A k \in DOMAIN c.threads[r].got :
          c.threads[r].got[k] # None => c.rows[r][k] \in DOMAIN c.kept
    /\ \A r \in DOMAIN c.rows : c.threads[r].stage = "keeping" => Read(At(c, r), c.threads[r].answer) # None

Complete(report) == \A r \in DOMAIN report : \A k \in DOMAIN report[r] : report[r][k] # None

\* A prompt that was reported is kept, and is read as it was reported.
Replayed(c) ==
    /\ \A r \in DOMAIN c.rows : \A k \in DOMAIN c.rows[r] : Prior(c, c.rows[r][k]) # {} =>
          /\ c.rows[r][k] \in DOMAIN c.kept
          /\ Read(c.rows[r][k], c.kept[c.rows[r][k]]) \in Prior(c, c.rows[r][k])
    /\ \A r \in DOMAIN c.rows : c.threads[r].stage \in Replied /\ Prior(c, At(c, r)) # {} =>
          c.threads[r].stage = "asked" /\ Read(At(c, r), c.threads[r].answer) \in Prior(c, At(c, r))
    /\ \A r \in DOMAIN c.rows : \A k \in DOMAIN c.threads[r].got : Prior(c, c.rows[r][k]) # {} =>
          c.threads[r].got[k] \in Prior(c, c.rows[r][k])
    /\ c.reports # <<>> /\ Complete(Last(c.reports)) =>
          \A r \in DOMAIN c.rows : c.threads[r].stage # "failed"

Consistent(c) == WellMade(c) /\ FromTheModel(c) /\ KeptIsRead(c) /\ Replayed(c)

\* one thread is somewhere else, and something else is kept
Moved(c, r, t, kept) ==
    [rows |-> c.rows, threads |-> [c.threads EXCEPT ![r] = t], kept |-> kept, live |-> c.live,
     attempt |-> c.attempt, reports |-> c.reports]

Thread(stage, got, answer) == [stage |-> stage, got |-> got, answer |-> answer]

SamePast(c, d) == \A p : Prior(d, p) = Prior(c, p)
SamePlaces(c, d, r) == \A x \in DOMAIN c.rows : x # r => d.threads[x] = c.threads[x] /\ At(d, x) = At(c, x)

MoveLeft(c, d, r, t, kept) ==
    /\ d.rows = c.rows /\ d.kept = kept /\ d.reports = c.reports /\ d.threads[r] = t
    /\ d.threads = [x \in DOMAIN d.rows |-> d.threads[x]]
    /\ d = [rows |-> d.rows, threads |-> d.threads, kept |-> d.kept, live |-> d.live,
            attempt |-> d.attempt, reports |-> d.reports]
    /\ SamePast(c, d) /\ SamePlaces(c, d, r)

\* What a move leaves as it was.
LEMMA MoveLeaves ==
    ASSUME NEW c, WellMade(c), NEW r \in DOMAIN c.rows, NEW t, NEW kept, NEW d,
           d = Moved(c, r, t, kept)
    PROVE  MoveLeft(c, d, r, t, kept)
<1>1. /\ d.rows = c.rows /\ d.kept = kept /\ d.reports = c.reports
      /\ d.threads = [c.threads EXCEPT ![r] = t]
  BY DEF Moved
<1>2. /\ d.threads[r] = t /\ d.threads = [x \in DOMAIN d.rows |-> d.threads[x]]
      /\ \A x \in DOMAIN c.rows : x # r => d.threads[x] = c.threads[x]
  BY <1>1 DEF WellMade
<1>3. SamePast(c, d)
  BY <1>1 DEF SamePast, Prior
<1>4. SamePlaces(c, d, r)
  BY <1>1, <1>2 DEF SamePlaces, At
<1>5. d = [rows |-> d.rows, threads |-> d.threads, kept |-> d.kept, live |-> d.live,
           attempt |-> d.attempt, reports |-> d.reports]
  BY DEF Moved
<1>. QED
  BY <1>1, <1>2, <1>3, <1>4, <1>5 DEF MoveLeft

\* thread r goes to another stage with an answer that it can have there, and gets nothing more
Waits(c, r, stage, answer, d) ==
    /\ stage \in {"asked", "keeping", "failed"}
    /\ d = Moved(c, r, Thread(stage, c.threads[r].got, answer), c.kept)
    /\ stage \in Replied => answer \in Endpoint(At(c, r))
    /\ stage = "keeping" => Read(At(c, r), answer) # None
    /\ At(c, r) \in DOMAIN c.kept => \/ stage = "asked" /\ answer = c.kept[At(c, r)]
                                     \/ stage = "failed" /\ Prior(c, At(c, r)) = {}

\* A thread that got nothing more: one that asks, fails, or is about to keep a reply.
LEMMA QuietMove ==
    ASSUME NEW c, Consistent(c), NEW r \in DOMAIN c.rows, c.threads[r].stage \in Working,
           NEW stage, NEW answer, NEW d, Waits(c, r, stage, answer, d)
    PROVE  Consistent(d)
<1>. DEFINE p == At(c, r)
            t == Thread(stage, c.threads[r].got, answer)
<1>1. WellMade(c) /\ FromTheModel(c) /\ KeptIsRead(c) /\ Replayed(c)
  BY DEF Consistent
<1>2. /\ d.rows = c.rows /\ d.kept = c.kept /\ d.reports = c.reports /\ d.threads[r] = t
      /\ d.threads = [x \in DOMAIN d.rows |-> d.threads[x]]
      /\ d = [rows |-> d.rows, threads |-> d.threads, kept |-> d.kept, live |-> d.live,
              attempt |-> d.attempt, reports |-> d.reports]
      /\ SamePast(c, d) /\ SamePlaces(c, d, r)
  <2>1. d = Moved(c, r, t, c.kept)
    BY DEF Waits
  <2>. HIDE DEF t
  <2>2. MoveLeft(c, d, r, t, c.kept)
    BY <1>1, <2>1, MoveLeaves
  <2>. QED
    BY <2>2 DEF MoveLeft
<1>3. t.stage = stage /\ t.got = c.threads[r].got /\ t.answer = answer
  BY DEF Thread
<1>4. At(d, r) = p
  BY <1>2, <1>3 DEF At
<1>5. \A x \in DOMAIN c.rows : d.threads[x].got = c.threads[x].got /\ At(d, x) = At(c, x)
  BY <1>2, <1>3, <1>4 DEF SamePlaces
<1>6. \A x \in DOMAIN c.rows : x # r => d.threads[x] = c.threads[x]
  BY <1>2 DEF SamePlaces
<1>7. \A q : On(d, q) = On(c, q)
  <2>1. SoFar(d) = SoFar(c)
    BY <1>2, <1>5 DEF SoFar
  <2>. QED
    BY <1>2, <2>1 DEF On
<1>8. \A q : Prior(d, q) = Prior(c, q)
  BY <1>2 DEF SamePast
<1>9. p \in ToSet(c.rows[r]) /\ Len(c.threads[r].got) + 1 \in DOMAIN c.rows[r]
  <2>1. /\ c.rows[r] \in Seq(ToSet(c.rows[r])) /\ c.threads[r].got \in Seq(ToSet(c.threads[r].got))
        /\ Len(c.threads[r].got) < Len(c.rows[r])
    BY <1>1 DEF WellMade, Askable, InOrderOf
  <2>2. /\ Len(c.threads[r].got) \in Nat /\ Len(c.rows[r]) \in Nat
        /\ DOMAIN c.rows[r] = 1 .. Len(c.rows[r])
    BY <2>1, LenProperties
  <2>3. Len(c.threads[r].got) + 1 \in DOMAIN c.rows[r]
    BY <2>1, <2>2
  <2>. QED
    BY <2>3 DEF At, ToSet
<1>10. /\ stage \in {"asked", "keeping", "failed"}
       /\ stage \in Replied => answer \in Endpoint(p)
       /\ stage = "keeping" => Read(p, answer) # None
       /\ p \in DOMAIN c.kept => \/ stage = "asked" /\ answer = c.kept[p]
                                 \/ stage = "failed" /\ Prior(c, p) = {}
  BY DEF Waits
<1>. HIDE DEF p, t
<1>11. WellMade(d)
  <2>1. ASSUME NEW x \in DOMAIN d.rows PROVE InOrderOf(d.threads[x], d.rows[x])
    <3>1. InOrderOf(c.threads[x], c.rows[x])
      BY <1>1, <1>2 DEF WellMade
    <3>2. CASE x = r
      <4>1. t = [stage |-> t.stage, got |-> t.got, answer |-> t.answer]
        BY DEF t, Thread
      <4>2. t.stage # "done" /\ c.threads[r].stage \in Working
        BY <1>3, <1>10
      <4>. QED
        BY <1>2, <1>3, <3>1, <3>2, <4>1, <4>2 DEF InOrderOf
    <3>3. CASE x # r
      BY <1>2, <1>6, <3>1, <3>3
    <3>. QED
      BY <3>2, <3>3
  <2>2. Askable(d.rows) /\ d.reports \in Seq(ToSet(d.reports))
    BY <1>1, <1>2 DEF WellMade
  <2>3. d.reports # <<>> => /\ DOMAIN Last(d.reports) = DOMAIN d.rows
                            /\ \A x \in DOMAIN d.rows : DOMAIN Last(d.reports)[x] = DOMAIN d.rows[x]
    BY <1>1, <1>2 DEF WellMade
  <2>. QED
    BY <1>2, <2>1, <2>2, <2>3 DEF WellMade
<1>12. FromTheModel(d)
  <2>1. ASSUME NEW x \in DOMAIN d.rows, d.threads[x].stage \in Replied
        PROVE  d.threads[x].answer \in Endpoint(At(d, x))
    <3>1. CASE x = r
      BY <1>2, <1>3, <1>4, <1>10, <2>1, <3>1
    <3>2. CASE x # r
      BY <1>1, <1>2, <1>5, <1>6, <2>1, <3>2 DEF FromTheModel
    <3>. QED
      BY <3>1, <3>2
  <2>. QED
    BY <1>1, <1>2, <1>5, <2>1 DEF FromTheModel
<1>13. KeptIsRead(d)
  <2>1. ASSUME NEW q \in DOMAIN d.kept PROVE Read(q, d.kept[q]) \in On(d, q) \/ Untouched(d, q)
    <3>1. SUFFICES ASSUME Untouched(c, q) PROVE Untouched(d, q)
      BY <1>1, <1>2, <1>7 DEF KeptIsRead
    <3>2. ASSUME NEW x \in DOMAIN d.rows, d.threads[x].stage \in Replied, At(d, x) = q
          PROVE  d.threads[x].stage = "asked" /\ d.threads[x].answer = d.kept[q]
      <4>1. CASE x = r
        BY <1>2, <1>3, <1>4, <1>10, <3>2, <4>1 DEF Replied
      <4>2. CASE x # r
        BY <1>2, <1>5, <1>6, <3>1, <3>2, <4>2 DEF Untouched
      <4>. QED
        BY <4>1, <4>2
    <3>. QED
      BY <1>7, <3>1, <3>2 DEF Untouched
  <2>2. ASSUME NEW x \in DOMAIN d.rows, d.threads[x].stage = "keeping"
        PROVE  Read(At(d, x), d.threads[x].answer) # None
    <3>1. CASE x = r
      BY <1>2, <1>3, <1>4, <1>10, <2>2, <3>1
    <3>2. CASE x # r
      <4>1. x \in DOMAIN c.rows /\ At(d, x) = At(c, x) /\ d.threads[x] = c.threads[x]
        BY <1>2, <1>5, <1>6, <3>2
      <4>2. c.threads[x].stage = "keeping" => Read(At(c, x), c.threads[x].answer) # None
        BY <1>1, <4>1 DEF KeptIsRead
      <4>. QED
        BY <2>2, <4>1, <4>2
    <3>. QED
      BY <3>1, <3>2
  <2>3. \A q \in DOMAIN d.kept : Read(q, d.kept[q]) # None
    BY <1>1, <1>2 DEF KeptIsRead
  <2>4. ASSUME NEW x \in DOMAIN d.rows, NEW k \in DOMAIN d.threads[x].got, d.threads[x].got[k] # None
        PROVE  d.rows[x][k] \in DOMAIN d.kept
    <3>1. x \in DOMAIN c.rows /\ k \in DOMAIN c.threads[x].got /\ c.threads[x].got[k] # None
      BY <1>2, <1>5, <2>4
    <3>2. c.rows[x][k] \in DOMAIN c.kept
      BY <1>1, <3>1 DEF KeptIsRead
    <3>. QED
      BY <1>2, <3>2
  <2>. QED
    BY <2>1, <2>2, <2>3, <2>4 DEF KeptIsRead
<1>14. Prior(c, p) # {} => stage = "asked" /\ answer = c.kept[p] /\ Read(p, c.kept[p]) \in Prior(c, p)
  <2>1. p = c.rows[r][Len(c.threads[r].got) + 1]
    BY DEF p, At
  <2>2. Prior(c, p) # {} => p \in DOMAIN c.kept /\ Read(p, c.kept[p]) \in Prior(c, p)
    BY <1>1, <1>9, <2>1 DEF Replayed
  <2>. QED
    BY <1>10, <2>2
<1>15. Replayed(d)
  <2>1. ASSUME NEW x \in DOMAIN d.rows, NEW k \in DOMAIN d.rows[x], Prior(d, d.rows[x][k]) # {}
        PROVE  /\ d.rows[x][k] \in DOMAIN d.kept
               /\ Read(d.rows[x][k], d.kept[d.rows[x][k]]) \in Prior(d, d.rows[x][k])
    <3>1. x \in DOMAIN c.rows /\ k \in DOMAIN c.rows[x] /\ Prior(c, c.rows[x][k]) # {}
      BY <1>2, <1>8, <2>1
    <3>2. /\ c.rows[x][k] \in DOMAIN c.kept
          /\ Read(c.rows[x][k], c.kept[c.rows[x][k]]) \in Prior(c, c.rows[x][k])
      BY <1>1, <3>1 DEF Replayed
    <3>. QED
      BY <1>2, <1>8, <3>2
  <2>2. ASSUME NEW x \in DOMAIN d.rows, d.threads[x].stage \in Replied, Prior(d, At(d, x)) # {}
        PROVE  d.threads[x].stage = "asked" /\ Read(At(d, x), d.threads[x].answer) \in Prior(d, At(d, x))
    <3>1. CASE x = r
      BY <1>2, <1>3, <1>4, <1>8, <1>14, <2>2, <3>1
    <3>2. CASE x # r
      BY <1>1, <1>2, <1>5, <1>6, <1>8, <2>2, <3>2 DEF Replayed
    <3>. QED
      BY <3>1, <3>2
  <2>3. ASSUME NEW x \in DOMAIN d.rows, NEW k \in DOMAIN d.threads[x].got, Prior(d, d.rows[x][k]) # {}
        PROVE  d.threads[x].got[k] \in Prior(d, d.rows[x][k])
    <3>1. /\ x \in DOMAIN c.rows /\ k \in DOMAIN c.threads[x].got /\ Prior(c, c.rows[x][k]) # {}
          /\ d.threads[x].got[k] = c.threads[x].got[k]
      BY <1>2, <1>5, <1>8, <2>3
    <3>2. c.threads[x].got[k] \in Prior(c, c.rows[x][k])
      BY <1>1, <3>1 DEF Replayed
    <3>. QED
      BY <1>2, <1>8, <3>1, <3>2
  <2>4. ASSUME d.reports # <<>>, Complete(Last(d.reports)), NEW x \in DOMAIN d.rows
        PROVE  d.threads[x].stage # "failed"
    <3>1. CASE x = r
      <4>. DEFINE k == Len(c.threads[r].got) + 1
                  last == Last(c.reports)
      <4>1. r \in DOMAIN last /\ k \in DOMAIN last[r]
        BY <1>1, <1>2, <1>9, <2>4 DEF WellMade
      <4>2. last[r][k] # None
        BY <1>2, <2>4, <4>1 DEF Complete
      <4>3. c.rows[r][k] = p
        BY DEF p, At
      <4>4. last[r][k] \in VerdictsOn(c.rows, last, p)
        <5>. HIDE DEF k, last
        <5>. QED
          BY <4>1, <4>3 DEF VerdictsOn
      <4>5. Prior(c, p) = VerdictsOn(c.rows, last, p) \ {None}
        BY <1>2, <2>4 DEF Prior
      <4>. QED
        BY <1>2, <1>3, <1>14, <3>1, <4>2, <4>4, <4>5
    <3>2. CASE x # r
      BY <1>1, <1>2, <1>6, <2>4, <3>2 DEF Replayed
    <3>. QED
      BY <3>1, <3>2
  <2>. QED
    BY <2>1, <2>2, <2>3, <2>4 DEF Replayed
<1>. QED
  BY <1>11, <1>12, <1>13, <1>15 DEF Consistent

\* What is kept once a row has its verdict v on a prompt p: what was, and a reply that reads as some
\* verdict on p, as the one reported before if there was one.
KeptFor(c, p, v, kept) ==
    /\ DOMAIN c.kept \subseteq DOMAIN kept
    /\ \A q \in DOMAIN kept : q # p => q \in DOMAIN c.kept /\ kept[q] = c.kept[q]
    /\ v # None => p \in DOMAIN kept
    /\ p \in DOMAIN kept => /\ kept[p] \in Endpoint(p) /\ Read(p, kept[p]) # None
                            /\ Read(p, kept[p]) \in On(c, p) \cup {v}
    /\ Prior(c, p) # {} => v \in Prior(c, p) /\ Read(p, kept[p]) \in Prior(c, p)

\* A reply that is not to be kept.
LEMMA LookIsKeptFor ==
    ASSUME NEW c, Consistent(c), NEW r \in DOMAIN c.rows, c.threads[r].stage = "asked",
           NEW v, v = Read(At(c, r), c.threads[r].answer), v = None \/ At(c, r) \in DOMAIN c.kept
    PROVE  KeptFor(c, At(c, r), v, c.kept)
<1>. DEFINE p == At(c, r)
<1>1. WellMade(c) /\ FromTheModel(c) /\ KeptIsRead(c) /\ Replayed(c)
  BY DEF Consistent
<1>2. c.threads[r].stage \in Replied
  BY DEF Replied
<1>3. Prior(c, p) # {} => v \in Prior(c, p)
  BY <1>1, <1>2 DEF Replayed
<1>4. p \in DOMAIN c.kept => /\ c.kept[p] \in Endpoint(p) /\ Read(p, c.kept[p]) # None
                             /\ Read(p, c.kept[p]) \in On(c, p) \/ Untouched(c, p)
  BY <1>1 DEF FromTheModel, KeptIsRead
<1>5. Untouched(c, p) => Read(p, c.kept[p]) = v
  BY <1>2 DEF Untouched
<1>6. Prior(c, p) # {} => Read(p, c.kept[p]) \in Prior(c, p)
  <2>1. p = c.rows[r][Len(c.threads[r].got) + 1]
    BY DEF At
  <2>2. Len(c.threads[r].got) + 1 \in DOMAIN c.rows[r]
    <3>1. /\ c.rows[r] \in Seq(ToSet(c.rows[r])) /\ c.threads[r].got \in Seq(ToSet(c.threads[r].got))
          /\ Len(c.threads[r].got) < Len(c.rows[r])
      BY <1>1 DEF WellMade, Askable, InOrderOf, Working
    <3>2. /\ Len(c.threads[r].got) \in Nat /\ Len(c.rows[r]) \in Nat
          /\ DOMAIN c.rows[r] = 1 .. Len(c.rows[r])
      BY <3>1, LenProperties
    <3>. QED
      BY <3>1, <3>2
  <2>. HIDE DEF p
  <2>. QED
    BY <1>1, <2>1, <2>2 DEF Replayed
<1>7. v # None => p \in DOMAIN c.kept
  OBVIOUS
<1>. HIDE DEF p
<1>8. KeptFor(c, p, v, c.kept)
  BY <1>3, <1>4, <1>5, <1>6, <1>7 DEF KeptFor
<1>. QED
  BY <1>8 DEF p

\* A reply that is kept, over what another thread may have kept meanwhile.
LEMMA StoreIsKeptFor ==
    ASSUME NEW c, Consistent(c), NEW r \in DOMAIN c.rows, c.threads[r].stage = "keeping",
           NEW v, v = Read(At(c, r), c.threads[r].answer), NEW kept,
           kept = [q \in DOMAIN c.kept \cup {At(c, r)} |->
                     IF q = At(c, r) THEN c.threads[r].answer ELSE c.kept[q]]
    PROVE  KeptFor(c, At(c, r), v, kept)
<1>. DEFINE p == At(c, r)
<1>1. FromTheModel(c) /\ KeptIsRead(c) /\ Replayed(c)
  BY DEF Consistent
<1>2. c.threads[r].stage \in Replied /\ c.threads[r].stage # "asked"
  BY DEF Replied
<1>3. Prior(c, p) = {}
  BY <1>1, <1>2 DEF Replayed
<1>4. v # None
  BY <1>1 DEF KeptIsRead
<1>5. c.threads[r].answer \in Endpoint(p)
  BY <1>1, <1>2 DEF FromTheModel
<1>6. p \in DOMAIN kept /\ kept[p] = c.threads[r].answer /\ Read(p, kept[p]) = v
  OBVIOUS
<1>7. /\ DOMAIN c.kept \subseteq DOMAIN kept
      /\ \A q \in DOMAIN kept : q # p => q \in DOMAIN c.kept /\ kept[q] = c.kept[q]
  OBVIOUS
<1>. HIDE DEF p
<1>8. KeptFor(c, p, v, kept)
  BY <1>3, <1>4, <1>5, <1>6, <1>7 DEF KeptFor
<1>. QED
  BY <1>8 DEF p

RowSays(c, r, q, w) ==
    \E k \in DOMAIN c.threads[r].got : c.rows[r][k] = q /\ w = c.threads[r].got[k]

\* What the verdicts on a prompt are.
LEMMA OnMeans ==
    ASSUME NEW c, NEW q, NEW w
    PROVE  w \in On(c, q) <=> \E r \in DOMAIN c.rows : RowSays(c, r, q, w)
<1>. DEFINE got == SoFar(c)
            of(r) == {got[r][k] : k \in {i \in DOMAIN got[r] : c.rows[r][i] = q}}
<1>1. DOMAIN got = DOMAIN c.rows /\ \A r \in DOMAIN c.rows : got[r] = c.threads[r].got
  BY DEF SoFar
<1>2. ASSUME NEW r \in DOMAIN c.rows PROVE w \in of(r) <=> RowSays(c, r, q, w)
  <2>1. got[r] = c.threads[r].got
    BY <1>1
  <2>. HIDE DEF got
  <2>2. of(r) = {c.threads[r].got[k] : k \in {i \in DOMAIN c.threads[r].got : c.rows[r][i] = q}}
    BY <2>1
  <2>. QED
    BY <2>2 DEF RowSays
<1>3. On(c, q) = UNION {of(r) : r \in DOMAIN got}
  BY DEF On, VerdictsOn
<1>. HIDE DEF of, got
<1>4. w \in On(c, q) <=> \E r \in DOMAIN got : w \in of(r)
  BY <1>3
<1>. QED
  BY <1>1, <1>2, <1>4

OneMore(c, d, r, p, v) ==
    /\ DOMAIN d.threads[r].got = DOMAIN c.threads[r].got \cup {Len(c.threads[r].got) + 1}
    /\ \A k \in DOMAIN c.threads[r].got : d.threads[r].got[k] = c.threads[r].got[k]
    /\ d.threads[r].got[Len(c.threads[r].got) + 1] = v
    /\ c.rows[r][Len(c.threads[r].got) + 1] = p
    /\ \A q : On(d, q) = IF q = p THEN On(c, q) \cup {v} ELSE On(c, q)

\* A row that got one more has that verdict more, on that prompt.
LEMMA OneVerdictMore ==
    ASSUME NEW c, WellMade(c), NEW r \in DOMAIN c.rows, NEW v, NEW d, NEW p,
           p = At(c, r), d.rows = c.rows,
           d.threads[r].got = Append(c.threads[r].got, v),
           \A x \in DOMAIN c.rows : x # r => d.threads[x] = c.threads[x]
    PROVE  OneMore(c, d, r, p, v)
<1>. DEFINE got == c.threads[r].got
            n == Len(got)
<1>1. got \in Seq(ToSet(got))
  BY DEF WellMade, InOrderOf
<1>2. n \in Nat /\ DOMAIN got = 1 .. n
  BY <1>1, LenProperties
<1>3. /\ Append(got, v) \in Seq(ToSet(got) \cup {v}) /\ Len(Append(got, v)) = n + 1
      /\ \A k \in 1 .. n : Append(got, v)[k] = got[k]
      /\ Append(got, v)[n + 1] = v
  <2>1. got \in Seq(ToSet(got) \cup {v}) /\ v \in ToSet(got) \cup {v}
    BY <1>1
  <2>. HIDE DEF got
  <2>. QED
    BY <2>1, AppendProperties DEF n
<1>4. DOMAIN Append(got, v) = 1 .. n + 1
  BY <1>3, LenProperties
<1>. HIDE DEF n
<1>5. /\ DOMAIN d.threads[r].got = DOMAIN got \cup {n + 1}
      /\ \A k \in DOMAIN got : d.threads[r].got[k] = got[k]
      /\ d.threads[r].got[n + 1] = v
  BY <1>2, <1>3, <1>4
<1>6. c.rows[r][n + 1] = p
  BY DEF At, n
<1>7. ASSUME NEW q PROVE On(d, q) = IF q = p THEN On(c, q) \cup {v} ELSE On(c, q)
  <2>1. \A w : w \in On(d, q) <=> \E x \in DOMAIN c.rows : \E k \in DOMAIN d.threads[x].got :
                                     c.rows[x][k] = q /\ w = d.threads[x].got[k]
    BY OnMeans DEF RowSays
  <2>2. \A w : w \in On(c, q) <=> \E x \in DOMAIN c.rows : \E k \in DOMAIN c.threads[x].got :
                                     c.rows[x][k] = q /\ w = c.threads[x].got[k]
    BY OnMeans DEF RowSays
  <2>3. ASSUME NEW w \in On(d, q) PROVE w \in On(c, q) \/ (q = p /\ w = v)
    <3>0. PICK x \in DOMAIN c.rows : \E k \in DOMAIN d.threads[x].got :
            c.rows[x][k] = q /\ w = d.threads[x].got[k]
      BY <2>1
    <3>1. PICK k \in DOMAIN d.threads[x].got : c.rows[x][k] = q /\ w = d.threads[x].got[k]
      BY <3>0
    <3>2. CASE x # r
      BY <2>2, <3>1, <3>2
    <3>3. CASE x = r /\ k = n + 1
      BY <1>5, <1>6, <3>1, <3>3
    <3>4. CASE x = r /\ k # n + 1
      <4>1. k \in DOMAIN got /\ w = got[k]
        BY <1>5, <3>1, <3>4
      <4>. QED
        BY <2>2, <3>1, <3>4, <4>1
    <3>. QED
      BY <3>2, <3>3, <3>4
  <2>4. ASSUME NEW w \in On(c, q) PROVE w \in On(d, q)
    <3>0. PICK x \in DOMAIN c.rows : \E k \in DOMAIN c.threads[x].got :
            c.rows[x][k] = q /\ w = c.threads[x].got[k]
      BY <2>2
    <3>1. PICK k \in DOMAIN c.threads[x].got : c.rows[x][k] = q /\ w = c.threads[x].got[k]
      BY <3>0
    <3>2. k \in DOMAIN d.threads[x].got /\ d.threads[x].got[k] = c.threads[x].got[k]
      BY <1>5, <3>1
    <3>. QED
      BY <2>1, <3>1, <3>2
  <2>5. q = p => v \in On(d, q)
    <3>1. n + 1 \in DOMAIN d.threads[r].got
      BY <1>5
    <3>. QED
      BY <1>5, <1>6, <2>1, <3>1
  <2>. QED
    BY <2>3, <2>4, <2>5
<1>. QED
  BY <1>5, <1>6, <1>7 DEF n, OneMore

\* thread r takes the verdict v and goes on, or is done
Advances(c, r, v, kept, stage, d) ==
    /\ v = Read(At(c, r), c.threads[r].answer)
    /\ KeptFor(c, At(c, r), v, kept)
    /\ stage = (IF Len(Append(c.threads[r].got, v)) < Len(c.rows[r]) THEN "between" ELSE "done")
    /\ d = Moved(c, r, Thread(stage, Append(c.threads[r].got, v), None), kept)

\* A thread that has a verdict goes on to its next prompt, or is done.
LEMMA NextMove ==
    ASSUME NEW c, Consistent(c), NEW r \in DOMAIN c.rows, c.threads[r].stage \in Replied,
           NEW v, NEW kept, NEW stage, NEW d, Advances(c, r, v, kept, stage, d)
    PROVE  Consistent(d)
<1>. DEFINE p == At(c, r)
            got == c.threads[r].got
            n == Len(got)
            t == Thread(stage, Append(got, v), None)
<1>1. WellMade(c) /\ FromTheModel(c) /\ KeptIsRead(c) /\ Replayed(c)
  BY DEF Consistent
<1>2. /\ d.rows = c.rows /\ d.kept = kept /\ d.reports = c.reports /\ d.threads[r] = t
      /\ d.threads = [x \in DOMAIN d.rows |-> d.threads[x]]
      /\ d = [rows |-> d.rows, threads |-> d.threads, kept |-> d.kept, live |-> d.live,
              attempt |-> d.attempt, reports |-> d.reports]
      /\ SamePast(c, d) /\ SamePlaces(c, d, r)
  <2>1. d = Moved(c, r, t, kept)
    BY DEF Advances
  <2>. HIDE DEF t
  <2>2. MoveLeft(c, d, r, t, kept)
    BY <1>1, <2>1, MoveLeaves
  <2>. QED
    BY <2>2 DEF MoveLeft
<1>3. t.stage = stage /\ t.got = Append(got, v)
  BY DEF Thread
<1>4. stage \in {"between", "done"} /\ stage \notin Replied
  BY DEF Replied, Advances
<1>5. \A x \in DOMAIN c.rows : x # r => d.threads[x] = c.threads[x] /\ At(d, x) = At(c, x)
  BY <1>2 DEF SamePlaces
<1>6. \A q : Prior(d, q) = Prior(c, q)
  BY <1>2 DEF SamePast
<1>7. /\ DOMAIN d.threads[r].got = DOMAIN got \cup {n + 1}
      /\ \A k \in DOMAIN got : d.threads[r].got[k] = got[k]
      /\ d.threads[r].got[n + 1] = v
      /\ c.rows[r][n + 1] = p
      /\ \A q : On(d, q) = IF q = p THEN On(c, q) \cup {v} ELSE On(c, q)
  <2>1. d.threads[r].got = Append(c.threads[r].got, v)
    BY <1>2, <1>3
  <2>2. p = At(c, r) /\ d.rows = c.rows
    BY <1>2
  <2>3. \A x \in DOMAIN c.rows : x # r => d.threads[x] = c.threads[x]
    BY <1>5
  <2>. HIDE DEF t, p
  <2>4. OneMore(c, d, r, p, v)
    BY <1>1, <2>1, <2>2, <2>3, OneVerdictMore
  <2>. QED
    BY <2>4 DEF OneMore
<1>8. /\ got \in Seq(ToSet(got)) /\ n \in Nat /\ n < Len(c.rows[r]) /\ Len(c.rows[r]) \in Nat
      /\ c.rows[r] \in Seq(ToSet(c.rows[r]))
  <2>1. got \in Seq(ToSet(got)) /\ c.rows[r] \in Seq(ToSet(c.rows[r])) /\ n < Len(c.rows[r])
    BY <1>1 DEF WellMade, Askable, InOrderOf, Working, Replied
  <2>. QED
    BY <2>1, LenProperties
<1>9. /\ Append(got, v) \in Seq(ToSet(got) \cup {v}) /\ Len(Append(got, v)) = n + 1
  <2>1. got \in Seq(ToSet(got) \cup {v}) /\ v \in ToSet(got) \cup {v}
    BY <1>8
  <2>. HIDE DEF got
  <2>. QED
    BY <2>1, AppendProperties DEF n
<1>10. Append(got, v) \in Seq(ToSet(Append(got, v)))
  <2>. DEFINE D == ToSet(got) \cup {v}
              s == Append(got, v)
  <2>1. s \in Seq(D)
    BY <1>9
  <2>. HIDE DEF D, s
  <2>. QED
    BY <2>1, TextOf DEF IsText, s
<1>11. /\ DOMAIN c.kept \subseteq DOMAIN kept
       /\ \A q \in DOMAIN kept : q # p => q \in DOMAIN c.kept /\ kept[q] = c.kept[q]
       /\ v # None => p \in DOMAIN kept
       /\ p \in DOMAIN kept => /\ kept[p] \in Endpoint(p) /\ Read(p, kept[p]) # None
                               /\ Read(p, kept[p]) \in On(c, p) \cup {v}
       /\ Prior(c, p) # {} => v \in Prior(c, p) /\ Read(p, kept[p]) \in Prior(c, p)
  BY DEF KeptFor, Advances
<1>12. v \in Outcomes(p)
  <2>1. c.threads[r].answer \in Endpoint(p)
    BY <1>1 DEF FromTheModel
  <2>. HIDE DEF p
  <2>. QED
    BY <2>1 DEF Outcomes, p, Advances
<1>13. stage = IF n + 1 < Len(c.rows[r]) THEN "between" ELSE "done"
  BY <1>9 DEF Advances
<1>. HIDE DEF p, n, t
<1>14. WellMade(d)
  <2>1. ASSUME NEW x \in DOMAIN d.rows PROVE InOrderOf(d.threads[x], d.rows[x])
    <3>1. CASE x = r
      <4>1. t = [stage |-> t.stage, got |-> t.got, answer |-> t.answer]
        BY DEF t, Thread
      <4>2. n + 1 <= Len(c.rows[r]) /\ (~(n + 1 < Len(c.rows[r])) => n + 1 = Len(c.rows[r]))
        BY <1>8
      <4>3. /\ Len(t.got) <= Len(c.rows[r])
            /\ t.stage \in Working => Len(t.got) < Len(c.rows[r])
            /\ t.stage = "done" => Len(t.got) = Len(c.rows[r])
        BY <1>3, <1>9, <1>13, <4>2 DEF Working
      <4>. QED
        BY <1>2, <1>3, <1>10, <3>1, <4>1, <4>3 DEF InOrderOf
    <3>2. CASE x # r
      BY <1>1, <1>2, <1>5, <3>2 DEF WellMade
    <3>. QED
      BY <3>1, <3>2
  <2>2. Askable(d.rows) /\ d.reports \in Seq(ToSet(d.reports))
    BY <1>1, <1>2 DEF WellMade
  <2>3. d.reports # <<>> => /\ DOMAIN Last(d.reports) = DOMAIN d.rows
                            /\ \A x \in DOMAIN d.rows : DOMAIN Last(d.reports)[x] = DOMAIN d.rows[x]
    <3>1. d.reports = c.reports /\ d.rows = c.rows
      BY <1>2
    <3>2. c.reports # <<>> => /\ DOMAIN Last(c.reports) = DOMAIN c.rows
                              /\ \A x \in DOMAIN c.rows : DOMAIN Last(c.reports)[x] = DOMAIN c.rows[x]
      BY <1>1 DEF WellMade
    <3>. QED
      BY <3>1, <3>2
  <2>4. \A x \in DOMAIN d.rows : InOrderOf(d.threads[x], d.rows[x])
    BY <2>1
  <2>5. /\ d = [rows |-> d.rows, threads |-> d.threads, kept |-> d.kept, live |-> d.live,
                attempt |-> d.attempt, reports |-> d.reports]
        /\ d.threads = [x \in DOMAIN d.rows |-> d.threads[x]]
    BY <1>2
  <2>. QED
    BY <2>2, <2>3, <2>4, <2>5, Zenon DEF WellMade
<1>15. ASSUME NEW x \in DOMAIN d.rows, d.threads[x].stage \notin {"between", "done"}
       PROVE  /\ x \in DOMAIN c.rows /\ x # r
              /\ d.threads[x] = c.threads[x] /\ At(d, x) = At(c, x)
  BY <1>2, <1>3, <1>4, <1>5, <1>15
<1>16. ASSUME NEW x \in DOMAIN d.rows, NEW k \in DOMAIN d.threads[x].got
       PROVE  \/ /\ x \in DOMAIN c.rows /\ k \in DOMAIN c.threads[x].got
                 /\ d.threads[x].got[k] = c.threads[x].got[k]
              \/ d.rows[x][k] = p /\ d.threads[x].got[k] = v
  <2>1. CASE x = r
    BY <1>2, <1>7, <2>1
  <2>2. CASE x # r
    BY <1>2, <1>5, <2>2
  <2>. QED
    BY <2>1, <2>2
<1>17. FromTheModel(d)
  <2>1. ASSUME NEW x \in DOMAIN d.rows, d.threads[x].stage \in Replied
        PROVE  d.threads[x].answer \in Endpoint(At(d, x))
    <3>1. x \in DOMAIN c.rows /\ d.threads[x] = c.threads[x] /\ At(d, x) = At(c, x)
      BY <1>15, <2>1 DEF Replied
    <3>. QED
      BY <1>1, <2>1, <3>1 DEF FromTheModel
  <2>2. ASSUME NEW x \in DOMAIN d.rows, NEW k \in DOMAIN d.threads[x].got
        PROVE  d.threads[x].got[k] \in Outcomes(d.rows[x][k])
    <3>1. CASE d.rows[x][k] = p /\ d.threads[x].got[k] = v
      BY <1>12, <3>1
    <3>2. CASE /\ x \in DOMAIN c.rows /\ k \in DOMAIN c.threads[x].got
               /\ d.threads[x].got[k] = c.threads[x].got[k]
      BY <1>1, <1>2, <3>2 DEF FromTheModel
    <3>. QED
      BY <1>16, <3>1, <3>2
  <2>3. ASSUME NEW q \in DOMAIN d.kept PROVE d.kept[q] \in Endpoint(q)
    <3>1. CASE q = p
      BY <1>2, <1>11, <3>1
    <3>2. CASE q # p
      BY <1>1, <1>2, <1>11, <3>2 DEF FromTheModel
    <3>. QED
      BY <3>1, <3>2
  <2>. QED
    BY <2>1, <2>2, <2>3 DEF FromTheModel
<1>18. KeptIsRead(d)
  <2>1. ASSUME NEW q \in DOMAIN d.kept
        PROVE  /\ Read(q, d.kept[q]) # None
               /\ Read(q, d.kept[q]) \in On(d, q) \/ Untouched(d, q)
    <3>1. CASE q = p
      BY <1>2, <1>7, <1>11, <3>1
    <3>2. CASE q # p
      <4>1. q \in DOMAIN c.kept /\ d.kept[q] = c.kept[q] /\ On(d, q) = On(c, q)
        <5>1. q \in DOMAIN kept /\ d.kept[q] = kept[q]
          BY <1>2
        <5>2. q \in DOMAIN c.kept /\ kept[q] = c.kept[q]
          BY <1>11, <3>2, <5>1
        <5>3. On(d, q) = On(c, q)
          BY <1>7, <3>2
        <5>. QED
          BY <5>1, <5>2, <5>3
      <4>2. Read(q, c.kept[q]) # None /\ (Read(q, c.kept[q]) \in On(c, q) \/ Untouched(c, q))
        BY <1>1, <4>1 DEF KeptIsRead
      <4>3. SUFFICES ASSUME Untouched(c, q) PROVE Untouched(d, q)
        BY <4>1, <4>2
      <4>4. ASSUME NEW x \in DOMAIN d.rows, d.threads[x].stage \in Replied, At(d, x) = q
            PROVE  d.threads[x].stage = "asked" /\ d.threads[x].answer = d.kept[q]
        <5>1. x \in DOMAIN c.rows /\ d.threads[x] = c.threads[x] /\ At(d, x) = At(c, x)
          BY <1>15, <4>4 DEF Replied
        <5>. QED
          BY <4>1, <4>3, <4>4, <5>1 DEF Untouched
      <4>. QED
        BY <4>1, <4>3, <4>4 DEF Untouched
    <3>. QED
      BY <3>1, <3>2
  <2>2. ASSUME NEW x \in DOMAIN d.rows, NEW k \in DOMAIN d.threads[x].got, d.threads[x].got[k] # None
        PROVE  d.rows[x][k] \in DOMAIN d.kept
    <3>1. CASE d.rows[x][k] = p /\ d.threads[x].got[k] = v
      BY <1>2, <1>11, <2>2, <3>1
    <3>2. CASE /\ x \in DOMAIN c.rows /\ k \in DOMAIN c.threads[x].got
               /\ d.threads[x].got[k] = c.threads[x].got[k]
      <4>1. c.rows[x][k] \in DOMAIN c.kept
        BY <1>1, <2>2, <3>2 DEF KeptIsRead
      <4>. QED
        BY <1>2, <1>11, <4>1
    <3>. QED
      BY <1>16, <3>1, <3>2
  <2>3. ASSUME NEW x \in DOMAIN d.rows, d.threads[x].stage = "keeping"
        PROVE  Read(At(d, x), d.threads[x].answer) # None
    <3>1. x \in DOMAIN c.rows /\ d.threads[x] = c.threads[x] /\ At(d, x) = At(c, x)
      BY <1>15, <2>3
    <3>2. c.threads[x].stage = "keeping" => Read(At(c, x), c.threads[x].answer) # None
      BY <1>1, <3>1 DEF KeptIsRead
    <3>. QED
      BY <2>3, <3>1, <3>2
  <2>. QED
    BY <2>1, <2>2, <2>3 DEF KeptIsRead
<1>19. Replayed(d)
  <2>1. ASSUME NEW x \in DOMAIN d.rows, NEW k \in DOMAIN d.rows[x], Prior(d, d.rows[x][k]) # {}
        PROVE  /\ d.rows[x][k] \in DOMAIN d.kept
               /\ Read(d.rows[x][k], d.kept[d.rows[x][k]]) \in Prior(d, d.rows[x][k])
    <3>1. x \in DOMAIN c.rows /\ k \in DOMAIN c.rows[x] /\ Prior(c, c.rows[x][k]) # {}
      BY <1>2, <1>6, <2>1
    <3>2. /\ c.rows[x][k] \in DOMAIN c.kept
          /\ Read(c.rows[x][k], c.kept[c.rows[x][k]]) \in Prior(c, c.rows[x][k])
      BY <1>1, <3>1 DEF Replayed
    <3>3. d.rows[x][k] \in DOMAIN d.kept
      BY <1>2, <1>11, <3>2
    <3>4. CASE d.rows[x][k] = p
      BY <1>2, <1>6, <1>11, <2>1, <3>3, <3>4
    <3>5. CASE d.rows[x][k] # p
      <4>1. d.kept[d.rows[x][k]] = c.kept[c.rows[x][k]]
        <5>1. d.rows[x][k] \in DOMAIN kept /\ d.rows[x][k] = c.rows[x][k] /\ d.kept = kept
          BY <1>2, <3>3
        <5>2. kept[c.rows[x][k]] = c.kept[c.rows[x][k]]
          BY <1>11, <3>5, <5>1
        <5>. QED
          BY <5>1, <5>2
      <4>. QED
        BY <1>2, <1>6, <3>2, <3>3, <4>1
    <3>. QED
      BY <3>4, <3>5
  <2>2. ASSUME NEW x \in DOMAIN d.rows, d.threads[x].stage \in Replied, Prior(d, At(d, x)) # {}
        PROVE  d.threads[x].stage = "asked" /\ Read(At(d, x), d.threads[x].answer) \in Prior(d, At(d, x))
    <3>1. x \in DOMAIN c.rows /\ d.threads[x] = c.threads[x] /\ At(d, x) = At(c, x)
      BY <1>15, <2>2 DEF Replied
    <3>2. Prior(c, At(c, x)) # {}
      BY <1>6, <2>2, <3>1
    <3>3. c.threads[x].stage = "asked" /\ Read(At(c, x), c.threads[x].answer) \in Prior(c, At(c, x))
      BY <1>1, <2>2, <3>1, <3>2 DEF Replayed
    <3>. QED
      BY <1>6, <3>1, <3>3
  <2>3. ASSUME NEW x \in DOMAIN d.rows, NEW k \in DOMAIN d.threads[x].got, Prior(d, d.rows[x][k]) # {}
        PROVE  d.threads[x].got[k] \in Prior(d, d.rows[x][k])
    <3>1. CASE d.rows[x][k] = p /\ d.threads[x].got[k] = v
      BY <1>6, <1>11, <2>3, <3>1
    <3>2. CASE /\ x \in DOMAIN c.rows /\ k \in DOMAIN c.threads[x].got
               /\ d.threads[x].got[k] = c.threads[x].got[k]
      <4>1. Prior(c, c.rows[x][k]) # {}
        BY <1>2, <1>6, <2>3
      <4>2. c.threads[x].got[k] \in Prior(c, c.rows[x][k])
        BY <1>1, <3>2, <4>1 DEF Replayed
      <4>. QED
        BY <1>2, <1>6, <3>2, <4>2
    <3>. QED
      BY <1>16, <3>1, <3>2
  <2>4. ASSUME d.reports # <<>>, Complete(Last(d.reports)), NEW x \in DOMAIN d.rows
        PROVE  d.threads[x].stage # "failed"
    <3>1. SUFFICES ASSUME d.threads[x].stage = "failed" PROVE FALSE
      OBVIOUS
    <3>2. x \in DOMAIN c.rows /\ c.threads[x].stage = "failed"
      BY <1>15, <3>1
    <3>. QED
      BY <1>1, <1>2, <2>4, <3>2 DEF Replayed
  <2>5. \A x \in DOMAIN d.rows : \A k \in DOMAIN d.rows[x] : Prior(d, d.rows[x][k]) # {} =>
           /\ d.rows[x][k] \in DOMAIN d.kept
           /\ Read(d.rows[x][k], d.kept[d.rows[x][k]]) \in Prior(d, d.rows[x][k])
    BY <2>1
  <2>6. \A x \in DOMAIN d.rows : d.threads[x].stage \in Replied /\ Prior(d, At(d, x)) # {} =>
           d.threads[x].stage = "asked" /\ Read(At(d, x), d.threads[x].answer) \in Prior(d, At(d, x))
    BY <2>2
  <2>7. \A x \in DOMAIN d.rows : \A k \in DOMAIN d.threads[x].got : Prior(d, d.rows[x][k]) # {} =>
           d.threads[x].got[k] \in Prior(d, d.rows[x][k])
    BY <2>3
  <2>. QED
    BY <2>4, <2>5, <2>6, <2>7 DEF Replayed
<1>. QED
  BY <1>14, <1>17, <1>18, <1>19 DEF Consistent

\* A thread whose stage changes.
LEMMA StageIsMove ==
    ASSUME NEW c, WellMade(c), NEW r \in DOMAIN c.rows, NEW s
    PROVE  [c EXCEPT !.threads[r].stage = s]
              = Moved(c, r, Thread(s, c.threads[r].got, c.threads[r].answer), c.kept)
<1>. DEFINE t == c.threads[r]
            new == Thread(s, c.threads[r].got, c.threads[r].answer)
<1>1. t = [stage |-> t.stage, got |-> t.got, answer |-> t.answer]
  BY DEF WellMade, InOrderOf
<1>2. [t EXCEPT !.stage = s] = new
  BY <1>1 DEF Thread
<1>3. [c EXCEPT !.threads[r].stage = s] = [c EXCEPT !.threads = [c.threads EXCEPT ![r] = new]]
  <2>1. [c.threads EXCEPT ![r].stage = s] = [c.threads EXCEPT ![r] = new]
    BY <1>2
  <2>2. [c EXCEPT !.threads[r].stage = s] = [c EXCEPT !.threads = [c.threads EXCEPT ![r].stage = s]]
    OBVIOUS
  <2>. QED
    BY <2>1, <2>2
<1>. HIDE DEF t, new
<1>4. c = [rows |-> c.rows, threads |-> c.threads, kept |-> c.kept, live |-> c.live,
           attempt |-> c.attempt, reports |-> c.reports]
  BY DEF WellMade
<1>5. [c EXCEPT !.threads = [c.threads EXCEPT ![r] = new]] = Moved(c, r, new, c.kept)
  BY <1>4 DEF Moved
<1>. QED
  BY <1>3, <1>5 DEF new

\* A thread that is given an answer.
LEMMA AnswerIsMove ==
    ASSUME NEW c, WellMade(c), NEW r \in DOMAIN c.rows, NEW s, NEW a
    PROVE  [c EXCEPT !.threads[r].stage = s, !.threads[r].answer = a]
              = Moved(c, r, Thread(s, c.threads[r].got, a), c.kept)
<1>. DEFINE t == c.threads[r]
            new == Thread(s, c.threads[r].got, a)
<1>1. t = [stage |-> t.stage, got |-> t.got, answer |-> t.answer]
  BY DEF WellMade, InOrderOf
<1>2. [t EXCEPT !.stage = s, !.answer = a] = new
  <2>1. new = [stage |-> s, got |-> t.got, answer |-> a]
    BY DEF Thread
  <2>. HIDE DEF t, new
  <2>2. [t EXCEPT !.stage = s] = [stage |-> s, got |-> t.got, answer |-> t.answer]
    BY <1>1
  <2>3. [[t EXCEPT !.stage = s] EXCEPT !.answer = a] = [stage |-> s, got |-> t.got, answer |-> a]
    <3>1. \A x, y : [[stage |-> s, got |-> x, answer |-> y] EXCEPT !.answer = a]
                       = [stage |-> s, got |-> x, answer |-> a]
      OBVIOUS
    <3>. QED
      BY <2>2, <3>1
  <2>4. [t EXCEPT !.stage = s, !.answer = a] = [[t EXCEPT !.stage = s] EXCEPT !.answer = a]
    OBVIOUS
  <2>. QED
    BY <2>1, <2>3, <2>4
<1>3. c.threads = [x \in DOMAIN c.rows |-> c.threads[x]]
  BY DEF WellMade
<1>4. c = [rows |-> c.rows, threads |-> c.threads, kept |-> c.kept, live |-> c.live,
           attempt |-> c.attempt, reports |-> c.reports]
  BY DEF WellMade
<1>5. [c EXCEPT !.threads[r].stage = s, !.threads[r].answer = a]
         = [c EXCEPT !.threads = [c.threads EXCEPT ![r] = new]]
  <2>1. [c.threads EXCEPT ![r].stage = s, ![r].answer = a] = [c.threads EXCEPT ![r] = new]
    BY <1>2, <1>3
  <2>2. [c EXCEPT !.threads[r].stage = s, !.threads[r].answer = a]
           = [c EXCEPT !.threads = [c.threads EXCEPT ![r].stage = s, ![r].answer = a]]
    BY <1>4
  <2>. QED
    BY <2>1, <2>2
<1>. HIDE DEF t, new
<1>6. [c EXCEPT !.threads = [c.threads EXCEPT ![r] = new]] = Moved(c, r, new, c.kept)
  BY <1>4 DEF Moved
<1>. QED
  BY <1>5, <1>6 DEF new

\* A thread that fails, because nothing is kept for it or because it is being kept.
LEMMA FailureKeeps ==
    ASSUME Consistent(chat), NEW r \in DOMAIN chat.rows, chat.threads[r].stage \in Working,
           Prompt(r) \notin DOMAIN chat.kept \/ BeingKept(r),
           chat' = [chat EXCEPT !.threads[r].stage = "failed"]
    PROVE  Consistent(chat')
<1>1. WellMade(chat) /\ Replayed(chat) /\ \A x \in DOMAIN chat.rows : Prompt(x) = At(chat, x)
  BY DEF Consistent, Prompt, At
<1>2. BeingKept(r) => Prior(chat, At(chat, r)) = {}
  <2>1. SUFFICES ASSUME BeingKept(r) PROVE Prior(chat, At(chat, r)) = {}
    OBVIOUS
  <2>2. PICK x \in DOMAIN chat.rows : chat.threads[x].stage = "keeping" /\ At(chat, x) = At(chat, r)
    BY <1>1, <2>1 DEF BeingKept
  <2>3. Prior(chat, At(chat, x)) # {} => chat.threads[x].stage = "asked"
    BY <1>1, <2>2 DEF Replayed, Replied
  <2>. QED
    BY <2>2, <2>3
<1>3. chat' = Moved(chat, r, Thread("failed", chat.threads[r].got, chat.threads[r].answer), chat.kept)
  BY <1>1, StageIsMove
<1>4. At(chat, r) \in DOMAIN chat.kept => Prior(chat, At(chat, r)) = {}
  BY <1>1, <1>2
<1>5. Waits(chat, r, "failed", chat.threads[r].answer, chat')
  BY <1>3, <1>4 DEF Waits, Replied
<1>. QED
  BY <1>1, <1>5, QuietMove

\* Asking: the reply is the kept one, or one the model gave when none was kept.
LEMMA AskKeeps == ASSUME Consistent(chat), NEW r \in DOMAIN chat.rows, AskModel(r) PROVE Consistent(chat')
<1>. DEFINE p == Prompt(r)
<1>1. WellMade(chat) /\ FromTheModel(chat) /\ p = At(chat, r)
  BY DEF Consistent, Prompt, At
<1>2. chat.threads[r].stage \in Working
  BY DEF AskModel, Working
<1>3. ASSUME p \in DOMAIN chat.kept,
             chat' = [chat EXCEPT !.threads[r].stage = "asked", !.threads[r].answer = chat.kept[p]]
      PROVE  Consistent(chat')
  <2>. DEFINE a == chat.kept[p]
  <2>1. chat' = [chat EXCEPT !.threads[r].stage = "asked", !.threads[r].answer = a]
    BY <1>3
  <2>2. a \in Endpoint(At(chat, r)) /\ a = chat.kept[At(chat, r)]
    BY <1>1, <1>3 DEF FromTheModel
  <2>. HIDE DEF p, a
  <2>3. chat' = Moved(chat, r, Thread("asked", chat.threads[r].got, a), chat.kept)
    BY <1>1, <2>1, AnswerIsMove
  <2>4. Waits(chat, r, "asked", a, chat')
    <3>1. a \in Endpoint(At(chat, r)) /\ a = chat.kept[At(chat, r)]
      BY <2>2
    <3>. HIDE DEF a
    <3>2. /\ "asked" \in {"asked", "keeping", "failed"}
          /\ chat' = Moved(chat, r, Thread("asked", chat.threads[r].got, a), chat.kept)
          /\ "asked" # "keeping"
      BY <2>3
    <3>. QED
      BY <3>1, <3>2 DEF Waits
  <2>. QED
    BY <1>1, <1>2, <2>4, QuietMove
<1>4. ASSUME p \notin DOMAIN chat.kept, NEW a \in Endpoint(p),
             chat' = [chat EXCEPT !.threads[r].stage = "asked", !.threads[r].answer = a]
      PROVE  Consistent(chat')
  <2>. HIDE DEF p
  <2>1. chat' = Moved(chat, r, Thread("asked", chat.threads[r].got, a), chat.kept)
    BY <1>1, <1>4, AnswerIsMove
  <2>2. Waits(chat, r, "asked", a, chat')
    BY <1>1, <1>4, <2>1 DEF Waits, Replied
  <2>. QED
    BY <1>1, <1>2, <2>2, QuietMove
<1>5. ASSUME p \notin DOMAIN chat.kept \/ BeingKept(r),
             chat' = [chat EXCEPT !.threads[r].stage = "failed"]
      PROVE  Consistent(chat')
  BY <1>2, <1>5, FailureKeeps
<1>. QED
  BY <1>3, <1>4, <1>5 DEF AskModel

\* Looking whether there is a reply to keep, and going on when there is none.
LEMMA LookKeeps == ASSUME Consistent(chat), NEW r \in DOMAIN chat.rows, Look(r) PROVE Consistent(chat')
<1>. DEFINE p == At(chat, r)
            v == Read(p, chat.threads[r].answer)
<1>1. /\ WellMade(chat) /\ FromTheModel(chat) /\ Prompt(r) = p /\ Outcome(r) = v
  BY DEF Consistent, Prompt, Outcome, At
<1>2. chat.threads[r].stage = "asked"
  BY DEF Look
<1>3. chat.threads[r].answer \in Endpoint(p)
  BY <1>1, <1>2 DEF FromTheModel, Replied
<1>4. CASE /\ v # None /\ p \notin DOMAIN chat.kept
           /\ chat' = [chat EXCEPT !.threads[r].stage = "keeping"]
  <2>1. chat' = [chat EXCEPT !.threads[r].stage = "keeping"]
    BY <1>4
  <2>2. chat' = Moved(chat, r, Thread("keeping", chat.threads[r].got, chat.threads[r].answer), chat.kept)
    BY <1>1, <2>1, StageIsMove
  <2>3. chat.threads[r].stage \in Working
    BY <1>2 DEF Working
  <2>. HIDE DEF v
  <2>4. Read(At(chat, r), chat.threads[r].answer) # None
    BY <1>4 DEF v
  <2>5. Waits(chat, r, "keeping", chat.threads[r].answer, chat')
    BY <1>3, <1>4, <2>2, <2>4 DEF Waits, p
  <2>. QED
    BY <1>1, <2>3, <2>5, QuietMove
<1>5. CASE /\ v = None \/ p \in DOMAIN chat.kept
           /\ chat' = [chat EXCEPT !.threads = After(@, r)]
  <2>. DEFINE got == chat.threads[r].got
              stage == IF Len(Append(got, v)) < Len(chat.rows[r]) THEN "between" ELSE "done"
  <2>1. chat' = [chat EXCEPT !.threads = After(chat.threads, r)]
    BY <1>5
  <2>2. After(chat.threads, r) = [chat.threads EXCEPT ![r] = Thread(stage, Append(got, v), None)]
    BY <1>1 DEF After, Thread
  <2>3. KeptFor(chat, p, v, chat.kept)
    BY <1>2, <1>5, LookIsKeptFor
  <2>4. chat.threads[r].stage \in Replied
    BY <1>2 DEF Replied
  <2>. HIDE DEF v, p, got, stage
  <2>5. chat' = Moved(chat, r, Thread(stage, Append(got, v), None), chat.kept)
    BY <1>1, <2>1, <2>2 DEF Moved, WellMade
  <2>6. Advances(chat, r, v, chat.kept, stage, chat')
    BY <2>3, <2>5 DEF Advances, v, p, got, stage
  <2>. QED
    BY <1>1, <2>4, <2>6, NextMove
<1>6. CASE BeingKept(r) /\ chat' = [chat EXCEPT !.threads[r].stage = "failed"]
  <2>1. chat.threads[r].stage \in Working
    BY <1>2 DEF Working
  <2>. QED
    BY <1>6, <2>1, FailureKeeps
<1>. QED
  BY <1>1, <1>4, <1>5, <1>6 DEF Look

\* Keeping a reply, whatever another thread kept since the look.
LEMMA StoreKeeps == ASSUME Consistent(chat), NEW r \in DOMAIN chat.rows, Store(r) PROVE Consistent(chat')
<1>. DEFINE p == At(chat, r)
            v == Read(p, chat.threads[r].answer)
            got == chat.threads[r].got
            stage == IF Len(Append(got, v)) < Len(chat.rows[r]) THEN "between" ELSE "done"
            kept == [q \in DOMAIN chat.kept \cup {p} |-> IF q = p THEN chat.threads[r].answer ELSE chat.kept[q]]
<1>1. /\ WellMade(chat) /\ Prompt(r) = p /\ Outcome(r) = v
  BY DEF Consistent, Prompt, Outcome, At
<1>2. chat.threads[r].stage = "keeping"
  BY DEF Store
<1>3. chat' = [chat EXCEPT !.kept = kept, !.threads = After(chat.threads, r)]
  BY <1>1, Zenon DEF Store
<1>4. After(chat.threads, r) = [chat.threads EXCEPT ![r] = Thread(stage, Append(got, v), None)]
  BY <1>1 DEF After, Thread
<1>5. KeptFor(chat, p, v, kept)
  BY <1>2, StoreIsKeptFor
<1>6. chat.threads[r].stage \in Replied
  BY <1>2 DEF Replied
<1>. HIDE DEF v, p, got, stage, kept
<1>7. chat' = Moved(chat, r, Thread(stage, Append(got, v), None), kept)
  BY <1>1, <1>3, <1>4 DEF Moved, WellMade
<1>8. Advances(chat, r, v, kept, stage, chat')
  BY <1>5, <1>7 DEF Advances, v, p, got, stage
<1>. QED
  BY <1>1, <1>6, <1>8, NextMove

\* Cancelling changes nothing that was answered.
LEMMA CancelKeeps == ASSUME Consistent(chat), CancelRows PROVE Consistent(chat')
<1>. DEFINE c == chat
            d == chat'
<1>1. WellMade(c) /\ FromTheModel(c) /\ KeptIsRead(c) /\ Replayed(c)
  BY DEF Consistent
<1>2. /\ c = [rows |-> c.rows, threads |-> c.threads, kept |-> c.kept, live |-> c.live,
              attempt |-> c.attempt, reports |-> c.reports]
      /\ c.threads = [x \in DOMAIN c.rows |-> c.threads[x]]
  BY <1>1 DEF WellMade
<1>3. d = [c EXCEPT !.threads = [x \in DOMAIN c.rows |-> IF c.threads[x].stage = "queued"
                                   THEN [c.threads[x] EXCEPT !.stage = "cancelled"] ELSE c.threads[x]]]
  BY <1>2 DEF CancelRows
<1>. HIDE DEF c, d
<1>4. /\ d.rows = c.rows /\ d.kept = c.kept /\ d.reports = c.reports
      /\ d.threads = [x \in DOMAIN c.rows |-> IF c.threads[x].stage = "queued"
                         THEN [c.threads[x] EXCEPT !.stage = "cancelled"] ELSE c.threads[x]]
      /\ d = [rows |-> d.rows, threads |-> d.threads, kept |-> d.kept, live |-> d.live,
              attempt |-> d.attempt, reports |-> d.reports]
  BY <1>2, <1>3
<1>5. ASSUME NEW x \in DOMAIN c.rows
      PROVE  /\ InOrderOf(d.threads[x], c.rows[x])
             /\ d.threads[x].got = c.threads[x].got
             /\ d.threads[x].stage # "cancelled" => d.threads[x] = c.threads[x]
  <2>. DEFINE t == c.threads[x]
              u == d.threads[x]
  <2>1. InOrderOf(t, c.rows[x])
    BY <1>1 DEF WellMade
  <2>2. u = IF t.stage = "queued" THEN [t EXCEPT !.stage = "cancelled"] ELSE t
    BY <1>4
  <2>3. t = [stage |-> t.stage, got |-> t.got, answer |-> t.answer]
    BY <2>1 DEF InOrderOf
  <2>. HIDE DEF t, u
  <2>4. [t EXCEPT !.stage = "cancelled"] = [stage |-> "cancelled", got |-> t.got, answer |-> t.answer]
    BY <2>3
  <2>5. CASE t.stage = "queued"
    <3>1. u.stage = "cancelled" /\ u.got = t.got /\ u = [stage |-> u.stage, got |-> u.got, answer |-> u.answer]
      BY <2>2, <2>4, <2>5
    <3>. QED
      BY <2>1, <3>1 DEF InOrderOf, Working, t, u
  <2>6. CASE t.stage # "queued"
    BY <2>1, <2>2, <2>6 DEF t, u
  <2>. QED
    BY <2>5, <2>6
<1>6. \A x \in DOMAIN c.rows : d.threads[x].got = c.threads[x].got /\ At(d, x) = At(c, x)
  BY <1>4, <1>5 DEF At
<1>7. ASSUME NEW x \in DOMAIN c.rows, d.threads[x].stage \in Replied \cup {"failed"}
      PROVE  d.threads[x] = c.threads[x]
  BY <1>5, <1>7 DEF Replied
<1>8. \A q : On(d, q) = On(c, q) /\ Prior(d, q) = Prior(c, q)
  <2>1. SoFar(d) = SoFar(c)
    BY <1>4, <1>6 DEF SoFar
  <2>. QED
    BY <1>4, <2>1 DEF On, Prior
<1>9. WellMade(d)
  <2>1. Askable(d.rows) /\ d.reports \in Seq(ToSet(d.reports)) /\ d.threads = [x \in DOMAIN d.rows |-> d.threads[x]]
    BY <1>1, <1>4 DEF WellMade
  <2>2. d.reports # <<>> => /\ DOMAIN Last(d.reports) = DOMAIN d.rows
                            /\ \A x \in DOMAIN d.rows : DOMAIN Last(d.reports)[x] = DOMAIN d.rows[x]
    BY <1>1, <1>4 DEF WellMade
  <2>3. \A x \in DOMAIN d.rows : InOrderOf(d.threads[x], d.rows[x])
    BY <1>4, <1>5
  <2>. QED
    BY <1>4, <2>1, <2>2, <2>3 DEF WellMade
<1>10. FromTheModel(d)
  <2>1. ASSUME NEW x \in DOMAIN d.rows, d.threads[x].stage \in Replied
        PROVE  d.threads[x].answer \in Endpoint(At(d, x))
    <3>1. x \in DOMAIN c.rows /\ d.threads[x] = c.threads[x] /\ At(d, x) = At(c, x)
      BY <1>4, <1>6, <1>7, <2>1
    <3>. QED
      BY <1>1, <2>1, <3>1 DEF FromTheModel
  <2>2. \A q \in DOMAIN d.kept : d.kept[q] \in Endpoint(q)
    BY <1>1, <1>4 DEF FromTheModel
  <2>3. \A x \in DOMAIN d.rows : \A k \in DOMAIN d.threads[x].got :
           d.threads[x].got[k] \in Outcomes(d.rows[x][k])
    BY <1>1, <1>4, <1>6 DEF FromTheModel
  <2>. QED
    BY <2>1, <2>2, <2>3 DEF FromTheModel
<1>11. KeptIsRead(d)
  <2>1. ASSUME NEW q \in DOMAIN d.kept
        PROVE  /\ Read(q, d.kept[q]) # None
               /\ Read(q, d.kept[q]) \in On(d, q) \/ Untouched(d, q)
    <3>1. /\ q \in DOMAIN c.kept /\ d.kept[q] = c.kept[q] /\ On(d, q) = On(c, q)
          /\ Read(q, c.kept[q]) # None /\ (Read(q, c.kept[q]) \in On(c, q) \/ Untouched(c, q))
      BY <1>1, <1>4, <1>8 DEF KeptIsRead
    <3>2. SUFFICES ASSUME Untouched(c, q) PROVE Untouched(d, q)
      BY <3>1
    <3>3. ASSUME NEW x \in DOMAIN d.rows, d.threads[x].stage \in Replied, At(d, x) = q
          PROVE  d.threads[x].stage = "asked" /\ d.threads[x].answer = d.kept[q]
      <4>1. x \in DOMAIN c.rows /\ d.threads[x] = c.threads[x] /\ At(c, x) = q
        BY <1>4, <1>6, <1>7, <3>3
      <4>. QED
        BY <3>1, <3>2, <3>3, <4>1 DEF Untouched
    <3>. QED
      BY <3>1, <3>2, <3>3 DEF Untouched
  <2>2. \A x \in DOMAIN d.rows : \A k \in DOMAIN d.threads[x].got :
           d.threads[x].got[k] # None => d.rows[x][k] \in DOMAIN d.kept
    BY <1>1, <1>4, <1>6 DEF KeptIsRead
  <2>3. ASSUME NEW x \in DOMAIN d.rows, d.threads[x].stage = "keeping"
        PROVE  Read(At(d, x), d.threads[x].answer) # None
    <3>1. x \in DOMAIN c.rows /\ d.threads[x] = c.threads[x] /\ At(d, x) = At(c, x)
      BY <1>4, <1>6, <1>7, <2>3 DEF Replied
    <3>2. c.threads[x].stage = "keeping" => Read(At(c, x), c.threads[x].answer) # None
      BY <1>1, <3>1 DEF KeptIsRead
    <3>. QED
      BY <2>3, <3>1, <3>2
  <2>. QED
    BY <2>1, <2>2, <2>3 DEF KeptIsRead
<1>12. Replayed(d)
  <2>1. ASSUME NEW x \in DOMAIN d.rows, NEW k \in DOMAIN d.rows[x], Prior(d, d.rows[x][k]) # {}
        PROVE  /\ d.rows[x][k] \in DOMAIN d.kept
               /\ Read(d.rows[x][k], d.kept[d.rows[x][k]]) \in Prior(d, d.rows[x][k])
    <3>1. x \in DOMAIN c.rows /\ k \in DOMAIN c.rows[x] /\ Prior(c, c.rows[x][k]) # {}
      BY <1>4, <1>8, <2>1
    <3>2. /\ c.rows[x][k] \in DOMAIN c.kept
          /\ Read(c.rows[x][k], c.kept[c.rows[x][k]]) \in Prior(c, c.rows[x][k])
      BY <1>1, <3>1 DEF Replayed
    <3>. QED
      BY <1>4, <1>8, <3>2
  <2>2. ASSUME NEW x \in DOMAIN d.rows, d.threads[x].stage \in Replied, Prior(d, At(d, x)) # {}
        PROVE  d.threads[x].stage = "asked" /\ Read(At(d, x), d.threads[x].answer) \in Prior(d, At(d, x))
    <3>1. x \in DOMAIN c.rows /\ d.threads[x] = c.threads[x] /\ At(d, x) = At(c, x)
      BY <1>4, <1>6, <1>7, <2>2
    <3>2. Prior(c, At(c, x)) # {}
      BY <1>8, <2>2, <3>1
    <3>3. c.threads[x].stage = "asked" /\ Read(At(c, x), c.threads[x].answer) \in Prior(c, At(c, x))
      BY <1>1, <2>2, <3>1, <3>2 DEF Replayed
    <3>. QED
      BY <1>8, <3>1, <3>3
  <2>3. ASSUME NEW x \in DOMAIN d.rows, NEW k \in DOMAIN d.threads[x].got, Prior(d, d.rows[x][k]) # {}
        PROVE  d.threads[x].got[k] \in Prior(d, d.rows[x][k])
    <3>1. /\ x \in DOMAIN c.rows /\ k \in DOMAIN c.threads[x].got /\ Prior(c, c.rows[x][k]) # {}
          /\ d.threads[x].got[k] = c.threads[x].got[k]
      BY <1>4, <1>6, <1>8, <2>3
    <3>2. c.threads[x].got[k] \in Prior(c, c.rows[x][k])
      BY <1>1, <3>1 DEF Replayed
    <3>. QED
      BY <1>4, <1>8, <3>1, <3>2
  <2>4. ASSUME d.reports # <<>>, Complete(Last(d.reports)), NEW x \in DOMAIN d.rows
        PROVE  d.threads[x].stage # "failed"
    <3>1. SUFFICES ASSUME d.threads[x].stage = "failed" PROVE FALSE
      OBVIOUS
    <3>2. x \in DOMAIN c.rows /\ c.threads[x].stage = "failed"
      BY <1>4, <1>7, <3>1
    <3>. QED
      BY <1>1, <1>4, <2>4, <3>2 DEF Replayed
  <2>. QED
    BY <2>1, <2>2, <2>3, <2>4 DEF Replayed
<1>. QED
  BY <1>9, <1>10, <1>11, <1>12 DEF Consistent, d

\* A thread that has not started.
LEMMA FreshThread ==
    ASSUME NEW row, row \in Seq(ToSet(row)) \ {<<>>}
    PROVE  InOrderOf(Fresh, row) /\ Fresh.got = <<>> /\ Fresh.stage = "queued"
<1>1. Fresh.got = <<>> /\ Fresh.stage = "queued" /\ Fresh = [stage |-> Fresh.stage, got |-> Fresh.got, answer |-> Fresh.answer]
  BY DEF Fresh
<1>2. Len(row) \in Nat /\ Len(row) # 0
  BY LenProperties, EmptySeq
<1>3. <<>> \in Seq(ToSet(<<>>)) /\ Len(<<>>) = 0
  BY EmptySeq
<1>4. /\ Fresh.got \in Seq(ToSet(Fresh.got)) /\ Len(Fresh.got) <= Len(row)
      /\ Fresh.stage \in Working => Len(Fresh.got) < Len(row)
      /\ Fresh.stage = "done" => Len(Fresh.got) = Len(row)
  BY <1>1, <1>2, <1>3
<1>. QED
  BY <1>1, <1>4 DEF InOrderOf

\* A run that begins agrees with the one that was last reported, if what is kept does.
LEMMA RunStarts ==
    ASSUME NEW d, Askable(d.rows),
           d = [rows |-> d.rows, threads |-> d.threads, kept |-> d.kept, live |-> d.live,
                attempt |-> d.attempt, reports |-> d.reports],
           d.threads = [r \in DOMAIN d.rows |-> Fresh],
           d.reports \in Seq(ToSet(d.reports)),
           d.reports # <<>> => /\ DOMAIN Last(d.reports) = DOMAIN d.rows
                               /\ \A r \in DOMAIN d.rows : DOMAIN Last(d.reports)[r] = DOMAIN d.rows[r],
           \A p \in DOMAIN d.kept : d.kept[p] \in Endpoint(p) /\ Read(p, d.kept[p]) # None,
           \A p : Prior(d, p) # {} => p \in DOMAIN d.kept /\ Read(p, d.kept[p]) \in Prior(d, p)
    PROVE  Consistent(d)
<1>1. ASSUME NEW r \in DOMAIN d.rows
      PROVE  /\ InOrderOf(d.threads[r], d.rows[r]) /\ d.threads[r].got = <<>>
             /\ d.threads[r].stage = "queued" /\ DOMAIN d.threads[r].got = {}
  <2>1. d.rows[r] \in Seq(ToSet(d.rows[r])) \ {<<>>}
    BY DEF Askable
  <2>2. d.threads[r] = Fresh
    OBVIOUS
  <2>. QED
    BY <2>1, <2>2, FreshThread
<1>2. WellMade(d)
  BY <1>1 DEF WellMade
<1>3. FromTheModel(d)
  BY <1>1 DEF FromTheModel, Replied
<1>4. KeptIsRead(d)
  <2>1. \A q, w : w \notin On(d, q)
    BY <1>1, OnMeans DEF RowSays
  <2>2. \A q : Untouched(d, q)
    BY <1>1, <2>1 DEF Untouched, Replied
  <2>. QED
    BY <1>1, <2>2 DEF KeptIsRead
<1>5. Replayed(d)
  BY <1>1 DEF Replayed, Replied
<1>. QED
  BY <1>2, <1>3, <1>4, <1>5 DEF Consistent

JudgingInv == pool \in Pools /\ chat.rows \in Batches(pool) /\ Consistent(chat)

\* A batch can be asked.
LEMMA BatchIsAskable == ASSUME NEW facts \in Pools, NEW batch \in Batches(facts) PROVE Askable(batch)
<1>1. /\ batch \in Seq(ToSet(batch))
      /\ \A row \in ToSet(batch) : row \in Seq(ToSet(row)) \ {<<>>}
  BY JudgingAssumption
<1>2. \A r \in DOMAIN batch : batch[r] \in ToSet(batch)
  BY DEF ToSet
<1>. QED
  BY <1>1, <1>2 DEF Askable

\* A batch that has not been asked is consistent with what was reported, which is nothing.
LEMMA JudgingStarts == JudgingInit => JudgingInv
<1>. SUFFICES ASSUME JudgingInit PROVE JudgingInv
  OBVIOUS
<1>1. PICK batch \in Batches(pool) :
         chat = [rows |-> batch, threads |-> [r \in DOMAIN batch |-> Fresh], kept |-> <<>>,
                 live |-> TRUE, attempt |-> 1, reports |-> <<>>]
  BY DEF JudgingInit
<1>2. pool \in Pools /\ Askable(batch)
  BY BatchIsAskable DEF JudgingInit
<1>. DEFINE d == chat
<1>3. /\ d.rows = batch /\ d.threads = [r \in DOMAIN d.rows |-> Fresh] /\ d.kept = <<>>
      /\ d.reports = <<>>
      /\ d = [rows |-> d.rows, threads |-> d.threads, kept |-> d.kept, live |-> d.live,
              attempt |-> d.attempt, reports |-> d.reports]
  BY <1>1
<1>4. DOMAIN d.kept = {} /\ d.reports \in Seq(ToSet(d.reports))
  BY <1>3, EmptySeq
<1>5. \A p : Prior(d, p) = {}
  BY <1>3 DEF Prior
<1>6. Consistent(d)
  <2>. HIDE DEF d
  <2>. QED
    BY <1>2, <1>3, <1>4, <1>5, RunStarts
<1>. QED
  BY <1>2, <1>3, <1>6 DEF JudgingInv

\* The next run: what the last one read is kept, as some row read it.
LEMMA AgainKeeps == ASSUME Consistent(chat), AskAgain PROVE Consistent(chat')
<1>. DEFINE c == chat
            d == chat'
<1>1. WellMade(c) /\ FromTheModel(c) /\ KeptIsRead(c) /\ Replayed(c)
  BY DEF Consistent
<1>2. /\ c = [rows |-> c.rows, threads |-> c.threads, kept |-> c.kept, live |-> c.live,
              attempt |-> c.attempt, reports |-> c.reports]
      /\ c.threads = [x \in DOMAIN c.rows |-> c.threads[x]]
      /\ Askable(c.rows)
  BY <1>1 DEF WellMade
<1>3. Got = SoFar(c)
  BY DEF Got, SoFar
<1>4. Finished => \A r \in DOMAIN c.rows : c.threads[r].stage = "done"
  BY DEF Finished
<1>5. PICK live \in BOOLEAN :
         d = [c EXCEPT !.threads = [r \in DOMAIN c.rows |-> Fresh], !.live = live,
                       !.attempt = c.attempt + 1,
                       !.reports = IF Finished THEN Append(c.reports, SoFar(c)) ELSE c.reports]
  BY <1>2, <1>3 DEF AskAgain
<1>. HIDE DEF c, d
<1>6. /\ d.rows = c.rows /\ d.kept = c.kept /\ d.threads = [r \in DOMAIN d.rows |-> Fresh]
      /\ d.reports = IF Finished THEN Append(c.reports, SoFar(c)) ELSE c.reports
      /\ d = [rows |-> d.rows, threads |-> d.threads, kept |-> d.kept, live |-> d.live,
              attempt |-> d.attempt, reports |-> d.reports]
  BY <1>2, <1>5
<1>7. \A p \in DOMAIN d.kept : d.kept[p] \in Endpoint(p) /\ Read(p, d.kept[p]) # None
  BY <1>1, <1>6 DEF FromTheModel, KeptIsRead
<1>8. c.reports \in Seq(ToSet(c.reports))
  BY <1>1 DEF WellMade
<1>9. CASE Finished
  <2>. DEFINE got == SoFar(c)
              past == Append(c.reports, got)
  <2>1. past \in Seq(ToSet(c.reports) \cup {got}) /\ Len(past) = Len(c.reports) + 1
        /\ past[Len(c.reports) + 1] = got /\ Len(c.reports) \in Nat
    <3>1. c.reports \in Seq(ToSet(c.reports) \cup {got}) /\ got \in ToSet(c.reports) \cup {got}
      BY <1>8
    <3>. HIDE DEF got
    <3>. QED
      BY <3>1, AppendProperties, LenProperties
  <2>2. past \in Seq(ToSet(past))
    <3>. DEFINE D == ToSet(c.reports) \cup {got}
    <3>1. past \in Seq(D)
      BY <2>1
    <3>. HIDE DEF D, past
    <3>. QED
      BY <3>1, TextOf DEF IsText
  <2>. HIDE DEF got
  <2>3. past # <<>> /\ Last(past) = got
    <3>1. Len(past) # 0
      BY <2>1
    <3>2. past # <<>>
      BY <3>1, EmptySeq
    <3>3. Last(past) = past[Len(past)]
      BY DEF Last
    <3>. HIDE DEF past
    <3>. QED
      BY <2>1, <3>2, <3>3
  <2>. HIDE DEF past
  <2>4. d.reports = past
    BY <1>6, <1>9 DEF past, got
  <2>5. ASSUME NEW r \in DOMAIN d.rows PROVE DOMAIN Last(d.reports)[r] = DOMAIN d.rows[r]
    <3>1. got[r] = c.threads[r].got /\ c.threads[r].stage = "done"
      BY <1>4, <1>6, <1>9 DEF got, SoFar
    <3>2. /\ c.threads[r].got \in Seq(ToSet(c.threads[r].got))
          /\ c.rows[r] \in Seq(ToSet(c.rows[r])) /\ Len(c.threads[r].got) = Len(c.rows[r])
      BY <1>1, <1>6, <3>1 DEF WellMade, InOrderOf, Askable
    <3>3. DOMAIN c.threads[r].got = DOMAIN c.rows[r]
      BY <3>2, LenProperties
    <3>. QED
      BY <1>6, <2>3, <2>4, <3>1, <3>3
  <2>6. DOMAIN Last(d.reports) = DOMAIN d.rows
    BY <1>6, <2>3, <2>4 DEF got, SoFar
  <2>7. ASSUME NEW p, Prior(d, p) # {}
        PROVE  p \in DOMAIN d.kept /\ Read(p, d.kept[p]) \in Prior(d, p)
    <3>1. Prior(d, p) = On(c, p) \ {None}
      BY <1>6, <2>3, <2>4 DEF Prior, On, got
    <3>2. PICK w \in On(c, p) : w # None
      BY <2>7, <3>1
    <3>3. PICK r \in DOMAIN c.rows : RowSays(c, r, p, w)
      BY OnMeans
    <3>4. PICK k \in DOMAIN c.threads[r].got : c.rows[r][k] = p /\ w = c.threads[r].got[k]
      BY <3>3 DEF RowSays
    <3>5. p \in DOMAIN c.kept
      BY <1>1, <3>2, <3>4 DEF KeptIsRead
    <3>6. Read(p, c.kept[p]) # None /\ (Read(p, c.kept[p]) \in On(c, p) \/ Untouched(c, p))
      BY <1>1, <3>5 DEF KeptIsRead
    <3>7. ~Untouched(c, p)
      BY <3>2 DEF Untouched
    <3>. QED
      BY <1>6, <3>1, <3>5, <3>6, <3>7
  <2>8. d.reports \in Seq(ToSet(d.reports))
    BY <2>2, <2>4
  <2>9. d.reports # <<>> => /\ DOMAIN Last(d.reports) = DOMAIN d.rows
                            /\ \A r \in DOMAIN d.rows : DOMAIN Last(d.reports)[r] = DOMAIN d.rows[r]
    BY <2>5, <2>6
  <2>10. \A p : Prior(d, p) # {} => p \in DOMAIN d.kept /\ Read(p, d.kept[p]) \in Prior(d, p)
    BY <2>7
  <2>11. Askable(d.rows)
    BY <1>2, <1>6
  <2>. QED
    BY <1>6, <1>7, <2>8, <2>9, <2>10, <2>11, RunStarts DEF d
<1>10. CASE ~Finished
  <2>1. d.reports = c.reports
    BY <1>6, <1>10
  <2>2. d.reports \in Seq(ToSet(d.reports))
    BY <1>8, <2>1
  <2>3. d.reports # <<>> => /\ DOMAIN Last(d.reports) = DOMAIN d.rows
                            /\ \A r \in DOMAIN d.rows : DOMAIN Last(d.reports)[r] = DOMAIN d.rows[r]
    BY <1>1, <1>6, <2>1 DEF WellMade
  <2>4. ASSUME NEW p, Prior(d, p) # {}
        PROVE  p \in DOMAIN d.kept /\ Read(p, d.kept[p]) \in Prior(d, p)
    <3>. DEFINE last == Last(c.reports)
    <3>1. Prior(d, p) = Prior(c, p) /\ c.reports # <<>> /\ Prior(c, p) = VerdictsOn(c.rows, last, p) \ {None}
      BY <1>6, <2>1, <2>4 DEF Prior
    <3>2. PICK r \in DOMAIN last : \E k \in DOMAIN last[r] : c.rows[r][k] = p
      BY <2>4, <3>1 DEF VerdictsOn
    <3>3. PICK k \in DOMAIN last[r] : c.rows[r][k] = p
      BY <3>2
    <3>4. r \in DOMAIN c.rows /\ k \in DOMAIN c.rows[r]
      BY <1>1, <3>1 DEF WellMade
    <3>5. p \in DOMAIN c.kept /\ Read(p, c.kept[p]) \in Prior(c, p)
      BY <1>1, <2>4, <3>1, <3>3, <3>4 DEF Replayed
    <3>. QED
      BY <1>6, <3>1, <3>5
  <2>5. \A p : Prior(d, p) # {} => p \in DOMAIN d.kept /\ Read(p, d.kept[p]) \in Prior(d, p)
    BY <2>4
  <2>6. Askable(d.rows)
    BY <1>2, <1>6
  <2>. QED
    BY <1>6, <1>7, <2>2, <2>3, <2>5, <2>6, RunStarts DEF d
<1>. QED
  BY <1>9, <1>10

\* Every step keeps the invariant.
LEMMA JudgingStep == ASSUME JudgingInv, [Judge]_judgingVars PROVE JudgingInv'
<1>1. Consistent(chat')
  <2>1. CASE UNCHANGED judgingVars
    BY <2>1 DEF judgingVars, JudgingInv
  <2>. QED
    BY <2>1, AskKeeps, LookKeeps, StoreKeeps, CancelKeeps, AgainKeeps DEF JudgingInv, Judge
<1>2. chat'.rows = chat.rows
  <2>1. chat = [rows |-> chat.rows, threads |-> chat.threads, kept |-> chat.kept, live |-> chat.live,
                attempt |-> chat.attempt, reports |-> chat.reports]
    BY DEF JudgingInv, Consistent, WellMade
  <2>2. ASSUME NEW r, AskModel(r) PROVE chat'.rows = chat.rows
    BY <2>1, <2>2 DEF AskModel
  <2>3. ASSUME NEW r, Look(r) PROVE chat'.rows = chat.rows
    BY <2>1, <2>3 DEF Look
  <2>4. ASSUME NEW r, Store(r) PROVE chat'.rows = chat.rows
    BY <2>1, <2>4 DEF Store
  <2>5. CASE CancelRows
    BY <2>1, <2>5 DEF CancelRows
  <2>6. CASE AskAgain
    BY <2>1, <2>6 DEF AskAgain
  <2>. QED
    BY <2>2, <2>3, <2>4, <2>5, <2>6 DEF Judge, judgingVars
<1>3. UNCHANGED pool
  BY DEF Judge, AskModel, Look, Store, CancelRows, AskAgain, judgingVars
<1>. QED
  BY <1>1, <1>2, <1>3 DEF JudgingInv

\* What is kept of the replies, for any batches, replies, threads and number of runs (CachedChat).
THEOREM JudgingInvHolds == JudgingSpec => []JudgingInv
  BY JudgingStarts, JudgingStep, PTL DEF JudgingSpec

\* What the invariant says of a replay.
LEMMA ReplaysAreRight == ASSUME JudgingInv PROVE ReplaysAgree
<1>. DEFINE c == chat
<1>1. WellMade(c) /\ Replayed(c)
  BY DEF JudgingInv, Consistent
<1>2. SUFFICES ASSUME c.reports # <<>>
      PROVE  LET report == Last(c.reports)
             IN  /\ \A r \in DOMAIN c.rows : \A k \in DOMAIN Got[r] :
                      LET before == Reported(report, c.rows[r][k]) \ {None}
                      IN  before # {} => Got[r][k] \in before
                 /\ ~c.live /\ (\A r \in DOMAIN report : \A k \in DOMAIN report[r] : report[r][k] # None) =>
                      \A r \in DOMAIN c.rows : c.threads[r].stage # "failed"
  BY Zenon DEF ReplaysAgree
<1>3. \A p : Reported(Last(c.reports), p) \ {None} = Prior(c, p)
  BY <1>2 DEF Reported, Prior, VerdictsOn
<1>4. \A r \in DOMAIN c.rows : Got[r] = c.threads[r].got
  BY DEF Got
<1>5. \A r \in DOMAIN c.rows : \A k \in DOMAIN c.threads[r].got : Prior(c, c.rows[r][k]) # {} =>
          c.threads[r].got[k] \in Prior(c, c.rows[r][k])
  BY <1>1 DEF Replayed
<1>6. Complete(Last(c.reports)) => \A r \in DOMAIN c.rows : c.threads[r].stage # "failed"
  BY <1>1, <1>2 DEF Replayed
<1>. HIDE DEF c
<1>7. ASSUME NEW r \in DOMAIN c.rows, NEW k \in DOMAIN Got[r],
             Reported(Last(c.reports), c.rows[r][k]) \ {None} # {}
      PROVE  Got[r][k] \in Reported(Last(c.reports), c.rows[r][k]) \ {None}
  BY <1>3, <1>4, <1>5, <1>7
<1>. QED
  BY <1>6, <1>7 DEF Complete

Columns(m, R, V, s) == [v \in V |-> SumFunctionOnSet([r \in R |-> m[r][v]], s)]

\* Sums by row and by column add up to the same.
LEMMA SumByColumns ==
    ASSUME NEW R, NEW V, IsFiniteSet(R), NEW m, NEW size,
           \A r \in R : Naturals1(m[r], V) /\ SumFunctionOnSet(m[r], V) = size[r],
           IsFiniteSet(V), \A r \in R : size[r] \in Nat
    PROVE  SumFunctionOnSet(Columns(m, R, V, R), V) = SumFunctionOnSet(size, R)
<1>. DEFINE col(v) == [r \in R |-> m[r][v]]
            Good == {s \in SUBSET R : SumFunctionOnSet(Columns(m, R, V, s), V) = SumFunctionOnSet(size, s)}
<1>1. \A v \in V : Naturals1(col(v), R)
  BY DEF Naturals1
<1>2. Naturals1(size, R)
  BY DEF Naturals1
<1>3. ASSUME NEW s \in SUBSET R
      PROVE  /\ Naturals1(Columns(m, R, V, s), V)
             /\ \A v \in V : Columns(m, R, V, s)[v] = SumFunctionOnSet(col(v), s)
  <2>1. \A v \in V : Columns(m, R, V, s)[v] = SumFunctionOnSet(col(v), s)
    BY DEF Columns
  <2>2. ASSUME NEW v \in V PROVE SumFunctionOnSet(col(v), s) \in Nat
    <3>1. Naturals1(col(v), s)
      BY <1>1, FS_Subset DEF Naturals1
    <3>. QED
      BY <3>1, SumType
  <2>. QED
    BY <2>1, <2>2 DEF Naturals1
<1>4. {} \in Good
  <2>. DEFINE zero == Columns(m, R, V, {})
              Zeros == {u \in SUBSET V : SumFunctionOnSet(zero, u) = 0}
  <2>1. Naturals1(zero, V) /\ \A v \in V : zero[v] = SumFunctionOnSet(col(v), {})
    BY <1>3
  <2>2. \A v \in V : zero[v] = 0
    BY <2>1, SumEmpty
  <2>. HIDE DEF zero
  <2>3. {} \in Zeros
    BY SumEmpty
  <2>4. ASSUME NEW u \in SUBSET V, NEW v \in V \ u, u \in Zeros PROVE u \cup {v} \in Zeros
    <3>1. AddsUp(zero, u, v)
      BY <2>1, SumStep
    <3>2. SumFunctionOnSet(zero, u \cup {v}) = 0
      BY <2>2, <2>4, <3>1 DEF AddsUp
    <3>. QED
      BY <3>2
  <2>5. V \in Zeros
    <3>. HIDE DEF Zeros
    <3>. QED
      BY <2>3, <2>4, SetInduction
  <2>. QED
    BY <2>5, SumEmpty DEF zero
<1>5. ASSUME NEW s \in SUBSET R, NEW x \in R \ s, s \in Good PROVE s \cup {x} \in Good
  <2>. DEFINE before == Columns(m, R, V, s)
              after == Columns(m, R, V, s \cup {x})
  <2>1. Naturals1(before, V) /\ \A v \in V : before[v] = SumFunctionOnSet(col(v), s)
    BY <1>3
  <2>2. s \cup {x} \in SUBSET R
    OBVIOUS
  <2>3. \A v \in V : after[v] = SumFunctionOnSet(col(v), s \cup {x})
    BY <1>3, <2>2
  <2>4. ASSUME NEW v \in V PROVE after[v] = before[v] + m[x][v]
    <3>. DEFINE f == col(v)
    <3>1. f[x] = m[x][v]
      OBVIOUS
    <3>2. Naturals1(f, R)
      BY <1>1
    <3>3. before[v] = SumFunctionOnSet(f, s) /\ after[v] = SumFunctionOnSet(f, s \cup {x})
      BY <2>1, <2>3
    <3>. HIDE DEF f, before, after
    <3>4. AddsUp(f, s, x)
      BY <3>2, SumStep
    <3>5. SumFunctionOnSet(f, s) \in Nat /\ f[x] \in Nat /\ SumFunctionOnSet(f, s \cup {x}) = f[x] + SumFunctionOnSet(f, s)
      BY <3>4 DEF AddsUp
    <3>. QED
      BY <3>1, <3>3, <3>5
  <2>. DEFINE row == m[x]
  <2>5. Naturals1(row, V) /\ SumFunctionOnSet(row, V) = size[x]
    OBVIOUS
  <2>6. \A v \in V : after[v] = before[v] + row[v]
    BY <2>4
  <2>. HIDE DEF before, after, row
  <2>7. SumFunctionOnSet(after, V) = SumFunctionOnSet(before, V) + SumFunctionOnSet(row, V)
    BY <2>1, <2>5, <2>6, SumPlus
  <2>8. AddsUp(size, s, x)
    BY <1>2, SumStep
  <2>9. SumFunctionOnSet(before, V) = SumFunctionOnSet(size, s)
    BY <1>5 DEF before
  <2>10. SumFunctionOnSet(after, V) = SumFunctionOnSet(size, s \cup {x})
    BY <2>5, <2>7, <2>8, <2>9 DEF AddsUp
  <2>. QED
    BY <2>10 DEF after
<1>6. R \in Good
  <2>. HIDE DEF Good
  <2>. QED
    BY <1>4, <1>5, SetInduction
<1>. QED
  BY <1>6

\* Verdicts of documents: every fact of a document that was read has one.
LEMMA TallyAddsUp ==
    ASSUME JudgingInv, Finished
    PROVE  Tally.facts = SumFunction(Tally.verdicts)
<1>. DEFINE checks == {r \in DOMAIN chat.rows : chat.rows[r][1].kind = "check"}
            R == {r \in checks : Got[r][1] # None}
            m == [r \in R |-> [v \in Verdicts |-> Cardinality({k \in DOMAIN Got[r][1] : Got[r][1][k] = v})]]
            size == [r \in R |-> chat.rows[r][1].n]
<1>1. WellMade(chat) /\ FromTheModel(chat)
  BY DEF JudgingInv, Consistent
<1>2. IsFiniteSet(R) /\ IsFiniteSet(Verdicts)
  <2>1. chat.rows \in Seq(ToSet(chat.rows))
    BY <1>1 DEF WellMade, Askable
  <2>2. Len(chat.rows) \in Nat /\ DOMAIN chat.rows = 1 .. Len(chat.rows)
    BY <2>1, LenProperties
  <2>3. IsFiniteSet(DOMAIN chat.rows)
    BY <2>2, SomePlaces
  <2>4. R \subseteq DOMAIN chat.rows
    OBVIOUS
  <2>5. IsFiniteSet(R)
    <3>. HIDE DEF R
    <3>. QED
      BY <2>3, <2>4, FS_Subset
  <2>6. IsFiniteSet({"STATED", "WRONG", "MISSING"})
    BY FS_EmptySet, FS_AddElement, FS_Singleton, IsFiniteSet({"STATED"} \cup {"WRONG"}),
       {"STATED", "WRONG", "MISSING"} = ({"STATED"} \cup {"WRONG"}) \cup {"MISSING"}
  <2>. QED
    BY <2>5, <2>6 DEF Verdicts
<1>3. ASSUME NEW r \in R
      PROVE  size[r] \in Nat /\ Got[r][1] \in [1 .. size[r] -> Verdicts]
  <2>. DEFINE row == chat.rows[r]
              p == row[1]
  <2>1. /\ r \in DOMAIN chat.rows /\ p.kind = "check" /\ Got[r][1] # None /\ size[r] = p.n
        /\ Got[r] = chat.threads[r].got /\ chat.threads[r].stage = "done"
    BY DEF Got, Finished
  <2>2. row \in ToSet(chat.rows)
    BY <2>1 DEF ToSet
  <2>3. row \in Seq(ToSet(row)) \ {<<>>}
    BY <1>1, <2>1 DEF WellMade, Askable
  <2>4. /\ chat.threads[r].got \in Seq(ToSet(chat.threads[r].got))
        /\ Len(chat.threads[r].got) = Len(row)
    BY <1>1, <2>1 DEF WellMade, InOrderOf
  <2>5. Len(row) \in Nat /\ Len(row) # 0 /\ DOMAIN row = 1 .. Len(row)
    BY <2>3, LenProperties, EmptySeq
  <2>6. DOMAIN chat.threads[r].got = 1 .. Len(row)
    BY <2>4, LenProperties
  <2>7. 1 \in DOMAIN row /\ 1 \in DOMAIN chat.threads[r].got
    BY <2>5, <2>6
  <2>8. p \in ToSet(row)
    BY <2>7 DEF ToSet
  <2>9. Got[r][1] \in Outcomes(p)
    BY <1>1, <2>1, <2>7 DEF FromTheModel
  <2>. HIDE DEF row, p, size
  <2>10. PICK a \in Endpoint(p) : Got[r][1] = Read(p, a)
    BY <2>9 DEF Outcomes
  <2>11. Read(p, a) = Parsed(p, a)
    BY <2>1 DEF Read
  <2>12. a.extra /\ DOMAIN a.verdicts = 1 .. p.n /\ Got[r][1] = a.verdicts
    BY <2>1, <2>10, <2>11 DEF Parsed
  <2>13. chat.rows \in Batches(pool) /\ pool \in Pools
    BY DEF JudgingInv
  <2>14. p.n \in Nat /\ a.verdicts \in [1 .. p.n -> Verdicts]
    BY <2>1, <2>2, <2>8, <2>10, <2>12, <2>13, JudgingAssumption
  <2>. QED
    BY <2>1, <2>12, <2>14
<1>4. ASSUME NEW r \in R
      PROVE  Naturals1(m[r], Verdicts) /\ SumFunctionOnSet(m[r], Verdicts) = size[r] /\ size[r] \in Nat
  <2>. DEFINE f == Got[r][1]
              n == size[r]
              S == 1 .. n
              count == m[r]
  <2>1. n \in Nat /\ f \in [S -> Verdicts]
    BY <1>3
  <2>2. \A v \in Verdicts : count[v] = Cardinality({k \in S : f[k] = v})
    <3>1. DOMAIN f = S
      BY <2>1
    <3>2. \A v \in Verdicts : count[v] = Cardinality({k \in DOMAIN f : f[k] = v})
      OBVIOUS
    <3>. HIDE DEF f, S, count
    <3>. QED
      BY <3>1, <3>2
  <2>. HIDE DEF f, n, count, R
  <2>3. IsFiniteSet(S) /\ Cardinality(S) = n
    BY <2>1, SomePlaces
  <2>. HIDE DEF S
  <2>4. SumFunctionOnSet(count, Verdicts) = n
    BY <1>2, <2>1, <2>2, <2>3, SumOfClasses
  <2>5. ASSUME NEW v \in Verdicts PROVE count[v] \in Nat
    <3>. DEFINE C == {k \in S : f[k] = v}
    <3>1. C \in SUBSET S /\ count[v] = Cardinality(C)
      BY <2>2
    <3>. HIDE DEF C
    <3>. QED
      BY <2>3, <3>1, FS_Subset, FS_CardinalityType
  <2>. QED
    BY <1>2, <2>1, <2>4, <2>5 DEF Naturals1, n, count
<1>5. /\ Tally.facts = SumFunctionOnSet(size, R)
      /\ Tally.verdicts = Columns(m, R, Verdicts, R)
      /\ DOMAIN Tally.verdicts = Verdicts
  <2>1. DOMAIN size = R
    OBVIOUS
  <2>2. Tally.facts = SumFunction(size)
    BY DEF Tally
  <2>3. Tally.facts = SumFunctionOnSet(size, R)
    BY <2>1, <2>2 DEF SumFunction
  <2>. DEFINE counted(v) == [r \in R |-> Cardinality({k \in DOMAIN Got[r][1] : Got[r][1][k] = v})]
  <2>4. Tally.verdicts = [v \in Verdicts |-> SumFunction(counted(v))]
    BY DEF Tally
  <2>5. \A v : SumFunction(counted(v)) = SumFunctionOnSet(counted(v), R)
    BY DEF SumFunction
  <2>6. \A v \in Verdicts : counted(v) = [r \in R |-> m[r][v]]
    OBVIOUS
  <2>7. Columns(m, R, Verdicts, R) = [v \in Verdicts |-> SumFunctionOnSet([r \in R |-> m[r][v]], R)]
    BY DEF Columns
  <2>. HIDE DEF counted, m, R, size
  <2>8. Tally.verdicts = Columns(m, R, Verdicts, R)
    BY <2>4, <2>5, <2>6, <2>7
  <2>9. DOMAIN Tally.verdicts = Verdicts
    BY <2>4
  <2>. QED
    BY <2>3, <2>8, <2>9
<1>. HIDE DEF m, R, size
<1>6. SumFunctionOnSet(Columns(m, R, Verdicts, R), Verdicts) = SumFunctionOnSet(size, R)
  BY <1>2, <1>4, SumByColumns
<1>7. SumFunction(Tally.verdicts) = SumFunctionOnSet(Tally.verdicts, DOMAIN Tally.verdicts)
  BY DEF SumFunction
<1>. QED
  BY <1>5, <1>6, <1>7

\* the cases of a label, and those that a judgement gives an outcome
OfLabel(label) == {r \in Judged : CaseOf(r).label = label}
Counted(given, label, said) == {r \in OfLabel(label) : given[r] = said}

\* There are finitely many cases.
LEMMA JudgedAreFinite ==
    ASSUME JudgingInv
    PROVE  IsFiniteSet(Judged) /\ \A label : IsFiniteSet(OfLabel(label))
<1>1. chat.rows \in Seq(ToSet(chat.rows))
  BY DEF JudgingInv, Consistent, WellMade, Askable
<1>2. Len(chat.rows) \in Nat /\ DOMAIN chat.rows = 1 .. Len(chat.rows)
  BY <1>1, LenProperties
<1>3. IsFiniteSet(DOMAIN chat.rows)
  BY <1>2, SomePlaces
<1>4. Judged \subseteq DOMAIN chat.rows
  BY DEF Judged
<1>5. IsFiniteSet(Judged)
  BY <1>3, <1>4, FS_Subset
<1>6. \A label : OfLabel(label) \subseteq Judged
  BY DEF OfLabel
<1>. QED
  BY <1>5, <1>6, FS_Subset

\* A judgement that says yes or no of every case counts each case of a label once.
LEMMA LabelsSplit ==
    ASSUME JudgingInv, NEW given, \A r \in Judged : given[r] \in BOOLEAN, NEW label
    PROVE  Cardinality(Counted(given, label, TRUE)) + Cardinality(Counted(given, label, FALSE))
              = Cardinality(OfLabel(label))
<1>. DEFINE S == OfLabel(label)
            yes == Counted(given, label, TRUE)
            no == Counted(given, label, FALSE)
<1>1. IsFiniteSet(S)
  BY JudgedAreFinite
<1>2. yes \subseteq S /\ no \subseteq S
  BY DEF Counted
<1>3. yes \cap no = {}
  BY DEF Counted
<1>4. yes \cup no = S
  <2>1. \A r \in S : given[r] = TRUE \/ given[r] = FALSE
    BY DEF OfLabel
  <2>. QED
    BY <2>1 DEF Counted
<1>. HIDE DEF S, yes, no
<1>5. IsFiniteSet(yes) /\ IsFiniteSet(no)
  BY <1>1, <1>2, FS_Subset
<1>6. Cardinality(S) = Cardinality(yes) + Cardinality(no)
  BY <1>3, <1>4, <1>5, DisjointSize
<1>. QED
  BY <1>6 DEF S, yes, no

ByMatcher == [r \in Judged |-> Matched(r)]
ByJudge == [r \in Judged |-> Verdict(r)]

\* What is reported are those counts.
LEMMA RatesAreCounts ==
    ASSUME NEW label \in BOOLEAN, NEW said \in BOOLEAN
    PROVE  /\ JudgeReport.matcher[<<label, said>>] = Cardinality(Counted(ByMatcher, label, said))
           /\ JudgeReport.judge[<<label, said>>] = Cardinality(Counted(ByJudge, label, said))
<1>1. <<label, said>> \in BOOLEAN \X BOOLEAN
  OBVIOUS
<1>2. /\ JudgeReport.matcher = [o \in BOOLEAN \X BOOLEAN |->
            Cardinality({r \in Judged : <<CaseOf(r).label, Matched(r)>> = o})]
      /\ JudgeReport.judge = [o \in BOOLEAN \X BOOLEAN |->
            Cardinality({r \in Judged : <<CaseOf(r).label, Verdict(r)>> = o})]
  BY DEF JudgeReport, Rates
<1>3. {r \in Judged : <<CaseOf(r).label, Matched(r)>> = <<label, said>>} = Counted(ByMatcher, label, said)
  BY DEF Counted, OfLabel, ByMatcher
<1>4. {r \in Judged : <<CaseOf(r).label, Verdict(r)>> = <<label, said>>} = Counted(ByJudge, label, said)
  BY DEF Counted, OfLabel, ByJudge
<1>. QED
  BY <1>1, <1>2, <1>3, <1>4

\* The matcher and the judge say yes or no, and the judge what the matcher says where it has no
\* verdict.
LEMMA JudgementsAreYesOrNo ==
    /\ \A r \in Judged : ByMatcher[r] \in BOOLEAN /\ ByJudge[r] \in BOOLEAN
    /\ \A r \in Judged : Got[r][1] = None => ByJudge[r] = ByMatcher[r]
    /\ \A r \in Judged : Got[r][1] # None => (ByJudge[r] <=> Got[r][1] = "YES")
<1>1. \A r \in Judged : Matched(r) \in BOOLEAN
  BY DEF Matched, Covers
<1>2. \A r \in Judged : Got[r][1] = None => Verdict(r) = Matched(r)
  BY DEF Verdict
<1>3. \A r \in Judged : Got[r][1] # None => Verdict(r) = (Got[r][1] = "YES")
  BY DEF Verdict
<1>4. \A r \in Judged : ByMatcher[r] = Matched(r) /\ ByJudge[r] = Verdict(r)
  BY DEF ByMatcher, ByJudge
<1>5. ASSUME NEW r \in Judged PROVE Verdict(r) \in BOOLEAN
  <2>1. CASE Got[r][1] = None
    BY <1>1, <1>2, <2>1
  <2>2. CASE Got[r][1] # None
    BY <1>3, <2>2
  <2>. QED
    BY <2>1, <2>2
<1>. QED
  BY <1>1, <1>2, <1>3, <1>4, <1>5

\* What the invariant says of the rates.
LEMMA RatesAreRight == ASSUME JudgingInv PROVE RatesAddUp
<1>1. ASSUME NEW label \in BOOLEAN
      PROVE  Labelled(JudgeReport.judge, label) = Labelled(JudgeReport.matcher, label)
  <2>1. /\ Labelled(JudgeReport.judge, label) = Cardinality(OfLabel(label))
        /\ Labelled(JudgeReport.matcher, label) = Cardinality(OfLabel(label))
    <3>1. /\ JudgeReport.judge[<<label, TRUE>>] = Cardinality(Counted(ByJudge, label, TRUE))
          /\ JudgeReport.judge[<<label, FALSE>>] = Cardinality(Counted(ByJudge, label, FALSE))
          /\ JudgeReport.matcher[<<label, TRUE>>] = Cardinality(Counted(ByMatcher, label, TRUE))
          /\ JudgeReport.matcher[<<label, FALSE>>] = Cardinality(Counted(ByMatcher, label, FALSE))
      BY RatesAreCounts
    <3>2. Cardinality(Counted(ByJudge, label, TRUE)) + Cardinality(Counted(ByJudge, label, FALSE))
            = Cardinality(OfLabel(label))
      BY JudgementsAreYesOrNo, LabelsSplit
    <3>3. Cardinality(Counted(ByMatcher, label, TRUE)) + Cardinality(Counted(ByMatcher, label, FALSE))
            = Cardinality(OfLabel(label))
      BY JudgementsAreYesOrNo, LabelsSplit
    <3>. QED
      BY <3>1, <3>2, <3>3 DEF Labelled
  <2>. QED
    BY <2>1
<1>2. ASSUME JudgeReport.abstained = JudgeReport.n
      PROVE  JudgeReport.judge = JudgeReport.matcher
  <2>. DEFINE silent == {r \in Judged : Got[r][1] = None}
  <2>1. Cardinality(silent) = Cardinality(Judged)
    BY <1>2 DEF JudgeReport
  <2>2. silent \in SUBSET Judged
    OBVIOUS
  <2>. HIDE DEF silent
  <2>3. silent = Judged
    BY <2>1, <2>2, JudgedAreFinite, FS_Subset
  <2>4. \A r \in Judged : Verdict(r) = Matched(r)
    BY <2>3 DEF silent, Verdict
  <2>5. \A o : {r \in Judged : <<CaseOf(r).label, Verdict(r)>> = o}
                  = {r \in Judged : <<CaseOf(r).label, Matched(r)>> = o}
    BY <2>4
  <2>6. /\ JudgeReport.matcher = [o \in BOOLEAN \X BOOLEAN |->
              Cardinality({r \in Judged : <<CaseOf(r).label, Matched(r)>> = o})]
        /\ JudgeReport.judge = [o \in BOOLEAN \X BOOLEAN |->
              Cardinality({r \in Judged : <<CaseOf(r).label, Verdict(r)>> = o})]
    BY DEF JudgeReport, Rates
  <2>. QED
    BY <2>5, <2>6
<1>3. ASSUME \A r \in Judged : Got[r][1] # None => (Got[r][1] = "YES" <=> CaseOf(r).label),
             NEW label \in BOOLEAN
      PROVE  JudgeReport.judge[<<label, ~label>>] <= JudgeReport.matcher[<<label, ~label>>]
  <2>. DEFINE judge == Counted(ByJudge, label, ~label)
              matcher == Counted(ByMatcher, label, ~label)
  <2>1. ASSUME NEW r \in judge PROVE r \in matcher
    <3>1. r \in Judged /\ CaseOf(r).label = label /\ ByJudge[r] = ~label
      BY DEF Counted, OfLabel
    <3>2. Got[r][1] = None
      BY <1>3, <3>1, JudgementsAreYesOrNo
    <3>. QED
      BY <3>1, <3>2, JudgementsAreYesOrNo DEF Counted, OfLabel
  <2>2. IsFiniteSet(matcher)
    <3>1. matcher \subseteq OfLabel(label)
      BY DEF Counted
    <3>. HIDE DEF matcher
    <3>. QED
      BY <3>1, JudgedAreFinite, FS_Subset
  <2>3. JudgeReport.judge[<<label, ~label>>] = Cardinality(judge)
        /\ JudgeReport.matcher[<<label, ~label>>] = Cardinality(matcher)
    BY RatesAreCounts
  <2>. HIDE DEF judge, matcher
  <2>4. judge \subseteq matcher
    BY <2>1
  <2>5. Cardinality(judge) <= Cardinality(matcher)
    BY <2>2, <2>4, FS_Subset
  <2>. QED
    BY <2>3, <2>5
<1>4. Finished => Tally.facts = SumFunction(Tally.verdicts)
  BY TallyAddsUp
<1>. QED
  BY <1>1, <1>2, <1>3, <1>4 DEF RatesAddUp

\* Asked again, with an endpoint or without, a model is quoted as it was reported, a replay of what
\* could be read needs no endpoint, and the rates count each case and each fact once, for any
\* batches, replies, interleavings of the threads and number of runs.
THEOREM VerdictsAlwaysHold == JudgingSpec => []VerdictsHold
<1>1. JudgingInv => VerdictsHold
  BY ReplaysAreRight, RatesAreRight DEF VerdictsHold
<1>. QED
  BY <1>1, JudgingInvHolds, PTL
=============================================================================
