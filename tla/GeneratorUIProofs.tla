-------------------------- MODULE GeneratorUIProofs --------------------------
(***************************************************************************)
(* What is proved of the generator's page, for any worlds, forms, models   *)
(* and limits: an answer of a language model is paid for once, and the     *)
(* page is about the world on screen whatever was pressed before.          *)
(***************************************************************************)
EXTENDS GeneratorUI, NaturalsInduction, FiniteSetTheorems, SequenceTheorems, TLAPS

(***************************************************************************)
(* Sets and their sizes.                                                   *)
(***************************************************************************)

LEMMA LeastOf ==
    ASSUME NEW T, T \subseteq Nat, T # {}
    PROVE  Min(T) \in T /\ \A m \in T : Min(T) <= m
<1>. DEFINE R == {p \in Nat \X Nat : p[1] < p[2]}
<1>1. IsWellFoundedOn(R, Nat)
  BY NatLessThanWellFounded DEF OpToRel
<1>2. \A x, y \in Nat : x < y => <<x, y>> \in R
  OBVIOUS
<1>. HIDE DEF R
<1>3. PICK x \in T : \A y \in T : ~(<<y, x>> \in R)
  BY <1>1, WFMin
<1>4. ASSUME NEW y \in T PROVE x <= y
  <2>1. x \in Nat /\ y \in Nat /\ ~(y < x)
    BY <1>2, <1>3
  <2>. QED
    BY <2>1
<1>. QED
  BY <1>4 DEF Min

\* A set that holds 0 and, with each number below n, the next one, holds all up to n.
LEMMA UpTo ==
    ASSUME NEW n \in Nat, NEW T, 0 \in T, \A k \in 1..n : k - 1 \in T => k \in T
    PROVE  n \in T
<1>. DEFINE Bad == (0..n) \ T
<1>1. ASSUME Bad # {} PROVE FALSE
  <2>1. Bad \subseteq Nat
    OBVIOUS
  <2>2. PICK k \in Bad : \A m \in Bad : k <= m
    <3>. HIDE DEF Bad
    <3>. QED
      BY <1>1, <2>1, LeastOf
  <2>3. k \in 1..n /\ k - 1 \in 0..n /\ k - 1 \notin Bad
    BY <2>2
  <2>. QED
    BY <2>2, <2>3
<1>. QED
  BY <1>1

LEMMA NumbersBelow ==
    ASSUME NEW n \in Nat
    PROVE  IsFiniteSet(0 .. n - 1) /\ Cardinality(0 .. n - 1) = n
<1>1. 0 \in Int /\ n - 1 \in Int
  OBVIOUS
<1>2. IsFiniteSet(0 .. n - 1) /\ Cardinality(0 .. n - 1) = IF 0 > n - 1 THEN 0 ELSE n - 1 - 0 + 1
  BY <1>1, FS_Interval
<1>. QED
  BY <1>2

LEMMA ImageIsFinite ==
    ASSUME NEW S, NEW f, IsFiniteSet(S)
    PROVE  /\ IsFiniteSet({f[x] : x \in S})
           /\ (\A x, y \in S : f[x] = f[y] => x = y) => Cardinality({f[x] : x \in S}) = Cardinality(S)
<1>. DEFINE T == {f[x] : x \in S}
            g == [x \in S |-> f[x]]
<1>1. g \in Surjection(S, T)
  BY DEF Surjection
<1>2. (\A x, y \in S : f[x] = f[y] => x = y) => g \in Injection(S, T)
  BY DEF Injection, IsInjective
<1>. HIDE DEF g, T
<1>3. IsFiniteSet(T) /\ (Cardinality(T) = Cardinality(S) <=> g \in Injection(S, T))
  BY <1>1, FS_Surjection
<1>. QED
  BY <1>2, <1>3 DEF T

\* A finite set has a subset of every size up to its own.
LEMMA SubsetOfSize ==
    ASSUME NEW S, NEW n \in Nat, IsFiniteSet(S), n <= Cardinality(S)
    PROVE  \E T \in SUBSET S : Cardinality(T) = n
<1>. DEFINE Sizes == {k \in 0..n : \E T \in SUBSET S : Cardinality(T) = k}
<1>1. 0 \in Sizes
  BY FS_EmptySet
<1>2. ASSUME NEW k \in 1..n, k - 1 \in Sizes PROVE k \in Sizes
  <2>1. PICK T \in SUBSET S : Cardinality(T) = k - 1
    BY <1>2
  <2>2. IsFiniteSet(T) /\ T # S
    BY <2>1, FS_Subset, FS_CardinalityType
  <2>3. PICK x \in S : x \notin T
    BY <2>2
  <2>4. Cardinality(T \cup {x}) = k
    BY <2>1, <2>2, <2>3, FS_AddElement
  <2>. QED
    BY <2>3, <2>4
<1>. HIDE DEF Sizes
<1>3. n \in Sizes
  BY <1>1, <1>2, UpTo
<1>. QED
  BY <1>3 DEF Sizes

\* Distinct numbers below the size of a set, one for each element, are all of them.
LEMMA AllRanks ==
    ASSUME NEW S, NEW r \in [S -> 0 .. Cardinality(S) - 1], IsFiniteSet(S),
           \A i, j \in S : i # j => r[i] # r[j]
    PROVE  \A k \in 0 .. Cardinality(S) - 1 : \E i \in S : r[i] = k
<1>. DEFINE T == 0 .. Cardinality(S) - 1
<1>1. Cardinality(S) \in Nat
  BY FS_CardinalityType
<1>2. IsFiniteSet(T) /\ Cardinality(T) = Cardinality(S)
  BY <1>1, FS_Interval
<1>3. r \in Injection(S, T)
  BY DEF Injection, IsInjective
<1>. HIDE DEF T
<1>4. r \in Surjection(S, T)
  BY <1>2, <1>3, FS_Injection
<1>. QED
  BY <1>4 DEF Surjection, T

\* B tells for each element of S those before it.
Precedes(S, B) ==
    /\ B \in [S -> SUBSET S]
    /\ \A i \in S : i \notin B[i]
    /\ \A i, j \in S : i # j => \/ i \in B[j] /\ B[i] \subseteq B[j]
                                \/ j \in B[i] /\ B[j] \subseteq B[i]

NumbersAll(S, B) ==
    /\ \A i \in S : Cardinality(B[i]) \in 0 .. Cardinality(S) - 1
    /\ \A i, j \in S : i \in B[j] => Cardinality(B[i]) < Cardinality(B[j])
    /\ \A i, j \in S : i # j => Cardinality(B[i]) # Cardinality(B[j])
    /\ \A k \in 0 .. Cardinality(S) - 1 : \E i \in S : Cardinality(B[i]) = k

\* Elements of a finite set that come one after another are numbered by how many come before.
LEMMA RanksByCount ==
    ASSUME NEW S, NEW B, IsFiniteSet(S), Precedes(S, B)
    PROVE  NumbersAll(S, B)
<1>. USE DEF Precedes
<1>1. \A i \in S : IsFiniteSet(B[i]) /\ Cardinality(B[i]) \in Nat
  BY FS_Subset, FS_CardinalityType
<1>2. ASSUME NEW i \in S PROVE Cardinality(B[i]) \in 0 .. Cardinality(S) - 1
  <2>1. B[i] \in SUBSET S /\ B[i] # S
    OBVIOUS
  <2>2. Cardinality(B[i]) <= Cardinality(S) /\ Cardinality(S) # Cardinality(B[i])
    BY <2>1, FS_Subset
  <2>3. Cardinality(S) \in Nat
    BY FS_CardinalityType
  <2>. QED
    BY <1>1, <2>2, <2>3
<1>3. ASSUME NEW i \in S, NEW j \in S, i \in B[j] PROVE Cardinality(B[i]) < Cardinality(B[j])
  <2>1. B[i] \in SUBSET B[j] /\ B[i] # B[j]
    BY <1>3
  <2>2. Cardinality(B[i]) <= Cardinality(B[j]) /\ Cardinality(B[j]) # Cardinality(B[i])
    BY <1>1, <2>1, FS_Subset
  <2>. QED
    BY <1>1, <2>2
<1>4. ASSUME NEW i \in S, NEW j \in S, i # j PROVE Cardinality(B[i]) # Cardinality(B[j])
  <2>1. i \in B[j] \/ j \in B[i]
    BY <1>4
  <2>2. Cardinality(B[i]) < Cardinality(B[j]) \/ Cardinality(B[j]) < Cardinality(B[i])
    BY <1>3, <2>1
  <2>. QED
    BY <1>1, <2>2
<1>5. \A k \in 0 .. Cardinality(S) - 1 : \E i \in S : Cardinality(B[i]) = k
  <2>. DEFINE r == [i \in S |-> Cardinality(B[i])]
  <2>1. r \in [S -> 0 .. Cardinality(S) - 1]
    BY <1>2
  <2>2. \A i, j \in S : i # j => r[i] # r[j]
    BY <1>4
  <2>3. \A i \in S : r[i] = Cardinality(B[i])
    OBVIOUS
  <2>. HIDE DEF r
  <2>4. \A k \in 0 .. Cardinality(S) - 1 : \E i \in S : r[i] = k
    BY <2>1, <2>2, AllRanks
  <2>. QED
    BY <2>3, <2>4
<1>. QED
  BY <1>2, <1>3, <1>4, <1>5 DEF NumbersAll

(***************************************************************************)
(* The facts of a world.                                                   *)
(***************************************************************************)

LEMMA NodesAre ==
    ASSUME NEW w \in Worlds
    PROVE  /\ Nodes(w) \subseteq Nat /\ IsFiniteSet(Nodes(w))
           /\ Cardinality(Nodes(w)) = Entities[w]
<1>1. Entities[w] \in Nat
  BY GeneratorUIAssumption
<1>2. /\ IsFiniteSet(1 .. Entities[w])
      /\ Cardinality(1 .. Entities[w]) = IF 1 > Entities[w] THEN 0 ELSE Entities[w] - 1 + 1
  BY <1>1, FS_Interval
<1>. QED
  BY <1>1, <1>2 DEF Nodes

LEMMA FactsAre ==
    ASSUME NEW w \in Worlds
    PROVE  /\ IsFiniteSet(Facts[w]) /\ Cardinality(Facts[w]) = Len(WorldFacts[w])
           /\ \A f \in Facts[w] :
                /\ f.id \in 1 .. Len(WorldFacts[w]) /\ f.ended \in BOOLEAN
                /\ f.subject \in Nodes(w) /\ f.object \in Nodes(w)
           /\ \A f, g \in Facts[w] : f.id = g.id => f = g
           /\ \A id \in DOMAIN WorldFacts[w] : FactWith(w, id) \in Facts[w] /\ FactWith(w, id).id = id
           /\ \A f \in Facts[w] : FactWith(w, f.id) = f
<1>. DEFINE told == WorldFacts[w]
            fact == [i \in DOMAIN told |-> [id |-> i, subject |-> told[i].subject,
                                            object |-> told[i].object, ended |-> told[i].ended]]
<1>1. /\ told \in Seq([subject : 1 .. Entities[w], object : 1 .. Entities[w], ended : BOOLEAN])
      /\ Len(told) \in Nat
      /\ DOMAIN told = 1 .. Len(told)
  BY GeneratorUIAssumption
<1>3. Facts[w] = {fact[i] : i \in DOMAIN told}
  BY DEF Facts
<1>. HIDE DEF told
<1>2. \A i \in DOMAIN told : /\ told[i].subject \in Nodes(w) /\ told[i].object \in Nodes(w)
                             /\ told[i].ended \in BOOLEAN
  <2>1. \A i \in DOMAIN told :
           told[i] \in [subject : 1 .. Entities[w], object : 1 .. Entities[w], ended : BOOLEAN]
    BY <1>1, ElementOfSeq
  <2>. QED
    BY <2>1 DEF Nodes
<1>4. \A i \in DOMAIN told : /\ fact[i].id = i /\ fact[i].ended \in BOOLEAN
                             /\ fact[i].subject \in Nodes(w) /\ fact[i].object \in Nodes(w)
  BY <1>2
<1>. HIDE DEF fact
<1>5. IsFiniteSet(DOMAIN told) /\ Cardinality(DOMAIN told) = Len(told)
  <2>1. /\ IsFiniteSet(1 .. Len(told))
        /\ Cardinality(1 .. Len(told)) = IF 1 > Len(told) THEN 0 ELSE Len(told) - 1 + 1
    BY <1>1, FS_Interval
  <2>. QED
    BY <1>1, <2>1
<1>6. IsFiniteSet(Facts[w]) /\ Cardinality(Facts[w]) = Len(told)
  <2>. DEFINE S == DOMAIN told
  <2>1. \A i, j \in S : fact[i] = fact[j] => i = j
    BY <1>4
  <2>2. IsFiniteSet(S)
    BY <1>5
  <2>. HIDE DEF S
  <2>3. /\ IsFiniteSet({fact[i] : i \in S})
        /\ Cardinality({fact[i] : i \in S}) = Cardinality(S)
    BY <2>1, <2>2, ImageIsFinite
  <2>. QED
    BY <1>3, <1>5, <2>3 DEF S
<1>7. \A f, g \in Facts[w] : f.id = g.id => f = g
  BY <1>3, <1>4
<1>8. ASSUME NEW id \in DOMAIN told
      PROVE  FactWith(w, id) \in Facts[w] /\ FactWith(w, id).id = id
  <2>1. fact[id] \in Facts[w] /\ fact[id].id = id
    BY <1>3, <1>4
  <2>. QED
    BY <2>1 DEF FactWith
<1>9. \A f \in Facts[w] : f.id \in DOMAIN told /\ FactWith(w, f.id) = f
  BY <1>3, <1>4, <1>7, <1>8
<1>10. \A f \in Facts[w] : /\ f.id \in 1 .. Len(told) /\ f.ended \in BOOLEAN
                           /\ f.subject \in Nodes(w) /\ f.object \in Nodes(w)
  BY <1>1, <1>3, <1>4
<1>. QED
  BY <1>6, <1>7, <1>8, <1>9, <1>10 DEF told

LEMMA LinksAre ==
    ASSUME NEW w \in Worlds
    PROVE  /\ Links[w] \subseteq Facts[w] /\ IsFiniteSet(Links[w])
           /\ \A f \in Facts[w] : f \in Links[w] <=> ~f.ended
           /\ \A f \in Links[w] : f.subject \in Nodes(w) /\ f.object \in Nodes(w)
<1>1. Links[w] = {f \in Facts[w] : ~f.ended}
  BY DEF Links
<1>. QED
  BY <1>1, FactsAre, FS_Subset

(***************************************************************************)
(* The graph.                                                              *)
(***************************************************************************)

LEMMA DegreeIsNat ==
    ASSUME NEW links, NEW i, IsFiniteSet(links)
    PROVE  Degree(i, links) \in Nat
<1>1. /\ IsFiniteSet({f \in links : f.subject = i})
      /\ IsFiniteSet({f \in links : f.object = i})
  BY FS_Subset
<1>2. /\ Cardinality({f \in links : f.subject = i}) \in Nat
      /\ Cardinality({f \in links : f.object = i}) \in Nat
  BY <1>1, FS_CardinalityType
<1>. QED
  BY <1>2 DEF Degree

\* There is an order by degree, then by id (graph_view sorts the entities).
LEMMA Ranked ==
    ASSUME NEW w \in Worlds
    PROVE  Ranking(w) \in Rankings(Nodes(w), Links[w])
<1>. DEFINE S == Nodes(w)
            L == Links[w]
            deg == [i \in S |-> Degree(i, L)]
            B == [i \in S |-> {j \in S : deg[j] > deg[i] \/ (deg[j] = deg[i] /\ j < i)}]
            r == [i \in S |-> Cardinality(B[i])]
<1>1. S \subseteq Nat /\ IsFiniteSet(S)
  BY NodesAre
<1>2. \A i \in S : deg[i] \in Nat /\ deg[i] = Degree(i, L)
  BY LinksAre, DegreeIsNat
<1>. HIDE DEF deg, S, L
<1>3. B \in [S -> SUBSET S]
  OBVIOUS
<1>4. \A i \in S : i \notin B[i]
  BY <1>1, <1>2
<1>5. \A i, j \in S : i # j => \/ i \in B[j] /\ B[i] \subseteq B[j]
                               \/ j \in B[i] /\ B[j] \subseteq B[i]
  <2>1. ASSUME NEW i \in S, NEW j \in S, deg[i] > deg[j] \/ (deg[i] = deg[j] /\ i < j)
        PROVE  i \in B[j] /\ B[i] \subseteq B[j]
    <3>1. \A k \in S : k \in Nat /\ deg[k] \in Nat
      BY <1>1, <1>2
    <3>2. ASSUME NEW k \in B[i] PROVE k \in B[j]
      <4>1. k \in S /\ (deg[k] > deg[i] \/ (deg[k] = deg[i] /\ k < i))
        OBVIOUS
      <4>2. deg[k] > deg[j] \/ (deg[k] = deg[j] /\ k < j)
        <5>. HIDE DEF B
        <5>. QED
          BY <2>1, <3>1, <4>1
      <4>. QED
        BY <4>1, <4>2
    <3>. QED
      BY <2>1, <3>2
  <2>2. ASSUME NEW i \in S, NEW j \in S, i # j
        PROVE  \/ deg[i] > deg[j] \/ (deg[i] = deg[j] /\ i < j)
               \/ deg[j] > deg[i] \/ (deg[j] = deg[i] /\ j < i)
    BY <1>1, <1>2, <2>2
  <2>. HIDE DEF B
  <2>. QED
    BY <2>1, <2>2
<1>6. \A i, j \in S : deg[i] > deg[j] \/ (deg[i] = deg[j] /\ i < j) => i \in B[j]
  OBVIOUS
<1>. HIDE DEF B
<1>11. NumbersAll(S, B)
  <2>1. Precedes(S, B)
    BY <1>3, <1>4, <1>5 DEF Precedes
  <2>. QED
    BY <1>1, <2>1, RanksByCount
<1>7. /\ \A i \in S : Cardinality(B[i]) \in 0 .. Cardinality(S) - 1
      /\ \A i, j \in S : i \in B[j] => Cardinality(B[i]) < Cardinality(B[j])
      /\ \A i, j \in S : i # j => Cardinality(B[i]) # Cardinality(B[j])
  BY <1>11 DEF NumbersAll
<1>8. r \in [S -> 0 .. Cardinality(S) - 1]
  BY <1>7
<1>9. \A i, j \in S : /\ i # j => r[i] # r[j]
                      /\ Degree(i, L) > Degree(j, L) => r[i] < r[j]
                      /\ Degree(i, L) = Degree(j, L) /\ i < j => r[i] < r[j]
  BY <1>2, <1>6, <1>7
<1>. HIDE DEF r
<1>10. r \in Rankings(S, L)
  BY <1>8, <1>9 DEF Rankings
<1>. QED
  BY <1>9, <1>10 DEF Ranking, S, L

\* Part of a graph, all of it when it fits, and otherwise a largest sample of the best connected.
LargestSample(nodes, links, drawn) ==
    LET left == nodes \ drawn.nodes
        with(i) == {f \in links : {f.subject, f.object} \subseteq drawn.nodes \cup {i}}
    IN  /\ drawn.nodes \subseteq nodes /\ drawn.edges \subseteq links
        /\ ~drawn.sampled => drawn.nodes = nodes /\ drawn.edges = links
        /\ Fits(drawn.nodes, drawn.edges)
        /\ \A i \in drawn.nodes, j \in left : Degree(i, links) >= Degree(j, links)
        /\ left # {} => \E i \in left : ~Fits(drawn.nodes \cup {i}, with(i))

LEMMA ShownIs ==
    ASSUME NEW nodes, NEW links, NEW rank \in Rankings(nodes, links),
           IsFiniteSet(nodes), IsFiniteSet(links),
           \A f \in links : f.subject \in nodes /\ f.object \in nodes
    PROVE  LargestSample(nodes, links, Shown(nodes, links, rank))
<1>. DEFINE n == Cardinality(nodes)
            room == Room(nodes, links, rank)
            kept == {i \in nodes : rank[i] < room}
            within == {f \in links : f.subject \in kept /\ f.object \in kept}
            with(i) == {f \in links : {f.subject, f.object} \subseteq kept \cup {i}}
            early(c) == {f \in links : CameIn(f, rank) <= c}
            crowded == {c \in 0 .. n - 1 : Cardinality(early(c)) > MaxGraphEdges}
<1>1. CASE Fits(nodes, links)
  <2>1. Shown(nodes, links, rank) = [nodes |-> nodes, edges |-> links, sampled |-> FALSE]
    BY <1>1 DEF Shown
  <2>. QED
    BY <1>1, <2>1 DEF LargestSample
<1>2. CASE ~Fits(nodes, links)
  <2>1. Shown(nodes, links, rank) = [nodes |-> kept, edges |-> within, sampled |-> TRUE]
    BY <1>2 DEF Shown
  <2>2. /\ n \in Nat /\ rank \in [nodes -> 0 .. n - 1]
        /\ \A i, j \in nodes : /\ i # j => rank[i] # rank[j]
                               /\ Degree(i, links) > Degree(j, links) => rank[i] < rank[j]
    BY FS_CardinalityType DEF Rankings
  <2>3. /\ room \in {MaxGraphNodes, n} \cup crowded
        /\ \A c \in {MaxGraphNodes, n} \cup crowded : room <= c
    <3>1. {MaxGraphNodes, n} \cup crowded \subseteq Nat
      BY <2>2, GeneratorUIAssumption
    <3>2. room = Min({MaxGraphNodes, n} \cup crowded)
      BY DEF Room
    <3>. HIDE DEF room, crowded
    <3>3. Min({MaxGraphNodes, n} \cup crowded) \in {MaxGraphNodes, n} \cup crowded
          /\ \A m \in {MaxGraphNodes, n} \cup crowded : Min({MaxGraphNodes, n} \cup crowded) <= m
      BY <3>1, LeastOf
    <3>. QED
      BY <3>2, <3>3
  <2>. HIDE DEF room
  <2>4. MaxGraphNodes \in Nat /\ MaxGraphEdges \in Nat /\ room \in Nat /\ room <= n /\ room <= MaxGraphNodes
    <3>1. MaxGraphNodes \in Nat /\ MaxGraphEdges \in Nat /\ crowded \subseteq Nat
      BY <2>2, GeneratorUIAssumption
    <3>. HIDE DEF crowded, n
    <3>. QED
      BY <2>2, <2>3, <3>1
  <2>5. \A k \in 0 .. n - 1 : \E i \in nodes : rank[i] = k
    BY <2>2, AllRanks
  <2>6. IsFiniteSet(kept) /\ Cardinality(kept) = room
    <3>. DEFINE T == 0 .. room - 1
                g == [i \in kept |-> rank[i]]
    <3>1. g \in Injection(kept, T) /\ g \in Surjection(kept, T)
      <4>1. g \in [kept -> T]
        BY <2>2, <2>4
      <4>2. \A i, j \in kept : g[i] = g[j] => i = j
        BY <2>2
      <4>3. \A k \in T : \E i \in kept : g[i] = k
        BY <2>2, <2>4, <2>5
      <4>. QED
        BY <4>1, <4>2, <4>3 DEF Injection, IsInjective, Surjection
    <3>2. IsFiniteSet(T) /\ Cardinality(T) = room
      BY <2>4, NumbersBelow
    <3>3. IsFiniteSet(kept)
      BY FS_Subset
    <3>. HIDE DEF T, g, kept
    <3>. QED
      BY <3>1, <3>2, <3>3, FS_Injection
  <2>7. Fits(kept, within)
    <3>1. IsFiniteSet(within) /\ Cardinality(within) \in Nat
      BY FS_Subset, FS_CardinalityType
    <3>2. Cardinality(within) <= MaxGraphEdges
      <4>1. CASE room = 0
        <5>1. within = {}
          BY <2>2, <4>1
        <5>. QED
          BY <2>4, <5>1, FS_EmptySet
      <4>2. CASE room # 0
        <5>. DEFINE c == room - 1
        <5>1. c \in 0 .. n - 1 /\ c \notin crowded
          BY <2>3, <2>4, <4>2, <2>2
        <5>2. IsFiniteSet(early(c)) /\ Cardinality(early(c)) \in Nat
          BY FS_Subset, FS_CardinalityType
        <5>3. ~(Cardinality(early(c)) > MaxGraphEdges)
          BY <5>1
        <5>4. within \in SUBSET early(c)
          BY <2>2, <2>4 DEF CameIn
        <5>5. Cardinality(within) <= Cardinality(early(c))
          BY <5>2, <5>4, FS_Subset
        <5>. HIDE DEF c, within, early
        <5>. QED
          BY <2>4, <3>1, <5>2, <5>3, <5>5
      <4>. QED
        BY <4>1, <4>2
    <3>. QED
      BY <2>4, <2>6, <3>2 DEF Fits
  <2>8. \A i \in kept, j \in nodes \ kept : Degree(i, links) >= Degree(j, links)
    <3>1. TAKE i \in kept, j \in nodes \ kept
    <3>2. rank[i] \in Nat /\ rank[j] \in Nat /\ rank[i] < room /\ ~(rank[j] < room)
      BY <2>2
    <3>3. ~(rank[j] < rank[i])
      BY <2>4, <3>2
    <3>4. ~(Degree(j, links) > Degree(i, links))
      BY <2>2, <3>3
    <3>5. Degree(i, links) \in Nat /\ Degree(j, links) \in Nat
      BY DegreeIsNat
    <3>. QED
      BY <3>4, <3>5
  <2>9. ASSUME nodes \ kept # {}
        PROVE  \E i \in nodes \ kept : ~Fits(kept \cup {i}, with(i))
    <3>1. room < n
      BY <2>2, <2>4, <2>9
    <3>2. PICK i \in nodes : rank[i] = room
      <4>1. room \in 0 .. n - 1
        BY <2>2, <2>4, <3>1
      <4>. HIDE DEF n
      <4>. QED
        BY <2>5, <4>1
    <3>3. i \in nodes \ kept
      BY <2>4, <3>2
    <3>4. CASE room = MaxGraphNodes
      <4>1. Cardinality(kept \cup {i}) = room + 1
        BY <2>6, <3>3, FS_AddElement
      <4>2. ~(Cardinality(kept \cup {i}) <= MaxGraphNodes)
        <5>. HIDE DEF room, kept
        <5>. QED
          BY <2>4, <3>4, <4>1
      <4>3. ~Fits(kept \cup {i}, with(i))
        <5>. HIDE DEF kept, with
        <5>. QED
          BY <4>2 DEF Fits
      <4>. HIDE DEF kept, with
      <4>. QED
        BY <3>3, <4>3
    <3>5. CASE room # MaxGraphNodes
      <4>1. room \in crowded
        BY <2>3, <2>4, <2>2, <3>1, <3>5
      <4>2. Cardinality(early(room)) > MaxGraphEdges
        BY <4>1
      <4>3. early(room) \subseteq with(i)
        <5>1. ASSUME NEW j \in nodes, rank[j] <= room PROVE j \in kept \cup {i}
          BY <2>2, <2>4, <3>2, <5>1
        <5>2. ASSUME NEW f \in early(room) PROVE f \in with(i)
          <6>1. rank[f.subject] <= room /\ rank[f.object] <= room
            BY <2>2, <2>4 DEF CameIn
          <6>. QED
            BY <5>1, <6>1
        <5>. QED
          BY <5>2
      <4>4. IsFiniteSet(with(i)) /\ IsFiniteSet(early(room))
        BY FS_Subset
      <4>5. Cardinality(early(room)) <= Cardinality(with(i))
        BY <4>3, <4>4, FS_Subset
      <4>6. Cardinality(early(room)) \in Nat /\ Cardinality(with(i)) \in Nat
        BY <4>4, FS_CardinalityType
      <4>7. ~(Cardinality(with(i)) <= MaxGraphEdges)
        <5>. HIDE DEF early, with
        <5>. QED
          BY <2>4, <4>2, <4>5, <4>6
      <4>8. ~Fits(kept \cup {i}, with(i))
        <5>. HIDE DEF with, kept
        <5>. QED
          BY <4>7 DEF Fits
      <4>. QED
        BY <3>3, <4>8
    <3>. QED
      BY <3>4, <3>5
  <2>. HIDE DEF kept, within
  <2>10. kept \subseteq nodes /\ within \subseteq links
    BY DEF kept, within
  <2>. QED
    BY <2>1, <2>7, <2>8, <2>9, <2>10 DEF LargestSample
<1>. QED
  BY <1>1, <1>2

\* What is drawn of a world.
LEMMA GraphIs ==
    ASSUME NEW w \in Worlds
    PROVE  LargestSample(Nodes(w), Links[w], Graph[w])
<1>1. Graph[w] = Shown(Nodes(w), Links[w], Ranking(w))
  BY DEF Graph
<1>2. /\ Ranking(w) \in Rankings(Nodes(w), Links[w])
      /\ IsFiniteSet(Nodes(w)) /\ IsFiniteSet(Links[w])
      /\ \A f \in Links[w] : f.subject \in Nodes(w) /\ f.object \in Nodes(w)
  BY Ranked, NodesAre, LinksAre
<1>. QED
  BY <1>1, <1>2, ShownIs

(***************************************************************************)
(* Documents.                                                              *)
(***************************************************************************)

LEMMA FactsAboutAre ==
    ASSUME NEW w \in Worlds, NEW i
    PROVE  /\ FactsAbout(w, i) \subseteq 1 .. Len(WorldFacts[w])
           /\ \A f \in Facts[w] : f.id \in FactsAbout(w, i) <=> f.subject = i
           /\ \A id \in FactsAbout(w, i) : \E f \in Facts[w] : f.id = id /\ f.subject = i
           /\ FactsAbout(w, i) # {} =>
                /\ Min(FactsAbout(w, i)) \in FactsAbout(w, i)
                /\ \A id \in FactsAbout(w, i) : Min(FactsAbout(w, i)) <= id
<1>1. /\ FactsAbout(w, i) \subseteq 1 .. Len(WorldFacts[w])
      /\ \A f \in Facts[w] : f.id \in FactsAbout(w, i) <=> f.subject = i
      /\ \A id \in FactsAbout(w, i) : \E f \in Facts[w] : f.id = id /\ f.subject = i
  BY FactsAre DEF FactsAbout
<1>2. FactsAbout(w, i) \subseteq Nat
  BY <1>1
<1>3. FactsAbout(w, i) # {} =>
        /\ Min(FactsAbout(w, i)) \in FactsAbout(w, i)
        /\ \A id \in FactsAbout(w, i) : Min(FactsAbout(w, i)) <= id
  <2>. DEFINE T == FactsAbout(w, i)
  <2>1. T \subseteq Nat
    BY <1>2
  <2>. HIDE DEF T
  <2>2. T # {} => Min(T) \in T /\ \A id \in T : Min(T) <= id
    BY <2>1, LeastOf
  <2>. QED
    BY <2>2 DEF T
<1>. QED
  BY <1>1, <1>3

\* A number from first on lies in one of the stretches of length p that start there.
LEMMA InSomeStretch ==
    ASSUME NEW first \in Nat, NEW p \in Nat \ {0}, NEW id \in Nat, first <= id
    PROVE  \E n \in 1 .. id - first + 1 : first + (n - 1) * p <= id /\ id <= first + (n - 1) * p + p - 1
<1>. DEFINE beyond == {n \in Nat : id < first + n * p}
<1>1. \A n \in Nat : n * p \in Nat /\ n <= n * p
  <2>1. TAKE n \in Nat
  <2>2. n * p \in Nat
    OBVIOUS
  <2>3. n * p = n + n * (p - 1) /\ n * (p - 1) \in Nat
    OBVIOUS
  <2>. QED
    BY <2>2, <2>3
<1>2. id - first + 1 \in beyond
  <2>1. id - first + 1 \in Nat
    OBVIOUS
  <2>2. id - first + 1 <= (id - first + 1) * p /\ (id - first + 1) * p \in Nat
    BY <1>1, <2>1
  <2>. QED
    BY <2>1, <2>2
<1>. DEFINE n == Min(beyond)
<1>3. n \in beyond /\ \A m \in beyond : n <= m
  <2>1. beyond \subseteq Nat /\ beyond # {}
    BY <1>2
  <2>. HIDE DEF beyond
  <2>. QED
    BY <2>1, LeastOf
<1>. HIDE DEF n
<1>4. n \in Nat /\ n # 0 /\ n <= id - first + 1
  <2>1. n \in Nat /\ id < first + n * p /\ n <= id - first + 1
    BY <1>2, <1>3
  <2>2. n = 0 => n * p = 0
    OBVIOUS
  <2>. QED
    BY <2>1, <2>2
<1>5. ~(id < first + (n - 1) * p)
  <2>1. n - 1 \in Nat /\ ~(n <= n - 1)
    BY <1>4
  <2>. QED
    BY <1>3, <2>1
<1>6. n * p = (n - 1) * p + p /\ (n - 1) * p \in Int
  BY <1>4
<1>7. id < first + n * p
  BY <1>3
<1>8. first + (n - 1) * p <= id /\ id <= first + (n - 1) * p + p - 1
  <2>. DEFINE a == (n - 1) * p
              b == n * p
  <2>1. b = a + p /\ a \in Int
    BY <1>6
  <2>2. ~(id < first + a) /\ id < first + b
    BY <1>5, <1>7
  <2>. HIDE DEF a, b
  <2>3. first + a <= id /\ id <= first + a + p - 1
    BY <2>1, <2>2
  <2>. QED
    BY <2>3 DEF a
<1>9. n \in 1 .. id - first + 1
  BY <1>4
<1>. QED
  BY <1>8, <1>9

\* Two stretches have nothing in common.
LEMMA StretchesApart ==
    ASSUME NEW first \in Nat, NEW p \in Nat \ {0}, NEW m \in Nat, NEW n \in Nat, NEW id \in Nat,
           first + (m - 1) * p <= id, id <= first + (m - 1) * p + p - 1,
           first + (n - 1) * p <= id, id <= first + (n - 1) * p + p - 1
    PROVE  m = n
<1>1. ASSUME NEW a \in Nat, NEW b \in Nat, a < b,
             id <= first + (a - 1) * p + p - 1, first + (b - 1) * p <= id
      PROVE  FALSE
  <2>. DEFINE x == (a - 1) * p
              y == (b - 1) * p
              c == b - a - 1
              z == c * p
  <2>1. y = x + p + z /\ x \in Int /\ c \in Nat
    BY <1>1
  <2>2. z \in Nat
    BY <2>1
  <2>3. id <= first + x + p - 1 /\ first + y <= id
    BY <1>1
  <2>. HIDE DEF x, y, z, c
  <2>. QED
    BY <2>1, <2>2, <2>3
<1>2. ~(m < n) /\ ~(n < m)
  BY <1>1
<1>. QED
  BY <1>2

\* The groups of a world's facts: each fact is in one group about its subject, and two groups
\* have no fact in common.
LEMMA GroupsAre ==
    ASSUME NEW w \in Worlds, NEW p \in Nat \ {0}
    PROVE  /\ IsFiniteSet(Groups(w, p)) /\ Groups(w, p) \subseteq Nodes(w) \X Nat
           /\ \A g \in Groups(w, p) : /\ Group(w, g[1], g[2], p) # {}
                                      /\ Group(w, g[1], g[2], p) \subseteq FactsAbout(w, g[1])
           /\ \A g, h \in Groups(w, p) :
                Group(w, g[1], g[2], p) \cap Group(w, h[1], h[2], p) # {} => g = h
           /\ \A f \in Facts[w] :
                \E g \in Groups(w, p) : g[1] = f.subject /\ f.id \in Group(w, g[1], g[2], p)
<1>. DEFINE N == Cardinality(Facts[w])
<1>1. N = Len(WorldFacts[w]) /\ N \in Nat
  BY FactsAre, FS_CardinalityType
<1>2. \A i, n : Group(w, i, n, p) =
        FactsAbout(w, i) \cap (Min(FactsAbout(w, i)) + (n - 1) * p ..
                               Min(FactsAbout(w, i)) + (n - 1) * p + p - 1)
  BY DEF Group
<1>3. Groups(w, p) \subseteq Nodes(w) \X (1 .. N)
  BY DEF Groups
<1>4. IsFiniteSet(Groups(w, p))
  <2>1. IsFiniteSet(Nodes(w)) /\ IsFiniteSet(1 .. N)
    BY <1>1, NodesAre, FS_Interval
  <2>2. IsFiniteSet(Nodes(w) \X (1 .. N))
    BY <2>1, FS_Product
  <2>. QED
    BY <1>3, <2>2, FS_Subset
<1>5. \A g \in Groups(w, p) : /\ Group(w, g[1], g[2], p) # {}
                              /\ Group(w, g[1], g[2], p) \subseteq FactsAbout(w, g[1])
  BY <1>2 DEF Groups
<1>6. ASSUME NEW g \in Groups(w, p), NEW h \in Groups(w, p),
             Group(w, g[1], g[2], p) \cap Group(w, h[1], h[2], p) # {}
      PROVE  g = h
  <2>1. PICK id \in Group(w, g[1], g[2], p) : id \in Group(w, h[1], h[2], p)
    BY <1>6
  <2>2. id \in FactsAbout(w, g[1]) /\ id \in FactsAbout(w, h[1])
    BY <1>5, <2>1
  <2>3. g[1] = h[1]
    BY <2>2, FactsAboutAre, FactsAre
  <2>. DEFINE first == Min(FactsAbout(w, g[1]))
  <2>4. first \in Nat /\ id \in Nat
    BY <2>2, FactsAboutAre
  <2>5. g[2] \in Nat /\ h[2] \in Nat
    BY <1>3
  <2>6. /\ id \in first + (g[2] - 1) * p .. first + (g[2] - 1) * p + p - 1
        /\ id \in first + (h[2] - 1) * p .. first + (h[2] - 1) * p + p - 1
    BY <1>2, <2>1, <2>3
  <2>. HIDE DEF first
  <2>7. /\ (g[2] - 1) * p \in Int /\ (h[2] - 1) * p \in Int
    BY <2>5
  <2>8. /\ first + (g[2] - 1) * p <= id /\ id <= first + (g[2] - 1) * p + p - 1
        /\ first + (h[2] - 1) * p <= id /\ id <= first + (h[2] - 1) * p + p - 1
    BY <2>4, <2>6, <2>7
  <2>9. g[2] = h[2]
    BY <2>4, <2>5, <2>8, StretchesApart
  <2>. QED
    BY <1>3, <2>3, <2>9
<1>7. ASSUME NEW f \in Facts[w]
      PROVE  \E g \in Groups(w, p) : g[1] = f.subject /\ f.id \in Group(w, g[1], g[2], p)
  <2>. DEFINE i == f.subject
              first == Min(FactsAbout(w, i))
              id == f.id
  <2>1. id \in FactsAbout(w, i) /\ id \in 1 .. N /\ i \in Nodes(w)
    BY <1>1, FactsAre, FactsAboutAre
  <2>2. first \in 1 .. N /\ first <= id
    BY <1>1, <2>1, FactsAboutAre
  <2>. HIDE DEF i, first, id
  <2>3. first \in Nat /\ id \in Nat /\ id - first + 1 <= N
    BY <1>1, <2>1, <2>2
  <2>4. PICK n \in 1 .. id - first + 1 :
           first + (n - 1) * p <= id /\ id <= first + (n - 1) * p + p - 1
    BY <2>2, <2>3, InSomeStretch
  <2>5. n \in 1 .. N /\ (n - 1) * p \in Int
    BY <1>1, <2>3
  <2>6. id \in first + (n - 1) * p .. first + (n - 1) * p + p - 1
    BY <2>3, <2>4, <2>5
  <2>7. id \in Group(w, i, n, p)
    BY <1>2, <2>1, <2>6 DEF first
  <2>8. <<i, n>> \in Groups(w, p)
    BY <2>1, <2>5, <2>7 DEF Groups
  <2>. QED
    BY <2>7, <2>8 DEF i, id
<1>8. Groups(w, p) \subseteq Nodes(w) \X Nat
  BY <1>3
<1>. QED
  BY <1>4, <1>5, <1>6, <1>7, <1>8

\* The jobs of a rendering: each is about some facts of its subject, no two of them share a
\* fact, and each fact is in one about its subject.
IsLayout(w, jobs) ==
    /\ jobs \in Seq([subject : Nodes(w), facts : SUBSET (1 .. Len(WorldFacts[w]))])
    /\ \A d \in DOMAIN jobs : jobs[d].facts # {} /\ jobs[d].facts \subseteq FactsAbout(w, jobs[d].subject)
    /\ \A c, d \in DOMAIN jobs : jobs[c].facts \cap jobs[d].facts # {} => c = d
    /\ \A f \in Facts[w] : \E d \in DOMAIN jobs : jobs[d].subject = f.subject /\ f.id \in jobs[d].facts

LEMMA LayoutOfIs ==
    ASSUME NEW w \in Worlds, NEW p \in Nat \ {0}
    PROVE  IsLayout(w, LayoutOf(w, p))
<1>. DEFINE groups == Groups(w, p)
            B == [g \in groups |-> {h \in groups : h[1] < g[1] \/ (h[1] = g[1] /\ h[2] < g[2])}]
            at(d) == CHOOSE x \in groups : Cardinality(B[x]) = d - 1
            jobs == [d \in 1 .. Cardinality(groups) |->
                        [subject |-> at(d)[1], facts |-> Group(w, at(d)[1], at(d)[2], p)]]
<1>1. LayoutOf(w, p) = jobs
  <2>1. \A d \in 1 .. Cardinality(groups) :
           at(d) = CHOOSE x \in groups :
             Cardinality({h \in groups : h[1] < x[1] \/ (h[1] = x[1] /\ h[2] < x[2])}) = d - 1
    OBVIOUS
  <2>. QED
    BY <2>1, Zenon DEF LayoutOf
<1>2. IsFiniteSet(groups) /\ groups \subseteq Nodes(w) \X Nat /\ Cardinality(groups) \in Nat
  BY GroupsAre, FS_CardinalityType
<1>3. /\ \A g \in groups : /\ Group(w, g[1], g[2], p) # {}
                           /\ Group(w, g[1], g[2], p) \subseteq FactsAbout(w, g[1])
      /\ \A g, h \in groups : Group(w, g[1], g[2], p) \cap Group(w, h[1], h[2], p) # {} => g = h
      /\ \A f \in Facts[w] :
           \E g \in groups : g[1] = f.subject /\ f.id \in Group(w, g[1], g[2], p)
  BY GroupsAre
<1>4. NumbersAll(groups, B)
  <2>. HIDE DEF groups
  <2>1. \A g \in groups : g[1] \in Nat /\ g[2] \in Nat /\ g = <<g[1], g[2]>>
    BY <1>2, NodesAre
  <2>2. B \in [groups -> SUBSET groups] /\ \A g \in groups : g \notin B[g]
    BY <2>1
  <2>3. ASSUME NEW g \in groups, NEW h \in groups, g[1] < h[1] \/ (g[1] = h[1] /\ g[2] < h[2])
        PROVE  g \in B[h] /\ B[g] \subseteq B[h]
    <3>1. ASSUME NEW k \in B[g] PROVE k \in B[h]
      <4>1. k \in groups /\ (k[1] < g[1] \/ (k[1] = g[1] /\ k[2] < g[2]))
        OBVIOUS
      <4>2. k[1] < h[1] \/ (k[1] = h[1] /\ k[2] < h[2])
        <5>. HIDE DEF B
        <5>. QED
          BY <2>1, <2>3, <4>1
      <4>. QED
        BY <4>1, <4>2
    <3>. QED
      BY <2>3, <3>1
  <2>4. ASSUME NEW g \in groups, NEW h \in groups, g # h
        PROVE  \/ g[1] < h[1] \/ (g[1] = h[1] /\ g[2] < h[2])
               \/ h[1] < g[1] \/ (h[1] = g[1] /\ h[2] < g[2])
    BY <2>1, <2>4
  <2>. HIDE DEF B
  <2>5. Precedes(groups, B)
    BY <2>2, <2>3, <2>4 DEF Precedes
  <2>. QED
    BY <1>2, <2>5, RanksByCount
<1>. HIDE DEF B, groups
<1>5. \A d \in 1 .. Cardinality(groups) : at(d) \in groups /\ Cardinality(B[at(d)]) = d - 1
  <2>1. TAKE d \in 1 .. Cardinality(groups)
  <2>2. d - 1 \in 0 .. Cardinality(groups) - 1
    BY <1>2
  <2>3. \E x \in groups : Cardinality(B[x]) = d - 1
    BY <1>4, <2>2 DEF NumbersAll
  <2>. QED
    BY <2>3
<1>6. \A c, d \in 1 .. Cardinality(groups) : at(c) = at(d) => c = d
  BY <1>2, <1>5
<1>7. \A g \in groups : \E d \in 1 .. Cardinality(groups) : at(d) = g
  <2>1. TAKE g \in groups
  <2>. DEFINE d == Cardinality(B[g]) + 1
  <2>2. d \in 1 .. Cardinality(groups) /\ d - 1 = Cardinality(B[g])
    BY <1>2, <1>4 DEF NumbersAll
  <2>. HIDE DEF d
  <2>3. Cardinality(B[at(d)]) = Cardinality(B[g]) /\ at(d) \in groups
    BY <1>5, <2>2
  <2>4. at(d) = g
    BY <1>4, <2>3 DEF NumbersAll
  <2>. QED
    BY <2>2, <2>4
<1>8. /\ DOMAIN jobs = 1 .. Cardinality(groups)
      /\ \A d \in DOMAIN jobs : /\ jobs[d].subject = at(d)[1]
                                /\ jobs[d].facts = Group(w, at(d)[1], at(d)[2], p)
                                /\ jobs[d] = [subject |-> jobs[d].subject, facts |-> jobs[d].facts]
  OBVIOUS
<1>9. jobs \in Seq([subject : Nodes(w), facts : SUBSET (1 .. Len(WorldFacts[w]))])
  <2>. DEFINE T == [subject : Nodes(w), facts : SUBSET (1 .. Len(WorldFacts[w]))]
  <2>1. ASSUME NEW d \in 1 .. Cardinality(groups)
        PROVE  [subject |-> at(d)[1], facts |-> Group(w, at(d)[1], at(d)[2], p)] \in T
    <3>1. at(d) \in groups
      BY <1>5
    <3>2. at(d)[1] \in Nodes(w)
      BY <1>2, <3>1
    <3>3. Group(w, at(d)[1], at(d)[2], p) \subseteq 1 .. Len(WorldFacts[w])
      BY <1>3, <3>1, FactsAboutAre
    <3>. QED
      BY <3>2, <3>3
  <2>. HIDE DEF T, at
  <2>2. jobs \in [1 .. Cardinality(groups) -> T]
    BY <2>1
  <2>. HIDE DEF jobs
  <2>3. jobs \in Seq(T)
    BY <1>2, <2>2
  <2>. QED
    BY <2>3 DEF T
<1>. HIDE DEF jobs, at
<1>10. \A d \in DOMAIN jobs : jobs[d].facts # {} /\ jobs[d].facts \subseteq FactsAbout(w, jobs[d].subject)
  BY <1>3, <1>5, <1>8
<1>11. \A c, d \in DOMAIN jobs : jobs[c].facts \cap jobs[d].facts # {} => c = d
  BY <1>3, <1>5, <1>6, <1>8
<1>12. \A f \in Facts[w] : \E d \in DOMAIN jobs : jobs[d].subject = f.subject /\ f.id \in jobs[d].facts
  BY <1>3, <1>7, <1>8
<1>. QED
  BY <1>1, <1>9, <1>10, <1>11, <1>12 DEF IsLayout

LEMMA LayoutIs ==
    ASSUME NEW w \in Worlds, NEW form \in RenderForms
    PROVE  IsLayout(w, Layout[w][form.perDoc])
<1>1. form.perDoc \in Nat \ {0}
  BY GeneratorUIAssumption
<1>2. Layout[w][form.perDoc] = LayoutOf(w, form.perDoc)
  BY DEF Layout
<1>. QED
  BY <1>1, <1>2, LayoutOfIs

\* What a page may show as documents of a world: each about a subject, its facts of the world,
\* and each fact stated by one document about its subject.
AreDocuments(w, docs) ==
    /\ docs \in Seq([subject : Nodes(w), facts : SUBSET (1 .. Len(WorldFacts[w]))])
    /\ \A f \in Facts[w] :
        \E d \in DOMAIN docs :
            /\ docs[d].subject = f.subject /\ f.id \in docs[d].facts
            /\ \A c \in DOMAIN docs :
                docs[c].subject = f.subject /\ f.id \in docs[c].facts => c = d

LEMMA LayoutsAreDocuments ==
    ASSUME NEW w \in Worlds, NEW jobs, IsLayout(w, jobs)
    PROVE  AreDocuments(w, jobs)
BY DEF IsLayout, AreDocuments

\* The facts added for context are about other subjects (render_documents.article).
LEMMA ContextIs ==
    ASSUME NEW w \in Worlds, NEW form \in RenderForms,
           NEW doc \in [subject : Nodes(w), facts : SUBSET (1 .. Len(WorldFacts[w]))]
    PROVE  /\ WithContext(w, doc, form) \in [subject : Nodes(w), facts : SUBSET (1 .. Len(WorldFacts[w]))]
           /\ WithContext(w, doc, form).subject = doc.subject
           /\ \A f \in Facts[w] : f.subject = doc.subject =>
                (f.id \in WithContext(w, doc, form).facts <=> f.id \in doc.facts)
<1>. DEFINE near == Neighbouring(w, doc)
            size == Fewest(form.context, Cardinality(near))
            drawn == CHOOSE S \in SUBSET near : Cardinality(S) = size
<1>1. near \subseteq 1 .. Len(WorldFacts[w]) /\ \A f \in Facts[w] : f.id \in near => f.subject # doc.subject
  BY FactsAre DEF Neighbouring
<1>2. drawn \in SUBSET near
  <2>1. Len(WorldFacts[w]) \in Nat
    BY GeneratorUIAssumption
  <2>2. IsFiniteSet(near) /\ Cardinality(near) \in Nat
    <3>1. IsFiniteSet(1 .. Len(WorldFacts[w]))
      BY <2>1, FS_Interval
    <3>. HIDE DEF near
    <3>. QED
      BY <1>1, <3>1, FS_Subset, FS_CardinalityType
  <2>. HIDE DEF near
  <2>3. size \in Nat /\ size <= Cardinality(near)
    BY <2>2, GeneratorUIAssumption DEF Fewest
  <2>. HIDE DEF size
  <2>4. \E S \in SUBSET near : Cardinality(S) = size
    BY <2>2, <2>3, SubsetOfSize
  <2>. QED
    BY <2>4
<1>3. WithContext(w, doc, form) = IF form.words = 0 THEN doc ELSE [doc EXCEPT !.facts = @ \cup drawn]
  BY DEF WithContext
<1>. HIDE DEF drawn, near
<1>4. CASE form.words = 0
  BY <1>3, <1>4
<1>5. CASE form.words # 0
  <2>1. /\ WithContext(w, doc, form).subject = doc.subject
        /\ WithContext(w, doc, form).facts = doc.facts \cup drawn
        /\ WithContext(w, doc, form) \in [subject : Nodes(w), facts : SUBSET (1 .. Len(WorldFacts[w]))]
    BY <1>1, <1>2, <1>3, <1>5
  <2>. QED
    BY <1>1, <1>2, <2>1
<1>. QED
  BY <1>4, <1>5

LEMMA TemplatesAreDocuments ==
    ASSUME NEW w \in Worlds, NEW form \in RenderForms
    PROVE  AreDocuments(w, Templates[w][form])
<1>. DEFINE jobs == Layout[w][form.perDoc]
            T == [subject : Nodes(w), facts : SUBSET (1 .. Len(WorldFacts[w]))]
            docs == [d \in DOMAIN jobs |-> WithContext(w, jobs[d], form)]
<1>1. Templates[w][form] = docs
  BY DEF Templates
<1>2. IsLayout(w, jobs)
  BY LayoutIs
<1>. HIDE DEF jobs
<1>3. jobs \in Seq(T) /\ DOMAIN jobs = 1 .. Len(jobs) /\ Len(jobs) \in Nat
  BY <1>2 DEF IsLayout
<1>4. \A d \in DOMAIN jobs : jobs[d] \in T
  BY <1>3, ElementOfSeq
<1>5. ASSUME NEW d \in DOMAIN jobs
      PROVE  /\ docs[d] \in T /\ docs[d].subject = jobs[d].subject
             /\ \A f \in Facts[w] : f.subject = jobs[d].subject =>
                  (f.id \in docs[d].facts <=> f.id \in jobs[d].facts)
  BY <1>4, ContextIs
<1>6. docs \in Seq(T) /\ DOMAIN docs = DOMAIN jobs
  <2>1. DOMAIN docs = DOMAIN jobs
    OBVIOUS
  <2>2. docs \in [1 .. Len(jobs) -> T]
    <3>. HIDE DEF T
    <3>. QED
      BY <1>3, <1>5
  <2>. HIDE DEF docs, T
  <2>. QED
    BY <1>3, <2>1, <2>2
<1>. HIDE DEF docs
<1>7. ASSUME NEW f \in Facts[w]
      PROVE  \E d \in DOMAIN docs :
               /\ docs[d].subject = f.subject /\ f.id \in docs[d].facts
               /\ \A c \in DOMAIN docs :
                    docs[c].subject = f.subject /\ f.id \in docs[c].facts => c = d
  <2>1. PICK d \in DOMAIN jobs :
           /\ jobs[d].subject = f.subject /\ f.id \in jobs[d].facts
           /\ \A c \in DOMAIN jobs :
                jobs[c].subject = f.subject /\ f.id \in jobs[c].facts => c = d
    BY <1>2, LayoutsAreDocuments DEF AreDocuments
  <2>2. d \in DOMAIN docs /\ docs[d].subject = f.subject /\ f.id \in docs[d].facts
    BY <1>5, <1>6, <2>1
  <2>3. ASSUME NEW c \in DOMAIN docs, docs[c].subject = f.subject, f.id \in docs[c].facts
        PROVE  c = d
    BY <1>5, <1>6, <2>1, <2>3
  <2>. QED
    BY <2>2, <2>3
<1>8. AreDocuments(w, docs)
  BY <1>6, <1>7 DEF AreDocuments
<1>. QED
  BY <1>1, <1>8

(***************************************************************************)
(* What is on the page follows from the world and the forms last accepted. *)
(***************************************************************************)

QuestionsAreDerived ==
    /\ questionSpec \in QuestionForms \cup {None}
    /\ questions = IF world = None THEN <<>> ELSE Derived(world, questionSpec)

DocumentsAreRendered ==
    /\ renderSpec \in RenderForms \cup {None}
    /\ docSource = "templates" =>
        documents = IF world = None THEN <<>> ELSE Rendered(world, renderSpec)
    /\ docSource # "templates" =>
        /\ world # None /\ renderSpec # None
        /\ documents = Layout[world][renderSpec.perDoc]

ExportIsArchive == export # None => world # None /\ export = Archive

PageInv ==
    /\ world \in Worlds \cup {None}
    /\ QuestionsAreDerived
    /\ DocumentsAreRendered
    /\ ExportIsArchive
    /\ PicksAreShown
    /\ OneEmphasis

LEMMA PageInit == Init => PageInv
BY DEF Init, PageInv, QuestionsAreDerived, DocumentsAreRendered, ExportIsArchive, PicksAreShown,
       OneEmphasis

LEMMA GenerateKeeps ==
    ASSUME PageInv, NEW w \in Worlds, NEW asks \in QuestionForms \cup {None},
           NEW renders \in RenderForms \cup {None}, Generate(w, asks, renders)
    PROVE  PageInv'
<1>1. /\ world' = w /\ selected' = None /\ w # None
      /\ export' = None
      /\ questions' = Derived(w, asks) /\ questionSpec' = asks /\ picked' = None
      /\ documents' = Rendered(w, renders) /\ docSource' = "templates" /\ renderSpec' = renders
      /\ pickedDoc' = None /\ pickedFact' = None
  BY GeneratorUIAssumption DEF Generate, SetQuestions, SetDocuments, DropExport
<1>2. QuestionsAreDerived'
  BY <1>1 DEF QuestionsAreDerived
<1>3. DocumentsAreRendered'
  BY <1>1 DEF DocumentsAreRendered
<1>4. ExportIsArchive' /\ PicksAreShown' /\ OneEmphasis'
  BY <1>1 DEF ExportIsArchive, PicksAreShown, OneEmphasis
<1>. QED
  BY <1>1, <1>2, <1>3, <1>4 DEF PageInv

LEMMA DeriveKeeps ==
    ASSUME PageInv, NEW form \in QuestionForms \cup {None}, Derive(form)
    PROVE  PageInv'
<1>1. /\ world # None /\ export' = None
      /\ questions' = Derived(world, form) /\ questionSpec' = form /\ picked' = None
      /\ UNCHANGED <<world, selected, documents, docSource, renderSpec, pickedDoc, pickedFact>>
  BY DEF Derive, SetQuestions, DropExport
<1>2. QuestionsAreDerived' /\ DocumentsAreRendered'
  BY <1>1 DEF PageInv, QuestionsAreDerived, DocumentsAreRendered
<1>3. ExportIsArchive' /\ PicksAreShown' /\ OneEmphasis'
  BY <1>1 DEF PageInv, ExportIsArchive, PicksAreShown, OneEmphasis
<1>. QED
  BY <1>1, <1>2, <1>3 DEF PageInv

\* New documents, from the templates or from a model.
LEMMA DocumentsKeep ==
    ASSUME PageInv, NEW docs, NEW form \in RenderForms \cup {None}, NEW source,
           world # None, SetDocuments(docs, form, source),
           source = "templates" => docs = Rendered(world, form),
           source # "templates" => form # None /\ docs = Layout[world][form.perDoc],
           UNCHANGED <<world, selected, questions, questionSpec, picked>>
    PROVE  PageInv'
<1>1. /\ export' = None
      /\ documents' = docs /\ docSource' = source /\ renderSpec' = form
      /\ pickedDoc' = None /\ pickedFact' = None
      /\ UNCHANGED <<world, selected, questions, questionSpec, picked>>
  BY DEF SetDocuments, DropExport
<1>2. QuestionsAreDerived' /\ DocumentsAreRendered'
  BY <1>1 DEF PageInv, QuestionsAreDerived, DocumentsAreRendered
<1>3. ExportIsArchive' /\ PicksAreShown' /\ OneEmphasis'
  BY <1>1 DEF PageInv, ExportIsArchive, PicksAreShown, OneEmphasis
<1>. QED
  BY <1>1, <1>2, <1>3 DEF PageInv

LEMMA RenderTemplatesKeeps ==
    ASSUME PageInv, NEW form \in RenderForms \cup {None}, RenderTemplates(form)
    PROVE  PageInv'
<1>1. /\ world # None /\ SetDocuments(Rendered(world, form), form, "templates")
      /\ UNCHANGED <<world, selected, questions, questionSpec, picked>>
  BY DEF RenderTemplates
<1>. QED
  BY <1>1, DocumentsKeep

\* What a pick changes.
LEMMA PickKeeps ==
    ASSUME PageInv, PicksAreShown', OneEmphasis',
           UNCHANGED <<world, questions, questionSpec, documents, docSource, renderSpec, export>>
    PROVE  PageInv'
<1>1. QuestionsAreDerived' /\ DocumentsAreRendered'
  BY DEF PageInv, QuestionsAreDerived, DocumentsAreRendered
<1>2. ExportIsArchive'
  BY DEF PageInv, ExportIsArchive, Archive
<1>. QED
  BY <1>1, <1>2 DEF PageInv

LEMMA ClickEntityKeeps ==
    ASSUME PageInv, NEW i, ClickEntity(i)
    PROVE  PageInv'
<1>1. PicksAreShown' /\ OneEmphasis'
  BY DEF PageInv, PicksAreShown, OneEmphasis, ClickEntity
<1>2. UNCHANGED <<world, questions, questionSpec, documents, docSource, renderSpec, export>>
  BY DEF ClickEntity
<1>. QED
  BY <1>1, <1>2, PickKeeps

LEMMA PickQuestionKeeps ==
    ASSUME PageInv, NEW q, PickQuestion(q)
    PROVE  PageInv'
<1>1. PicksAreShown' /\ OneEmphasis'
  BY DEF PageInv, PicksAreShown, OneEmphasis, PickQuestion
<1>2. UNCHANGED <<world, questions, questionSpec, documents, docSource, renderSpec, export>>
  BY DEF PickQuestion
<1>. QED
  BY <1>1, <1>2, PickKeeps

LEMMA OpenDocumentKeeps ==
    ASSUME PageInv, NEW d, OpenDocument(d)
    PROVE  PageInv'
<1>1. PicksAreShown' /\ OneEmphasis'
  BY DEF PageInv, PicksAreShown, OneEmphasis, OpenDocument
<1>2. UNCHANGED <<world, questions, questionSpec, documents, docSource, renderSpec, export>>
  BY DEF OpenDocument
<1>. QED
  BY <1>1, <1>2, PickKeeps

LEMMA ClickSentenceKeeps ==
    ASSUME PageInv, NEW f, ClickSentence(f)
    PROVE  PageInv'
<1>1. PicksAreShown' /\ OneEmphasis'
  BY DEF PageInv, PicksAreShown, OneEmphasis, ClickSentence
<1>2. UNCHANGED <<world, questions, questionSpec, documents, docSource, renderSpec, export>>
  BY DEF ClickSentence
<1>. QED
  BY <1>1, <1>2, PickKeeps

LEMMA PrepareExportKeeps ==
    ASSUME PageInv, PrepareExport
    PROVE  PageInv'
<1>1. world # None /\ export' = Archive /\ UNCHANGED screen
  BY DEF PrepareExport
<1>2. QuestionsAreDerived' /\ DocumentsAreRendered' /\ PicksAreShown' /\ OneEmphasis'
  BY <1>1 DEF PageInv, QuestionsAreDerived, DocumentsAreRendered, PicksAreShown, OneEmphasis, screen
<1>3. ExportIsArchive'
  BY <1>1 DEF ExportIsArchive, Archive, screen
<1>. QED
  BY <1>1, <1>2, <1>3 DEF PageInv, screen

(***************************************************************************)
(* What is paid for.                                                       *)
(***************************************************************************)

\* Every answer paid for was refused or is kept.
Paid(bag, refused, stored) ==
    /\ DOMAIN refused \subseteq DOMAIN bag /\ stored \subseteq DOMAIN bag
    /\ \A k \in DOMAIN refused : refused[k] \in Nat
    /\ \A k \in DOMAIN bag : bag[k] = Count(refused, k) + (IF k \in stored THEN 1 ELSE 0)

LEMMA PaidOn ==
    ASSUME NEW bag, NEW refused, NEW stored, NEW asked, NEW bad, NEW valid,
           Paid(bag, refused, stored),
           asked = bad \cup valid, bad \cap valid = {}, asked \cap stored = {}
    PROVE  Paid(Counted(bag, asked), Counted(refused, bad), stored \cup valid)
<1>. DEFINE bag2 == Counted(bag, asked)
            refused2 == Counted(refused, bad)
<1>1. /\ DOMAIN bag2 = DOMAIN bag \cup asked /\ DOMAIN refused2 = DOMAIN refused \cup bad
      /\ \A k \in DOMAIN bag2 : bag2[k] = Count(bag, k) + (IF k \in asked THEN 1 ELSE 0)
      /\ \A k \in DOMAIN refused2 : refused2[k] = Count(refused, k) + (IF k \in bad THEN 1 ELSE 0)
  BY DEF Counted
<1>. HIDE DEF bag2, refused2
<1>2. \A k : Count(refused, k) \in Nat
  BY DEF Paid, Count
<1>3. \A k \in DOMAIN refused2 : refused2[k] \in Nat
  BY <1>1, <1>2
<1>4. ASSUME NEW k \in DOMAIN bag2
      PROVE  bag2[k] = Count(refused2, k) + (IF k \in stored \cup valid THEN 1 ELSE 0)
  <2>1. Count(refused2, k) = Count(refused, k) + (IF k \in bad THEN 1 ELSE 0)
    <3>1. CASE k \in DOMAIN refused2
      BY <1>1, <3>1 DEF Count
    <3>2. CASE k \notin DOMAIN refused2
      BY <1>1, <3>2 DEF Count
    <3>. QED
      BY <3>1, <3>2
  <2>2. Count(bag, k) = Count(refused, k) + (IF k \in stored THEN 1 ELSE 0)
    <3>1. CASE k \in DOMAIN bag
      BY <3>1 DEF Paid, Count
    <3>2. CASE k \notin DOMAIN bag
      BY <3>2 DEF Paid, Count
    <3>. QED
      BY <3>1, <3>2
  <2>3. bag2[k] = Count(bag, k) + (IF k \in asked THEN 1 ELSE 0)
    BY <1>1
  <2>. QED
    BY <1>2, <2>1, <2>2, <2>3
<1>5. DOMAIN refused2 \subseteq DOMAIN bag2 /\ stored \cup valid \subseteq DOMAIN bag2
  BY <1>1 DEF Paid
<1>6. Paid(bag2, refused2, stored \cup valid)
  BY <1>3, <1>4, <1>5 DEF Paid
<1>. QED
  BY <1>6 DEF bag2, refused2

ShownIsStored ==
    docSource # "templates" => \A d \in DOMAIN documents : Prompt(world, documents[d], docSource) \in cache

PaidInv == Paid(calls, rejected, cache) /\ ShownIsStored

LEMMA PaidInit == Init => PaidInv
BY DEF Init, PaidInv, Paid, ShownIsStored

\* A rendering by a model, whether it completes or stops.
LEMMA RenderLLMKeeps ==
    ASSUME PageInv, PaidInv, NEW form \in RenderForms, NEW model \in Models,
           NEW online \in BOOLEAN, RenderLLM(form, model, online)
    PROVE  PageInv' /\ PaidInv'
<1>. DEFINE jobs == Layout[world][form.perDoc]
            prompts(D) == {Prompt(world, jobs[d], model) : d \in D}
<1>1. world # None /\ world \in Worlds
  BY DEF RenderLLM, PageInv
<1>0. PICK started \in 1 .. Len(jobs) : \E bad \in SUBSET (1 .. started) :
        LET try == Attempt(jobs, model, online, started, bad)
            complete == try.failed = {} /\ started = Len(jobs)
        IN  /\ bad \subseteq try.asked
            /\ calls' = Counted(calls, prompts(try.asked))
            /\ rejected' = Counted(rejected, prompts(bad))
            /\ cache' = Stored(prompts(try.asked \ bad), complete)
            /\ IF complete
                 THEN /\ SetDocuments(jobs, form, model)
                      /\ UNCHANGED <<world, selected, questions, questionSpec, picked>>
                 ELSE LeaveAsIs(form)
  BY Zenon DEF RenderLLM
<1>2. PICK bad \in SUBSET (1 .. started) :
        LET try == Attempt(jobs, model, online, started, bad)
            complete == try.failed = {} /\ started = Len(jobs)
        IN  /\ bad \subseteq try.asked
            /\ calls' = Counted(calls, prompts(try.asked))
            /\ rejected' = Counted(rejected, prompts(bad))
            /\ cache' = Stored(prompts(try.asked \ bad), complete)
            /\ IF complete
                 THEN /\ SetDocuments(jobs, form, model)
                      /\ UNCHANGED <<world, selected, questions, questionSpec, picked>>
                 ELSE LeaveAsIs(form)
  BY <1>0
<1>. DEFINE missing == {d \in 1 .. started : Prompt(world, jobs[d], model) \notin cache}
            asked == IF online THEN missing ELSE {}
            failed == IF online THEN bad \cap missing ELSE missing
            complete == failed = {} /\ started = Len(jobs)
<1>3. /\ bad \subseteq asked
      /\ calls' = Counted(calls, prompts(asked))
      /\ rejected' = Counted(rejected, prompts(bad))
      /\ cache' = cache \cup prompts(asked \ bad)
      /\ IF complete
           THEN /\ SetDocuments(jobs, form, model)
                /\ UNCHANGED <<world, selected, questions, questionSpec, picked>>
           ELSE LeaveAsIs(form)
  BY <1>2 DEF Attempt, Stored
<1>4. IsLayout(world, jobs)
  BY <1>1, LayoutIs
<1>. HIDE DEF jobs
<1>5. jobs \in Seq([subject : Nodes(world), facts : SUBSET (1 .. Len(WorldFacts[world]))])
  BY <1>4 DEF IsLayout
<1>6. DOMAIN jobs = 1 .. Len(jobs) /\ Len(jobs) \in Nat
  BY <1>5
<1>7. 1 .. started \subseteq DOMAIN jobs
  BY <1>6
<1>8. \A c, d \in DOMAIN jobs : Prompt(world, jobs[c], model) = Prompt(world, jobs[d], model) => c = d
  BY <1>4 DEF IsLayout, Prompt
<1>9. asked \subseteq 1 .. started /\ \A d \in asked : Prompt(world, jobs[d], model) \notin cache
  OBVIOUS
<1>10. Paid(calls', rejected', cache')
  <2>1. prompts(asked) = prompts(bad) \cup prompts(asked \ bad)
    BY <1>3
  <2>2. prompts(bad) \cap prompts(asked \ bad) = {}
    BY <1>3, <1>7, <1>8, <1>9
  <2>3. prompts(asked) \cap cache = {}
    BY <1>9
  <2>4. Paid(calls, rejected, cache)
    BY DEF PaidInv
  <2>. HIDE DEF prompts, asked
  <2>5. Paid(Counted(calls, prompts(asked)), Counted(rejected, prompts(bad)), cache \cup prompts(asked \ bad))
    BY <2>1, <2>2, <2>3, <2>4, PaidOn
  <2>. QED
    BY <1>3, <2>5
<1>11. CASE complete
  <2>1. /\ SetDocuments(jobs, form, model)
        /\ UNCHANGED <<world, selected, questions, questionSpec, picked>>
    BY <1>3, <1>11
  <2>2. PageInv'
    <3>1. model # "templates" /\ form # None
      BY GeneratorUIAssumption
    <3>. QED
      BY <1>1, <2>1, <3>1, DocumentsKeep DEF jobs
  <2>3. ASSUME NEW d \in DOMAIN jobs PROVE Prompt(world, jobs[d], model) \in cache'
    <3>1. d \in 1 .. started
      BY <1>6, <1>11
    <3>2. CASE d \in missing
      <4>1. online /\ d \notin bad
        BY <1>11, <3>2
      <4>2. d \in asked \ bad
        BY <3>2, <4>1
      <4>. QED
        BY <1>3, <4>2
    <3>3. CASE d \notin missing
      BY <1>3, <3>1, <3>3
    <3>. QED
      BY <3>2, <3>3
  <2>4. ShownIsStored'
    <3>1. documents' = jobs /\ docSource' = model /\ world' = world
      BY <2>1 DEF SetDocuments
    <3>. QED
      BY <2>3, <3>1 DEF ShownIsStored, Prompt
  <2>. QED
    BY <1>10, <2>2, <2>4 DEF PaidInv
<1>12. CASE ~complete
  <2>1. UNCHANGED screen /\ UNCHANGED export
    BY <1>3, <1>12 DEF LeaveAsIs
  <2>2. PageInv'
    <3>1. PicksAreShown' /\ OneEmphasis'
      BY <2>1 DEF PageInv, PicksAreShown, OneEmphasis, screen
    <3>. QED
      BY <2>1, <3>1, PickKeeps DEF screen
  <2>3. ShownIsStored'
    BY <1>3, <2>1 DEF PaidInv, ShownIsStored, Prompt, screen
  <2>. QED
    BY <1>10, <2>2, <2>3 DEF PaidInv
<1>. QED
  BY <1>11, <1>12

\* Everything else leaves the disk alone, and a page not written by a model shows nothing of it.
LEMMA DiskStays ==
    ASSUME PaidInv, UNCHANGED disk,
           docSource' # "templates" => UNCHANGED <<world, documents, docSource>>
    PROVE  PaidInv'
<1>1. Paid(calls', rejected', cache')
  BY DEF PaidInv, disk
<1>2. ShownIsStored'
  BY DEF PaidInv, ShownIsStored, Prompt, disk
<1>. QED
  BY <1>1, <1>2 DEF PaidInv

LEMMA UIStep == PageInv /\ PaidInv /\ [Next]_vars => PageInv' /\ PaidInv'
<1>. SUFFICES ASSUME PageInv, PaidInv, [Next]_vars PROVE PageInv' /\ PaidInv'
  OBVIOUS
<1>1. ASSUME NEW w \in Worlds, NEW asks \in QuestionForms \cup {None},
             NEW renders \in RenderForms \cup {None}, Generate(w, asks, renders)
      PROVE  PageInv' /\ PaidInv'
  <2>1. UNCHANGED disk /\ docSource' = "templates"
    BY <1>1 DEF Generate, SetDocuments
  <2>. QED
    BY <1>1, <2>1, GenerateKeeps, DiskStays
<1>2. ASSUME NEW form \in QuestionForms \cup {None}, Derive(form) PROVE PageInv' /\ PaidInv'
  <2>1. UNCHANGED <<world, documents, docSource>> /\ UNCHANGED disk
    BY <1>2 DEF Derive
  <2>. QED
    BY <1>2, <2>1, DeriveKeeps, DiskStays
<1>3. ASSUME NEW form \in RenderForms \cup {None}, RenderTemplates(form) PROVE PageInv' /\ PaidInv'
  <2>1. UNCHANGED disk /\ docSource' = "templates"
    BY <1>3 DEF RenderTemplates, SetDocuments
  <2>. QED
    BY <1>3, <2>1, RenderTemplatesKeeps, DiskStays
<1>4. ASSUME NEW form \in RenderForms, NEW model \in Models, NEW online \in BOOLEAN,
             RenderLLM(form, model, online)
      PROVE  PageInv' /\ PaidInv'
  BY <1>4, RenderLLMKeeps
<1>5. ASSUME PrepareExport PROVE PageInv' /\ PaidInv'
  <2>1. UNCHANGED <<world, documents, docSource>> /\ UNCHANGED disk
    BY <1>5 DEF PrepareExport, screen
  <2>. QED
    BY <1>5, <2>1, PrepareExportKeeps, DiskStays
<1>6. ASSUME NEW i, ClickEntity(i) PROVE PageInv' /\ PaidInv'
  <2>1. UNCHANGED <<world, documents, docSource>> /\ UNCHANGED disk
    BY <1>6 DEF ClickEntity
  <2>. QED
    BY <1>6, <2>1, ClickEntityKeeps, DiskStays
<1>7. ASSUME NEW q, PickQuestion(q) PROVE PageInv' /\ PaidInv'
  <2>1. UNCHANGED <<world, documents, docSource>> /\ UNCHANGED disk
    BY <1>7 DEF PickQuestion
  <2>. QED
    BY <1>7, <2>1, PickQuestionKeeps, DiskStays
<1>8. ASSUME NEW d, OpenDocument(d) PROVE PageInv' /\ PaidInv'
  <2>1. UNCHANGED <<world, documents, docSource>> /\ UNCHANGED disk
    BY <1>8 DEF OpenDocument
  <2>. QED
    BY <1>8, <2>1, OpenDocumentKeeps, DiskStays
<1>9. ASSUME NEW f, ClickSentence(f) PROVE PageInv' /\ PaidInv'
  <2>1. UNCHANGED <<world, documents, docSource>> /\ UNCHANGED disk
    BY <1>9 DEF ClickSentence
  <2>. QED
    BY <1>9, <2>1, ClickSentenceKeeps, DiskStays
<1>10. CASE UNCHANGED vars
  <2>1. UNCHANGED <<world, documents, docSource>> /\ UNCHANGED disk /\ UNCHANGED screen /\ UNCHANGED export
    BY <1>10 DEF vars, screen
  <2>2. PicksAreShown' /\ OneEmphasis'
    BY <2>1 DEF PageInv, PicksAreShown, OneEmphasis, screen
  <2>. QED
    BY <2>1, <2>2, PickKeeps, DiskStays DEF screen
<1>. QED
  BY <1>1, <1>2, <1>3, <1>4, <1>5, <1>6, <1>7, <1>8, <1>9, <1>10 DEF Next

LEMMA UIAlways == Spec => [](PageInv /\ PaidInv)
BY PageInit, PaidInit, UIStep, PTL DEF Spec

\* A model's answer is paid for once per model and prompt, and what a model wrote on the page can
\* be shown again from the disk (CachingTransport, render_documents_llm).
THEOREM AnswersArePaidOnce == Spec => []NothingIsPaidTwice
<1>1. PaidInv => NothingIsPaidTwice
  BY DEF PaidInv, Paid, ShownIsStored, NothingIsPaidTwice
<1>. QED
  BY <1>1, UIAlways, PTL

(***************************************************************************)
(* The page is of one world.                                               *)
(***************************************************************************)

LEMMA WhatIsOffered == PageInv => ExportIsWhatIsShown
<1>. SUFFICES ASSUME PageInv, export # None PROVE
       /\ export.world = world
       /\ questions # <<>> => export.questions = questions
       /\ documents # <<>> /\ docSource = "templates" => export.documents = documents
  BY DEF ExportIsWhatIsShown
<1>1. world # None /\ export = Archive
  BY DEF PageInv, ExportIsArchive
<1>2. questions = Derived(world, questionSpec)
  BY <1>1 DEF PageInv, QuestionsAreDerived
<1>3. docSource = "templates" => documents = Rendered(world, renderSpec)
  BY <1>1 DEF PageInv, DocumentsAreRendered
<1>4. export.world = world
  BY <1>1 DEF Archive
<1>5. ASSUME questions # <<>> PROVE export.questions = questions
  BY <1>1, <1>2, <1>5 DEF Archive, Derived, OrDefault
<1>6. ASSUME documents # <<>>, docSource = "templates" PROVE export.documents = documents
  <2>1. documents = Templates[world][renderSpec] /\ renderSpec # None
    BY <1>3, <1>6 DEF Rendered
  <2>. QED
    BY <1>1, <2>1 DEF Archive, OrDefault
<1>. QED
  BY <1>4, <1>5, <1>6

LEMMA DocumentsAreOfTheWorld ==
    ASSUME PageInv, world # None
    PROVE  documents = <<>> \/ AreDocuments(world, documents)
<1>1. world \in Worlds
  BY DEF PageInv
<1>2. CASE docSource = "templates"
  <2>1. documents = Rendered(world, renderSpec)
    BY <1>2 DEF PageInv, DocumentsAreRendered
  <2>2. CASE documents = <<>>
    BY <2>2
  <2>3. CASE documents # <<>>
    <3>1. renderSpec # None /\ documents = Templates[world][renderSpec]
      BY <2>1, <2>3 DEF Rendered
    <3>2. renderSpec \in RenderForms
      BY <3>1 DEF PageInv, DocumentsAreRendered
    <3>. QED
      BY <1>1, <3>1, <3>2, TemplatesAreDocuments
  <2>. QED
    BY <2>2, <2>3
<1>3. CASE docSource # "templates"
  <2>1. documents = Layout[world][renderSpec.perDoc] /\ renderSpec \in RenderForms
    BY <1>3 DEF PageInv, DocumentsAreRendered
  <2>. QED
    BY <1>1, <2>1, LayoutIs, LayoutsAreDocuments
<1>. QED
  BY <1>2, <1>3

LEMMA FactsAtHome == PageInv => FactsAreStatedAtHome
<1>. SUFFICES ASSUME PageInv, documents # <<>>, NEW f \in Facts[world]
     PROVE  Cardinality({d \in DOMAIN documents :
                documents[d].subject = f.subject /\ f.id \in documents[d].facts}) = 1
  BY DEF FactsAreStatedAtHome
<1>1. world # None /\ world \in Worlds
  BY DEF PageInv, DocumentsAreRendered
<1>2. AreDocuments(world, documents)
  BY <1>1, DocumentsAreOfTheWorld
<1>3. PICK d \in DOMAIN documents :
        /\ documents[d].subject = f.subject /\ f.id \in documents[d].facts
        /\ \A c \in DOMAIN documents :
            documents[c].subject = f.subject /\ f.id \in documents[c].facts => c = d
  BY <1>2 DEF AreDocuments
<1>4. {c \in DOMAIN documents : documents[c].subject = f.subject /\ f.id \in documents[c].facts} = {d}
  BY <1>3
<1>. QED
  BY <1>4, FS_Singleton

LEMMA SamplesAreLargest == PageInv => SampleIsLargest
<1>. SUFFICES ASSUME PageInv, world # None PROVE SampleIsLargest
  BY DEF SampleIsLargest
<1>1. world \in Worlds
  BY DEF PageInv
<1>2. LargestSample(Nodes(world), Links[world], Graph[world])
  BY <1>1, GraphIs
<1>. QED
  BY <1>2 DEF LargestSample, SampleIsLargest

\* What the page wants to emphasise is of the world, and holds what it wants to centre on.
LEMMA WantedIs ==
    ASSUME PageInv, world # None
    PROVE  /\ Wanted.nodes \subseteq Nodes(world)
           /\ Wanted.edges \subseteq 1 .. Len(WorldFacts[world])
           /\ pickedFact # None =>
                \A id \in Wanted.edges : id \in {f.id : f \in Links[world]}
           /\ Target # None => Target \in Wanted.nodes
<1>1. world \in Worlds
  BY DEF PageInv
<1>2. CASE pickedFact # None
  <2>1. pickedDoc \in DOMAIN documents /\ pickedFact \in documents[pickedDoc].facts
    BY <1>2 DEF PageInv, PicksAreShown
  <2>2. pickedFact \in 1 .. Len(WorldFacts[world])
    <3>1. AreDocuments(world, documents)
      BY <2>1, DocumentsAreOfTheWorld
    <3>2. documents \in Seq([subject : Nodes(world), facts : SUBSET (1 .. Len(WorldFacts[world]))])
      BY <3>1 DEF AreDocuments
    <3>3. documents[pickedDoc] \in [subject : Nodes(world), facts : SUBSET (1 .. Len(WorldFacts[world]))]
      <4>. DEFINE T == [subject : Nodes(world), facts : SUBSET (1 .. Len(WorldFacts[world]))]
      <4>1. documents \in Seq(T) /\ pickedDoc \in 1 .. Len(documents)
        BY <2>1, <3>2
      <4>. HIDE DEF T
      <4>2. documents[pickedDoc] \in T
        BY <4>1, ElementOfSeq
      <4>. QED
        BY <4>2 DEF T
    <3>. QED
      BY <2>1, <3>3
  <2>. DEFINE f == FactWith(world, pickedFact)
  <2>3. f \in Facts[world] /\ f.id = pickedFact
    BY <1>1, <2>2, FactsAre, GeneratorUIAssumption
  <2>4. f.subject \in Nodes(world) /\ f.object \in Nodes(world)
    BY <1>1, <2>3, FactsAre
  <2>5. Wanted = [nodes |-> {f.subject, f.object}, edges |-> IF f.ended THEN {} ELSE {f.id}]
    BY <1>2 DEF Wanted, FactPath
  <2>6. Target = f.subject
    BY <1>2 DEF Target
  <2>7. ~f.ended => f \in Links[world]
    BY <1>1, <2>3, LinksAre
  <2>. HIDE DEF f
  <2>. QED
    BY <2>2, <2>3, <2>4, <2>5, <2>6, <2>7
<1>3. CASE pickedFact = None /\ picked # None
  <2>1. picked \in DOMAIN questions
    BY <1>3 DEF PageInv, PicksAreShown
  <2>2. questions = Derived(world, questionSpec) /\ questionSpec \in QuestionForms \cup {None}
    BY DEF PageInv, QuestionsAreDerived
  <2>3. questionSpec # None /\ questions \in Seq(Question(world))
    <3>1. CASE questionSpec = None
      BY <2>1, <2>2, <3>1 DEF Derived
    <3>2. CASE questionSpec # None
      BY <1>1, <2>2, <3>2, GeneratorUIAssumption DEF Derived
    <3>. QED
      BY <3>1, <3>2
  <2>. DEFINE q == questions[picked]
  <2>4. q \in Question(world)
    BY <2>1, <2>3
  <2>. HIDE DEF q
  <2>5. q.start \in Nodes(world) /\ q.facts \subseteq 1 .. Len(WorldFacts[world])
    <3>1. DOMAIN WorldFacts[world] = 1 .. Len(WorldFacts[world])
      BY <1>1, GeneratorUIAssumption
    <3>. QED
      BY <2>4, <3>1 DEF Question, Nodes
  <2>6. \A id \in q.facts : /\ FactWith(world, id).subject \in Nodes(world)
                            /\ FactWith(world, id).object \in Nodes(world)
    BY <1>1, <2>5, FactsAre, GeneratorUIAssumption
  <2>7. Wanted = GoldPath(q) /\ Target = q.start
    BY <1>3 DEF Wanted, Target, q
  <2>8. /\ GoldPath(q).edges = q.facts
        /\ GoldPath(q).nodes =
             {q.start} \cup UNION {{f.subject, f.object} : f \in {FactWith(world, id) : id \in q.facts}}
    BY DEF GoldPath
  <2>9. GoldPath(q).nodes \subseteq Nodes(world) /\ q.start \in GoldPath(q).nodes
    BY <2>5, <2>6, <2>8
  <2>. QED
    BY <1>3, <2>5, <2>7, <2>8, <2>9
<1>4. CASE pickedFact = None /\ picked = None
  <2>1. Wanted = Nothing /\ Target = None
    BY <1>4 DEF Wanted, Target
  <2>. QED
    BY <1>4, <2>1 DEF Nothing
<1>. QED
  BY <1>2, <1>3, <1>4

LEMMA HighlightsAreDrawn == PageInv => HighlightIsDrawn
<1>. SUFFICES ASSUME PageInv, world # None PROVE HighlightIsDrawn
  BY DEF HighlightIsDrawn
<1>. DEFINE drawn == Graph[world]
            ids == {f.id : f \in drawn.edges}
            ended == {f.id : f \in {x \in Facts[world] : x.ended}}
<1>1. world \in Worlds
  BY DEF PageInv
<1>2. LargestSample(Nodes(world), Links[world], drawn)
  BY <1>1, GraphIs
<1>3. /\ Wanted.nodes \subseteq Nodes(world)
      /\ Wanted.edges \subseteq 1 .. Len(WorldFacts[world])
      /\ pickedFact # None => \A id \in Wanted.edges : id \in {f.id : f \in Links[world]}
      /\ Target # None => Target \in Wanted.nodes
  BY WantedIs
<1>4. Highlight = IF ~drawn.sampled THEN Wanted
                  ELSE [nodes |-> Wanted.nodes \cap drawn.nodes, edges |-> Wanted.edges \cap ids]
  BY DEF Highlight, Restricted
<1>5. Focus = IF drawn.sampled /\ Target \notin drawn.nodes THEN None ELSE Target
  BY DEF Focus
<1>6. CASE drawn.sampled
  <2>1. Highlight = [nodes |-> Wanted.nodes \cap drawn.nodes, edges |-> Wanted.edges \cap ids]
    BY <1>4, <1>6
  <2>2. Focus # None => Focus = Target /\ Target # None /\ Target \in drawn.nodes
    BY <1>5, <1>6
  <2>. HIDE DEF drawn, ended, ids
  <2>3. /\ Highlight.nodes \subseteq drawn.nodes /\ Highlight.edges \subseteq ids
        /\ Focus # None => Focus \in Highlight.nodes
    BY <1>3, <2>1, <2>2
  <2>. QED
    BY <1>6, <2>3 DEF HighlightIsDrawn, drawn, ids, ended
<1>7. CASE ~drawn.sampled
  <2>1. Highlight = Wanted /\ Focus = Target
    BY <1>4, <1>5, <1>7
  <2>2. drawn.nodes = Nodes(world) /\ drawn.edges = Links[world]
    BY <1>2, <1>7 DEF LargestSample
  <2>3. ASSUME NEW id \in 1 .. Len(WorldFacts[world]) PROVE id \in ids \cup ended
    <3>1. FactWith(world, id) \in Facts[world] /\ FactWith(world, id).id = id
      BY <1>1, FactsAre, GeneratorUIAssumption
    <3>2. FactWith(world, id) \in Links[world] \/ FactWith(world, id).ended
      BY <1>1, <3>1, LinksAre
    <3>. QED
      BY <2>2, <3>1, <3>2
  <2>4. ids = {f.id : f \in Links[world]}
    BY <2>2
  <2>. HIDE DEF drawn, ended, ids
  <2>5. /\ Highlight.nodes \subseteq drawn.nodes
        /\ Highlight.edges \subseteq ids \cup (IF drawn.sampled \/ pickedFact # None THEN {} ELSE ended)
        /\ Focus # None => Focus \in Highlight.nodes
    BY <1>3, <1>7, <2>1, <2>2, <2>3, <2>4
  <2>. QED
    BY <2>5 DEF HighlightIsDrawn, drawn, ids, ended
<1>. QED
  BY <1>6, <1>7

\* What is picked, emphasised, drawn, stated and offered for download belongs to the world on
\* screen, whatever was pressed before (app.py and model.py of kggen_ui).
THEOREM PageStaysOfOneWorld == Spec => []PageIsOfOneWorld
<1>1. PageInv => PageIsOfOneWorld
  <2>1. PageInv => PicksAreShown /\ OneEmphasis
    BY DEF PageInv
  <2>. QED
    BY <2>1, WhatIsOffered, HighlightsAreDrawn, SamplesAreLargest, FactsAtHome DEF PageIsOfOneWorld
<1>. QED
  BY <1>1, UIAlways, PTL
=============================================================================
