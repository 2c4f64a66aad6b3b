----------------------------- MODULE RecallProofs -----------------------------
(***************************************************************************)
(* A recall's distances are shortest ones and its seeds decide the answer, *)
(* for any graph, any changes to it and any order of iteration.            *)
(*                                                                         *)
(* The walk's invariant is the classical one of a breadth-first search:    *)
(* the queue holds nodes of at most two consecutive distances, in order,   *)
(* and a node that left it has handed its distance on.                     *)
(***************************************************************************)
EXTENDS Recall, NaturalsInduction, FiniteSetTheorems, TLAPS

Walking == query.pc = "walk"

Queued(v) == \E i \in 1..Len(query.queue) : query.queue[i] = v

RootsAtZero == \A v \in Ids : query.dist[v] = 0 <=> v \in Roots

ReachedIsFound == \A v \in Ids : query.dist[v] # Unreached => v \in query.found

HasPredecessor ==
    \A v \in Ids : query.dist[v] > 0 =>
        \E u \in query.found : v \in Adjacent(query, u) /\ query.dist[u] = query.dist[v] - 1

QueueIsReached ==
    \A i \in 1..Len(query.queue) : query.dist[query.queue[i]] # Unreached

QueueInOrder ==
    \A i, j \in 1..Len(query.queue) : i < j =>
        /\ query.dist[query.queue[i]] <= query.dist[query.queue[j]]
        /\ query.dist[query.queue[j]] <= query.dist[query.queue[i]] + 1

HandedOn(u) ==
    \A v \in Adjacent(query, u) :
        query.dist[v] # Unreached /\ query.dist[v] <= query.dist[u] + 1

LeftIsHandedOn ==
    \A u \in query.found : (query.dist[u] # Unreached /\ ~Queued(u)) => HandedOn(u)

LeftIsNoFarther ==
    \A u \in query.found : (query.dist[u] # Unreached /\ ~Queued(u)) =>
        \A i \in 1..Len(query.queue) : query.dist[u] <= query.dist[query.queue[i]]

WalkInv ==
    /\ RootsAtZero
    /\ ReachedIsFound
    /\ HasPredecessor
    /\ QueueIsReached
    /\ QueueInOrder
    /\ LeftIsHandedOn
    /\ LeftIsNoFarther

AnswerIsFirst ==
    \/ query.found = {} /\ query.answer = NoAnswer
    \/ query.answer \in First(query)

RecallInv ==
    /\ TypeOK
    /\ Walking => WalkInv
    /\ Answered => HopsAreShortest /\ AnswerIsFirst

\* An order of a finite set is a sequence of its members that leaves none out.
LEMMA OrderIsList ==
    ASSUME NEW S, IsFiniteSet(S), NEW s \in Orders(S)
    PROVE  /\ s \in Seq(S)
           /\ \A i \in 1..Len(s) : s[i] \in S
           /\ \A v \in S : \E i \in 1..Len(s) : s[i] = v
<1>1. Cardinality(S) \in Nat
  BY FS_CardinalityType
<1>2. s \in [1..Cardinality(S) -> S] /\ \A v \in S : \E i \in DOMAIN s : s[i] = v
  BY DEF Orders
<1>3. s \in Seq(S)
  BY <1>1, <1>2
<1>4. DOMAIN s = 1..Len(s)
  BY <1>3
<1>. QED
  BY <1>2, <1>3, <1>4

\* Every part of the graph that a query holds is finite.
LEMMA PartsAreFinite ==
    ASSUME NEW S \in SUBSET Ids
    PROVE  IsFiniteSet(S)
BY RecallAssumption, FS_Subset

-------------------------------------------------------------------------------

LEMMA InitInv == Init => RecallInv
<1>. SUFFICES ASSUME Init PROVE RecallInv
  OBVIOUS
<1>1. query = Idle /\ query \in Query /\ query.pc = "idle"
  BY DEF Init, Query, Idle
<1>2. TypeOK
  <2>1. nodes \subseteq Ids /\ edges \subseteq Edges
    BY RecallAssumption DEF Init, Edges
  <2>2. touched \in BOOLEAN
    BY DEF Init
  <2>3. changes \in 0..MaxChanges
    BY RecallAssumption DEF Init
  <2>. QED
    BY <1>1, <2>1, <2>2, <2>3 DEF TypeOK
<1>. QED
  BY <1>1, <1>2 DEF RecallInv, Walking, Answered

\* Others change the graph, which no part of the invariant but the types is about.
LEMMA OthersInv ==
    ASSUME TypeOK, Others
    PROVE  TypeOK' /\ UNCHANGED query
<1>. USE RecallAssumption DEF TypeOK, Edges
<1>1. ASSUME NEW id \in Ids, UpsertNode(id)
      PROVE  TypeOK' /\ UNCHANGED query
  BY <1>1 DEF UpsertNode, ChangeGraph
<1>2. ASSUME NEW id \in Ids, DeleteNode(id)
      PROVE  TypeOK' /\ UNCHANGED query
  BY <1>2 DEF DeleteNode, ChangeGraph
<1>3. ASSUME NEW u \in Ids, NEW v \in Ids, CreateEdge(u, v)
      PROVE  TypeOK' /\ UNCHANGED query
  BY <1>3 DEF CreateEdge, ChangeGraph
<1>4. ASSUME NEW e \in edges, DeleteEdge(e)
      PROVE  TypeOK' /\ UNCHANGED query
  BY <1>4 DEF DeleteEdge, ChangeGraph
<1>. QED
  BY <1>1, <1>2, <1>3, <1>4 DEF Others

\* The reads before the edges: only what the query holds changes.
LEMMA ReadInv ==
    ASSUME TypeOK, Ask \/ ReadSeeds \/ ReadIds \/ ReadNodes \/ Respond \/ Fail
    PROVE  TypeOK' /\ ~Walking' /\ ~Answered'
<1>. USE DEF TypeOK, Walking, Answered
<1>1. CASE Ask
  BY <1>1 DEF Ask, graph, Query
<1>2. CASE ReadSeeds
  <2>1. PICK S \in SUBSET Ids : \E cosine \in [S -> Cosines] :
            query' = [pc |-> "khop",
                      scores |-> [id \in Ids |-> IF id \in S THEN cosine[id] ELSE NotSeed]]
    BY <1>2 DEF ReadSeeds
  <2>2. PICK cosine \in [S -> Cosines] :
            query' = [pc |-> "khop",
                      scores |-> [id \in Ids |-> IF id \in S THEN cosine[id] ELSE NotSeed]]
    BY <2>1
  <2>3. [id \in Ids |-> IF id \in S THEN cosine[id] ELSE NotSeed] \in Scores
    BY DEF Scores
  <2>4. query' \in Query /\ query'.pc = "khop"
    BY <2>2, <2>3 DEF Query
  <2>. QED
    BY <1>2, <2>4 DEF ReadSeeds, graph
<1>3. CASE ReadIds
  <2>1. query.scores \in Scores
    BY <1>3 DEF ReadIds, Query, Idle
  <2>2. query' \in Query /\ query'.pc = "nodes"
    BY <1>3, <2>1 DEF ReadIds, Query
  <2>. QED
    BY <1>3, <2>2 DEF ReadIds, graph
<1>4. CASE ReadNodes
  <2>1. query.scores \in Scores /\ query.ids \in SUBSET Ids
    BY <1>4 DEF ReadNodes, Query, Idle
  <2>2. query' \in Query /\ query'.pc = "edges"
    BY <1>4, <2>1 DEF ReadNodes, Query
  <2>. QED
    BY <1>4, <2>2 DEF ReadNodes, graph
<1>5. CASE Respond \/ Fail
  <2>1. query' \in Query /\ query'.pc = "idle"
    BY <1>5 DEF Respond, Fail, Query, Idle
  <2>. QED
    BY <1>5, <2>1 DEF Respond, Fail, graph
<1>. QED
  BY <1>1, <1>2, <1>3, <1>4, <1>5

\* What a query holds while it walks, and how its distances compare.
LEMMA WalkType ==
    ASSUME TypeOK, Walking
    PROVE  /\ query = [pc |-> "walk", scores |-> query.scores, found |-> query.found,
                       edges |-> query.edges, dist |-> query.dist, queue |-> query.queue]
           /\ query.scores \in Scores
           /\ query.found \in SUBSET Ids
           /\ query.edges \in SUBSET Edges
           /\ query.dist \in Distances
           /\ query.queue \in Seq(Ids)
BY DEF TypeOK, Walking, Query, Idle

LEMMA WalkBegins ==
    ASSUME TypeOK, ReadEdges
    PROVE  TypeOK' /\ Walking' /\ WalkInv'
<1>1. /\ query \in Query /\ query.pc = "edges"
      /\ query.scores \in Scores /\ query.ids \in SUBSET Ids /\ query.found \in SUBSET Ids
  BY DEF TypeOK, ReadEdges, Query, Idle
<1>. DEFINE R == Seeds(query.scores) \cap query.found
            E == {e \in edges : e[1] \in query.ids /\ e[2] \in query.ids}
            D == [v \in Ids |-> IF v \in R THEN 0 ELSE Unreached]
<1>2. PICK roots \in Orders(R) :
        query' = [pc |-> "walk", scores |-> query.scores, found |-> query.found,
                  edges |-> E, dist |-> D, queue |-> roots]
  BY DEF ReadEdges
<1>3. R \in SUBSET Ids
  BY <1>1
<1>4. /\ roots \in Seq(R)
      /\ \A i \in 1..Len(roots) : roots[i] \in R
      /\ \A v \in R : \E i \in 1..Len(roots) : roots[i] = v
  BY <1>3, PartsAreFinite, OrderIsList
<1>5. D \in Distances /\ E \in SUBSET Edges /\ roots \in Seq(Ids)
  BY <1>3, <1>4 DEF TypeOK, Distances, Unreached
<1>6. /\ query'.pc = "walk" /\ query'.scores = query.scores /\ query'.found = query.found
      /\ query'.edges = E /\ query'.dist = D /\ query'.queue = roots
  BY <1>2
<1>7. TypeOK' /\ Walking'
  <2>1. query' \in Query
    BY <1>1, <1>2, <1>5 DEF Query
  <2>. QED
    BY <1>6, <2>1 DEF TypeOK, ReadEdges, graph, Walking
<1>8. Roots' = R
  BY <1>6 DEF Roots
<1>9. \A v \in Ids : (v \in R => D[v] = 0) /\ (v \notin R => D[v] = -1)
  BY DEF Unreached
<1>10. \A v \in R : Queued(v)'
  BY <1>4, <1>6 DEF Queued
<1>. HIDE DEF R, E, D
<1>11. RootsAtZero'
  BY <1>6, <1>8, <1>9 DEF RootsAtZero
<1>12. ReachedIsFound'
  <2>1. R \subseteq query.found
    BY DEF R
  <2>. QED
    BY <1>6, <1>9, <2>1 DEF ReachedIsFound, Unreached
<1>13. HasPredecessor'
  BY <1>6, <1>9 DEF HasPredecessor
<1>14. QueueIsReached' /\ QueueInOrder'
  <2>1. \A i \in 1..Len(query'.queue) : query'.dist[query'.queue[i]] = 0
    BY <1>3, <1>4, <1>6, <1>9
  <2>2. QueueIsReached'
    BY <2>1 DEF QueueIsReached, Unreached
  <2>3. QueueInOrder'
    BY <2>1 DEF QueueInOrder
  <2>. QED
    BY <2>2, <2>3
<1>15. LeftIsHandedOn' /\ LeftIsNoFarther'
  BY <1>1, <1>6, <1>9, <1>10 DEF LeftIsHandedOn, LeftIsNoFarther, Unreached
<1>. QED
  BY <1>7, <1>11, <1>12, <1>13, <1>14, <1>15 DEF WalkInv

\* One visit: the head's new neighbours join at the end, one hop farther than it.
LEMMA VisitInv ==
    ASSUME TypeOK, Walking, WalkInv, Visit
    PROVE  TypeOK' /\ Walking' /\ WalkInv'
<1>. DEFINE q == query.queue
            h == Head(q)
            d == query.dist
            N == NewNeighbours(query, h)
            D == Discover(query, h)
<1>1. PICK order \in Orders(N) : query' = [query EXCEPT !.dist = D, !.queue = Tail(q) \o order]
  BY DEF Visit
<1>2. q \in Seq(Ids) /\ q # <<>> /\ Len(q) \in Nat \ {0} /\ h = q[1] /\ h \in Ids
  BY WalkType DEF Visit
<1>3. N \in SUBSET Ids
  BY WalkType DEF NewNeighbours, Adjacent
<1>4. /\ order \in Seq(N)
      /\ \A i \in 1..Len(order) : order[i] \in N
      /\ \A v \in N : \E i \in 1..Len(order) : order[i] = v
  BY <1>3, PartsAreFinite, OrderIsList
<1>5. d \in Distances /\ d[h] \in Nat
  <2>1. d[h] # Unreached
    BY <1>2, 1 \in 1..Len(q) DEF WalkInv, QueueIsReached
  <2>. QED
    BY <2>1, <1>2, WalkType DEF Distances
<1>6. D \in Distances
  BY <1>5 DEF Discover, Distances
<1>7. Tail(q) \o order \in Seq(Ids)
  BY <1>2, <1>3, <1>4
<1>8. /\ query' = [pc |-> "walk", scores |-> query.scores, found |-> query.found,
                   edges |-> query.edges, dist |-> D, queue |-> Tail(q) \o order]
  <2>1. query = [pc |-> "walk", scores |-> query.scores, found |-> query.found,
                 edges |-> query.edges, dist |-> query.dist, queue |-> query.queue]
    BY WalkType
  <2>. DEFINE Q == Tail(q) \o order
  <2>2. query' = [[query EXCEPT !.dist = D] EXCEPT !.queue = Q]
    BY <1>1
  <2>. HIDE DEF D, Q
  <2>3. [query EXCEPT !.dist = D]
          = [pc |-> "walk", scores |-> query.scores, found |-> query.found,
             edges |-> query.edges, dist |-> D, queue |-> query.queue]
    BY <2>1
  <2>4. [[pc |-> "walk", scores |-> query.scores, found |-> query.found,
          edges |-> query.edges, dist |-> D, queue |-> query.queue] EXCEPT !.queue = Q]
          = [pc |-> "walk", scores |-> query.scores, found |-> query.found,
             edges |-> query.edges, dist |-> D, queue |-> Q]
    OBVIOUS
  <2>. QED
    BY <2>2, <2>3, <2>4 DEF Q
<1>9. TypeOK' /\ Walking'
  <2>1. query' \in Query /\ query'.pc = "walk"
    BY <1>6, <1>7, <1>8, WalkType DEF Query
  <2>. QED
    BY <2>1 DEF TypeOK, Walking, Visit, graph
<1>10. /\ query'.scores = query.scores /\ query'.found = query.found /\ query'.edges = query.edges
       /\ query'.dist = D /\ query'.queue = Tail(q) \o order
  BY <1>8
<1>11. Roots' = Roots /\ \A u \in Ids : Adjacent(query', u) = Adjacent(query, u)
  BY <1>10 DEF Roots, Adjacent
<1>12. \A v \in Ids : /\ v \in N => d[v] = -1 /\ D[v] = d[h] + 1 /\ v \in Adjacent(query, h)
                                     /\ v \in query.found
                      /\ v \notin N => D[v] = d[v]
                      /\ v \in Adjacent(query, h) /\ d[v] = -1 => v \in N
  BY DEF NewNeighbours, Discover, Unreached, Adjacent
<1>13. /\ Len(query'.queue) = Len(q) - 1 + Len(order)
       /\ \A i \in 1..Len(q) - 1 : query'.queue[i] = q[i + 1]
       /\ \A i \in 1..Len(order) : query'.queue[Len(q) - 1 + i] = order[i]
  <2>1. /\ Tail(q) \in Seq(Ids) /\ Len(Tail(q)) = Len(q) - 1
        /\ \A i \in 1..Len(q) - 1 : Tail(q)[i] = q[i + 1]
    BY <1>2
  <2>2. order \in Seq(Ids)
    BY <1>3, <1>4
  <2>3. /\ Len(Tail(q) \o order) = Len(Tail(q)) + Len(order)
        /\ \A i \in 1..Len(Tail(q)) : (Tail(q) \o order)[i] = Tail(q)[i]
        /\ \A i \in 1..Len(order) : (Tail(q) \o order)[Len(Tail(q)) + i] = order[i]
    BY <2>1, <2>2
  <2>. HIDE DEF q
  <2>. QED
    BY <1>10, <2>1, <2>3
<1>14. /\ Len(order) \in Nat
       /\ \A i \in 1..Len(query'.queue) :
             \/ i \in 1..Len(q) - 1 /\ query'.queue[i] = q[i + 1] /\ i + 1 \in 1..Len(q)
             \/ i - (Len(q) - 1) \in 1..Len(order) /\ query'.queue[i] \in N
  <2>1. Len(order) \in Nat
    BY <1>4
  <2>2. ASSUME NEW i \in 1..Len(query'.queue), i \notin 1..Len(q) - 1
        PROVE  i - (Len(q) - 1) \in 1..Len(order) /\ query'.queue[i] \in N
    <3>1. i - (Len(q) - 1) \in 1..Len(order)
      BY <1>2, <1>13, <2>1, <2>2
    <3>2. query'.queue[Len(q) - 1 + (i - (Len(q) - 1))] = order[i - (Len(q) - 1)]
      BY <1>13, <3>1
    <3>3. Len(q) - 1 + (i - (Len(q) - 1)) = i
      <4>1. Len(q) \in Int /\ i \in Int
        BY <1>2, <1>13, <2>1
      <4>. HIDE DEF q
      <4>. QED
        BY <4>1
    <3>. QED
      BY <1>4, <3>1, <3>2, <3>3
  <2>. QED
    BY <1>2, <1>13, <2>1, <2>2
<1>15. \A u \in Ids : ~Queued(u)' => u \notin N /\ (Queued(u) => u = h)
  <2>. SUFFICES ASSUME NEW u \in Ids, ~Queued(u)'
                PROVE  u \notin N /\ (Queued(u) => u = h)
    OBVIOUS
  <2>1. \A i \in 1..Len(query'.queue) : query'.queue[i] # u
    BY DEF Queued
  <2>2. u \notin N
    <3>1. ASSUME NEW i \in 1..Len(order)
          PROVE  /\ Len(q) - 1 + i \in 1..Len(query'.queue)
                 /\ query'.queue[Len(q) - 1 + i] = order[i]
      BY <1>2, <1>13, <1>14
    <3>. QED
      BY <1>4, <2>1, <3>1
  <2>3. ASSUME NEW i \in 1..Len(q), q[i] = u, i # 1
        PROVE  FALSE
    <3>1. i - 1 \in 1..Len(q) - 1 /\ i - 1 \in 1..Len(query'.queue)
      BY <1>2, <1>13, <1>14, <2>3
    <3>2. query'.queue[i - 1] = q[i]
      BY <1>13, <3>1
    <3>. QED
      BY <2>1, <2>3, <3>1, <3>2
  <2>. QED
    BY <1>2, <2>2, <2>3 DEF Queued
<1>16. /\ h \in query.found /\ D[h] = d[h]
       /\ \A i \in 1..Len(q) : q[i] \in Ids /\ d[q[i]] \in d[h]..(d[h] + 1)
  <2>1. ASSUME NEW i \in 1..Len(q)
        PROVE  q[i] \in Ids /\ d[q[i]] \in d[h]..(d[h] + 1)
    BY <1>2, <1>5, <2>1 DEF WalkInv, QueueInOrder, Distances, Unreached
  <2>. QED
    BY <1>2, <1>5, <1>12, <2>1 DEF WalkInv, ReachedIsFound, Unreached
<1>. HIDE DEF q, h, d, N, D
<1>17. \A i \in 1..Len(query'.queue) :
          /\ query'.queue[i] \in Ids
          /\ D[query'.queue[i]] \in d[h]..(d[h] + 1)
          /\ i \notin 1..Len(q) - 1 => D[query'.queue[i]] = d[h] + 1
          /\ i \in 1..Len(q) - 1 => /\ query'.queue[i] = q[i + 1] /\ i + 1 \in 1..Len(q)
                                    /\ D[query'.queue[i]] = d[q[i + 1]]
  <2>. SUFFICES ASSUME NEW i \in 1..Len(query'.queue)
                PROVE  /\ query'.queue[i] \in Ids
                       /\ D[query'.queue[i]] \in d[h]..(d[h] + 1)
                       /\ i \notin 1..Len(q) - 1 => D[query'.queue[i]] = d[h] + 1
                       /\ i \in 1..Len(q) - 1 =>
                            /\ query'.queue[i] = q[i + 1] /\ i + 1 \in 1..Len(q)
                            /\ D[query'.queue[i]] = d[q[i + 1]]
    OBVIOUS
  <2>1. CASE i \in 1..Len(q) - 1
    <3>1. query'.queue[i] = q[i + 1] /\ i + 1 \in 1..Len(q)
      BY <1>2, <1>13, <2>1
    <3>2. q[i + 1] \in Ids /\ d[q[i + 1]] \in d[h]..(d[h] + 1)
      BY <1>16, <3>1
    <3>3. D[q[i + 1]] = d[q[i + 1]]
      BY <1>5, <1>12, <3>2
    <3>. QED
      BY <2>1, <3>1, <3>2, <3>3
  <2>2. CASE i \notin 1..Len(q) - 1
    <3>1. query'.queue[i] \in N
      BY <1>14, <2>2
    <3>. QED
      BY <1>3, <1>5, <1>12, <2>2, <3>1
  <2>. QED
    BY <2>1, <2>2
<1>18. \A i \in 1..Len(query'.queue) :
           /\ D[query'.queue[i]] \in Nat
           /\ d[h] <= D[query'.queue[i]] /\ D[query'.queue[i]] <= d[h] + 1
  BY <1>5, <1>17
<1>19. RootsAtZero'
  BY <1>5, <1>10, <1>11, <1>12 DEF WalkInv, RootsAtZero, d
<1>20. ReachedIsFound'
  BY <1>10, <1>12 DEF WalkInv, ReachedIsFound, d
<1>21. HasPredecessor'
  <2>. SUFFICES ASSUME NEW v \in Ids, D[v] > 0
                PROVE  \E u \in query.found : v \in Adjacent(query, u) /\ D[u] = D[v] - 1
    BY <1>10, <1>11, WalkType DEF HasPredecessor
  <2>1. CASE v \in N
    BY <1>5, <1>12, <1>16, <2>1
  <2>2. CASE v \notin N
    <3>1. D[v] = d[v] /\ d[v] \in Nat
      BY <1>5, <1>12, <2>2 DEF Distances, Unreached
    <3>2. PICK u \in query.found : v \in Adjacent(query, u) /\ d[u] = d[v] - 1
      BY <3>1 DEF WalkInv, HasPredecessor, d
    <3>3. u \in Ids /\ D[u] = d[u]
      BY <1>12, <3>1, <3>2, WalkType
    <3>. QED
      BY <3>1, <3>2, <3>3
  <2>. QED
    BY <2>1, <2>2
<1>22. QueueIsReached'
  <2>. SUFFICES ASSUME NEW i \in 1..Len(query'.queue)
                PROVE  D[query'.queue[i]] # -1
    BY <1>10 DEF QueueIsReached, Unreached
  <2>. QED
    BY <1>18
<1>23. QueueInOrder'
  <2>. SUFFICES ASSUME NEW i \in 1..Len(query'.queue), NEW j \in 1..Len(query'.queue), i < j
                PROVE  /\ D[query'.queue[i]] <= D[query'.queue[j]]
                       /\ D[query'.queue[j]] <= D[query'.queue[i]] + 1
    BY <1>10 DEF QueueInOrder
  <2>1. CASE j \in 1..Len(q) - 1
    <3>1. i \in 1..Len(q) - 1
      BY <1>13, <1>14, <2>1
    <3>2. /\ i + 1 \in 1..Len(q) /\ j + 1 \in 1..Len(q) /\ i + 1 < j + 1
          /\ D[query'.queue[i]] = d[q[i + 1]] /\ D[query'.queue[j]] = d[q[j + 1]]
      BY <1>17, <2>1, <3>1
    <3>. QED
      BY <3>2 DEF WalkInv, QueueInOrder, q, d
  <2>2. CASE j \notin 1..Len(q) - 1
    <3>1. D[query'.queue[j]] = d[h] + 1
      BY <1>17, <2>2
    <3>. QED
      BY <1>5, <1>18, <3>1
  <2>. QED
    BY <2>1, <2>2
<1>24. ASSUME NEW u \in query.found, D[u] # Unreached, ~Queued(u)'
       PROVE  /\ u \in Ids /\ D[u] = d[u] /\ d[u] \in Nat /\ d[u] <= d[h]
              /\ u = h \/ HandedOn(u)
  <2>1. u \in Ids /\ u \notin N /\ D[u] = d[u] /\ d[u] \in Nat
    BY <1>5, <1>12, <1>15, <1>24, WalkType DEF Distances
  <2>2. CASE u = h
    BY <2>1, <2>2, <1>5
  <2>3. CASE u # h
    <3>1. ~Queued(u) /\ d[u] # Unreached
      BY <1>15, <1>24, <2>1, <2>3
    <3>2. HandedOn(u)
      BY <3>1 DEF WalkInv, LeftIsHandedOn, d
    <3>3. d[u] <= d[h]
      BY <1>2, <3>1, 1 \in 1..Len(q) DEF WalkInv, LeftIsNoFarther, d, q
    <3>. QED
      BY <2>1, <3>2, <3>3
  <2>. QED
    BY <2>2, <2>3
<1>25. LeftIsNoFarther'
  <2>. SUFFICES ASSUME NEW u \in query.found, D[u] # Unreached, ~Queued(u)',
                       NEW i \in 1..Len(query'.queue)
                PROVE  D[u] <= D[query'.queue[i]]
    BY <1>10 DEF LeftIsNoFarther
  <2>. QED
    BY <1>5, <1>18, <1>24
<1>26. \A v \in Ids : (v \in query.found /\ d[v] # -1) => d[v] <= d[h] + 1
  <2>. SUFFICES ASSUME NEW v \in Ids, v \in query.found, d[v] # -1
                PROVE  d[v] <= d[h] + 1
    OBVIOUS
  <2>1. CASE Queued(v)
    BY <1>5, <1>16, <2>1 DEF Queued, q
  <2>2. CASE ~Queued(v)
    <3>1. d[v] <= d[h]
      BY <1>2, <2>2, 1 \in 1..Len(q) DEF WalkInv, LeftIsNoFarther, d, q, Unreached
    <3>2. d[v] \in Nat
      BY <1>5 DEF Distances, Unreached
    <3>. QED
      BY <1>5, <3>1, <3>2
  <2>. QED
    BY <2>1, <2>2
<1>27. LeftIsHandedOn'
  <2>. SUFFICES ASSUME NEW u \in query.found, D[u] # Unreached, ~Queued(u)',
                       NEW v \in Adjacent(query, u)
                PROVE  D[v] # -1 /\ D[v] <= D[u] + 1
    BY <1>10, <1>11, WalkType DEF LeftIsHandedOn, HandedOn, Unreached
  <2>1. u \in Ids /\ D[u] = d[u] /\ d[u] \in Nat /\ d[u] <= d[h] /\ (u = h \/ HandedOn(u))
    BY <1>24
  <2>2. v \in Ids /\ v \in query.found
    BY WalkType DEF Adjacent
  <2>3. CASE u = h
    <3>1. CASE d[v] = -1
      BY <1>5, <1>12, <2>1, <2>2, <2>3, <3>1
    <3>2. CASE d[v] # -1
      BY <1>5, <1>12, <1>26, <2>1, <2>2, <2>3, <3>2
    <3>. QED
      BY <3>1, <3>2
  <2>4. CASE HandedOn(u)
    BY <1>12, <2>1, <2>2, <2>4 DEF HandedOn, d, Unreached
  <2>. QED
    BY <2>1, <2>3, <2>4
<1>. QED
  BY <1>9, <1>19, <1>20, <1>21, <1>22, <1>23, <1>25, <1>27 DEF WalkInv

\* When the queue is empty every reached node has handed its distance on.
LEMMA RankInv ==
    ASSUME TypeOK, Walking, WalkInv, Rank
    PROVE  TypeOK' /\ ~Walking' /\ HopsAreShortest' /\ AnswerIsFirst'
<1>1. PICK answer \in IF query.found = {} THEN {NoAnswer} ELSE First(query) :
        query' = [pc |-> "answered", scores |-> query.scores, found |-> query.found,
                  edges |-> query.edges, dist |-> query.dist, answer |-> answer]
  BY DEF Rank
<1>2. /\ query'.pc = "answered" /\ query'.scores = query.scores /\ query'.found = query.found
      /\ query'.edges = query.edges /\ query'.dist = query.dist /\ query'.answer = answer
  BY <1>1
<1>3. answer \in Ids \cup {NoAnswer}
  BY WalkType DEF First
<1>4. TypeOK'
  <2>1. query' \in Query
    BY <1>1, <1>3, WalkType DEF Query
  <2>. QED
    BY <2>1 DEF TypeOK, Rank, graph
<1>5. /\ Roots' = Roots
      /\ \A u \in Ids : Adjacent(query', u) = Adjacent(query, u)
  BY <1>2 DEF Roots, Adjacent
<1>6. \A u : ~Queued(u)
  BY DEF Rank, Queued
<1>7. HopsAreShortest'
  <2>1. \A v \in Ids : query'.dist[v] = 0 <=> v \in Roots'
    BY <1>2, <1>5 DEF WalkInv, RootsAtZero
  <2>2. \A v \in Ids : query'.dist[v] > 0 =>
            \E u \in query'.found :
                v \in Adjacent(query', u) /\ query'.dist[u] = query'.dist[v] - 1
    BY <1>2, <1>5, WalkType DEF WalkInv, HasPredecessor
  <2>3. \A u \in query'.found : query'.dist[u] # Unreached =>
            \A v \in Adjacent(query', u) :
                query'.dist[v] # Unreached /\ query'.dist[v] <= query'.dist[u] + 1
    BY <1>2, <1>5, <1>6, WalkType DEF WalkInv, LeftIsHandedOn, HandedOn
  <2>. QED
    BY <2>1, <2>2, <2>3 DEF HopsAreShortest
<1>8. \A u, v \in Ids : Before(query', u, v) <=> Before(query, u, v)
  BY <1>2 DEF Before, Score, SeedTerm
<1>9. First(query') = First(query)
  BY <1>2, <1>8, WalkType DEF First
<1>10. AnswerIsFirst'
  BY <1>1, <1>2, <1>9 DEF AnswerIsFirst
<1>. QED
  BY <1>2, <1>4, <1>7, <1>10 DEF Walking

\* Every step preserves the invariant: a step either changes the graph only, or is one of
\* the query's own.
LEMMA StepInv == RecallInv /\ [Next]_vars => RecallInv'
<1>. SUFFICES ASSUME RecallInv, [Next]_vars PROVE RecallInv'
  OBVIOUS
<1>1. ASSUME UNCHANGED query, TypeOK'
      PROVE  RecallInv'
  BY <1>1 DEF RecallInv, Walking, Answered, WalkInv, RootsAtZero, ReachedIsFound, HasPredecessor,
     QueueIsReached, QueueInOrder, LeftIsHandedOn, LeftIsNoFarther, Queued, HandedOn, Roots,
     HopsAreShortest, AnswerIsFirst
<1>2. CASE Others
  BY <1>1, <1>2, OthersInv DEF RecallInv
<1>3. CASE Ask \/ ReadSeeds \/ ReadIds \/ ReadNodes \/ Respond \/ Fail
  BY <1>3, ReadInv DEF RecallInv
<1>4. CASE ReadEdges
  BY <1>4, WalkBegins DEF RecallInv, Walking, Answered
<1>5. CASE Visit
  BY <1>5, VisitInv DEF RecallInv, Visit, Walking, Answered
<1>6. CASE Rank
  BY <1>6, RankInv DEF RecallInv, Rank, Walking
<1>7. CASE UNCHANGED vars
  <2>1. TypeOK'
    BY <1>7 DEF RecallInv, TypeOK, vars
  <2>. QED
    BY <1>1, <1>7, <2>1 DEF vars
<1>. QED
  BY <1>2, <1>3, <1>4, <1>5, <1>6, <1>7 DEF Next, Recalling

THEOREM RecallAlways == Spec => []RecallInv
BY InitInv, StepInv, PTL DEF Spec

\* Every reachable state is well typed.
THEOREM TypeCorrect == Spec => []TypeOK
<1>1. RecallInv => TypeOK
  BY DEF RecallInv
<1>. QED
  BY <1>1, RecallAlways, PTL

\* The hop distances are the shortest ones over the subgraph that came back, for any
\* graph, however it changed between the reads, and in whatever order the sets and the
\* seeds were gone through.
THEOREM ShortestHops == Spec => []HopsAreShortest
<1>1. RecallInv => HopsAreShortest
  BY DEF RecallInv, HopsAreShortest
<1>. QED
  BY <1>1, RecallAlways, PTL

\* A node that is no root is less near than one that is.
LEMMA NearerThanFarther ==
    ASSUME NEW d \in Nat \cup {Unreached}, d # 0
    PROVE  /\ Proximity(0) = Unit
           /\ Proximity(d) \in Nat
           /\ Proximity(d) < Unit
<1>1. Unit \in Nat /\ Unit >= 1
  BY RecallAssumption
<1>2. Proximity(0) = Unit
  BY <1>1 DEF Proximity, Unreached
<1>3. CASE d = Unreached
  BY <1>1, <1>2, <1>3 DEF Proximity
<1>4. CASE d # Unreached
  <2>1. d \in Nat /\ d >= 1 /\ Proximity(d) = Unit \div (1 + d)
    BY <1>4 DEF Proximity, Unreached
  <2>. DEFINE k == 1 + d
              p == Unit \div k
  <2>2. k \in Nat /\ k >= 2
    BY <2>1
  <2>. HIDE DEF k
  <2>3. p \in Nat /\ k * p <= Unit
    BY <1>1, <2>2
  <2>. HIDE DEF p
  <2>4. p < Unit
    BY <1>1, <2>2, <2>3
  <2>. QED
    BY <1>2, <2>1, <2>3, <2>4 DEF k, p
<1>. QED
  BY <1>3, <1>4

\* What an answered query holds.
LEMMA AnswerType ==
    ASSUME TypeOK, Answered
    PROVE  /\ query.scores \in Scores
           /\ query.found \in SUBSET Ids
           /\ query.dist \in Distances
BY DEF TypeOK, Answered, Query, Idle

\* A node with the first place scores no less than another, and the score of what kNN did
\* not return is its proximity's.
LEMMA FirstDecides == RecallInv => SeedsDecide
<1>. SUFFICES ASSUME RecallInv, Answered, query.answer \notin Seeds(query.scores)
              PROVE  /\ \A s \in Roots : query.scores[s] < 0
                     /\ \A v \in query.found \ Roots :
                         Proximity(query.dist[v]) <= Proximity(query.dist[query.answer])
  BY DEF SeedsDecide
<1>. DEFINE a == query.answer
<1>1. CASE query.found = {}
  BY <1>1 DEF Roots
<1>2. CASE query.found # {}
  <2>1. /\ a \in query.found /\ a \in Ids
        /\ \A u \in query.found \ {a} : Before(query, a, u)
    BY <1>2, AnswerType DEF RecallInv, AnswerIsFirst, First
  <2>2. \A v \in Ids : /\ query.dist[v] \in Nat \cup {Unreached}
                       /\ query.dist[v] = 0 <=> v \in Roots
                       /\ v \in Roots <=> v \in query.found /\ v \in Seeds(query.scores)
    BY AnswerType DEF RecallInv, HopsAreShortest, Distances, Roots
  <2>3. \A v \in Ids : v \notin Seeds(query.scores) =>
            Score(query, v) = WProx * Proximity(query.dist[v])
    <3>1. ASSUME NEW v \in Ids, v \notin Seeds(query.scores)
          PROVE  Score(query, v) = WProx * Proximity(query.dist[v])
      <4>1. SeedTerm(query, v) = 0
        BY <3>1 DEF SeedTerm, Seeds
      <4>2. Score(query, v) = WSeed * 0 + WProx * Proximity(query.dist[v])
        BY <4>1 DEF Score
      <4>3. Proximity(query.dist[v]) \in Nat
        BY <2>2, <3>1, NearerThanFarther
      <4>. QED
        BY <4>2, <4>3, RecallAssumption
    <3>. QED
      BY <3>1
  <2>4. /\ Proximity(query.dist[a]) \in Nat /\ Proximity(query.dist[a]) < Unit
        /\ Score(query, a) = WProx * Proximity(query.dist[a])
    BY <2>1, <2>2, <2>3, NearerThanFarther
  <2>5. ASSUME NEW s \in Roots
        PROVE  query.scores[s] < 0
    <3>1. s \in Ids /\ s \in query.found /\ s # a /\ query.dist[s] = 0
      BY <2>1, <2>2, <2>5, AnswerType DEF RecallInv, Roots
    <3>2. query.scores[s] \in Int /\ SeedTerm(query, s) = query.scores[s]
      BY <2>5, <3>1, AnswerType, RecallAssumption DEF RecallInv, Roots, Seeds, Scores, SeedTerm
    <3>3. Proximity(query.dist[s]) = Unit
      BY <3>1, NearerThanFarther, -1 \in Nat \cup {Unreached} DEF Unreached
    <3>4. Score(query, s) = WSeed * query.scores[s] + WProx * Unit
      BY <3>2, <3>3 DEF Score
    <3>5. Score(query, a) >= Score(query, s)
      BY <2>1, <2>4, <3>1, <3>2, <3>4, RecallAssumption DEF Before
    <3>6. SUFFICES ASSUME query.scores[s] >= 0 PROVE FALSE
      BY <3>2
    <3>. DEFINE c == query.scores[s]
                p == Proximity(query.dist[a])
    <3>7. c \in Nat /\ p \in Nat /\ p < Unit /\ WProx * p >= WSeed * c + WProx * Unit
      BY <2>4, <3>2, <3>4, <3>5, <3>6
    <3>. HIDE DEF c, p
    <3>8. WSeed * c \in Nat /\ WProx * p < WProx * Unit
      BY <3>7, RecallAssumption
    <3>. QED
      BY <3>7, <3>8, RecallAssumption
  <2>6. ASSUME NEW v \in query.found \ Roots
        PROVE  Proximity(query.dist[v]) <= Proximity(query.dist[a])
    <3>1. v \in Ids /\ v \notin Seeds(query.scores)
      BY <2>2, <2>6, AnswerType DEF RecallInv
    <3>. DEFINE r == Proximity(query.dist[v])
                p == Proximity(query.dist[a])
    <3>2. r \in Nat /\ p \in Nat /\ Score(query, v) = WProx * r
      BY <2>2, <2>3, <2>4, <2>6, <3>1, NearerThanFarther
    <3>3. CASE v = a
      BY <3>2, <3>3
    <3>4. CASE v # a
      <4>1. Before(query, a, v)
        BY <2>1, <2>6, <3>4
      <4>. HIDE DEF r, p
      <4>2. WProx * p >= WProx * r
        BY <2>4, <3>2, <4>1, RecallAssumption DEF Before, p
      <4>. QED
        BY <3>2, <4>2, RecallAssumption DEF r, p
    <3>. QED
      BY <3>3, <3>4
  <2>. QED
    BY <2>5, <2>6
<1>. QED
  BY <1>1, <1>2

\* A seed that is in the graph and not against the question is never beaten by a node that
\* only the expansion found, for any positive proximity weight and any depth.
THEOREM SeedsAlwaysDecide == Spec => []SeedsDecide
BY FirstDecides, RecallAlways, PTL

(***************************************************************************)
(* The neighbourhoods of the graph, and the distances that measure them.   *)
(***************************************************************************)

\* A set of naturals with an element has a first one.
LEMMA LeastNat ==
    ASSUME NEW T, T \subseteq Nat, T # {}
    PROVE  \E n \in T : \A m \in T : n <= m
<1>. DEFINE R == {p \in Nat \X Nat : p[1] < p[2]}
<1>1. IsWellFoundedOn(R, Nat)
  BY NatLessThanWellFounded DEF OpToRel
<1>2. \A x, y \in Nat : x < y => <<x, y>> \in R
  OBVIOUS
<1>. HIDE DEF R
<1>3. PICK x \in T : \A y \in T : ~(<<y, x>> \in R)
  BY <1>1, WFMin
<1>4. \A y \in T : x <= y
  <2>1. TAKE y \in T
  <2>2. x \in Nat /\ y \in Nat /\ ~(y < x)
    BY <1>2, <1>3
  <2>. QED
    BY <2>2
<1>. QED
  BY <1>4

\* one step further than S
Wider(S) == {v \in nodes : v \in S \/ \E u \in S : Connected(u, v)}

IsBall(g, S, n) == g = [k \in 0..n |-> IF k = 0 THEN S \cap nodes ELSE Wider(g[k - 1])]

\* There is a ball of every radius ...
LEMMA BallExists ==
    ASSUME NEW S, NEW n \in Nat
    PROVE  \E g : IsBall(g, S, n)
<1>. DEFINE Bad == {j \in Nat : \A g : ~IsBall(g, S, j)}
<1>1. Bad \subseteq Nat /\ \A j \in Nat : j \notin Bad => \E g : IsBall(g, S, j)
  OBVIOUS
<1>2. ASSUME Bad # {} PROVE FALSE
  <2>1. PICK j \in Bad : \A m \in Bad : j <= m
    <3>. HIDE DEF Bad
    <3>. QED
      BY <1>1, <1>2, LeastNat
  <2>2. j \in Nat /\ \A g : ~IsBall(g, S, j)
    BY <2>1
  <2>3. j # 0
    <3>1. IsBall([k \in 0..0 |-> S \cap nodes], S, 0)
      BY DEF IsBall
    <3>. QED
      BY <2>2, <3>1
  <2>4. j - 1 \in Nat /\ j - 1 \notin Bad
    <3>. HIDE DEF Bad
    <3>. QED
      BY <2>1, <2>2, <2>3
  <2>5. PICK g : IsBall(g, S, j - 1)
    BY <1>1, <2>4
  <2>. DEFINE h == [k \in 0..j |-> IF k = 0 THEN S \cap nodes ELSE Wider(g[k - 1])]
  <2>6. \A k \in 0..(j - 1) : h[k] = g[k]
    <3>1. TAKE k \in 0..(j - 1)
    <3>2. k \in 0..j
      BY <2>2
    <3>3. h[k] = IF k = 0 THEN S \cap nodes ELSE Wider(g[k - 1])
      BY <3>2
    <3>4. g[k] = IF k = 0 THEN S \cap nodes ELSE Wider(g[k - 1])
      BY <2>5 DEF IsBall
    <3>. QED
      BY <3>3, <3>4
  <2>7. h = [k \in 0..j |-> IF k = 0 THEN S \cap nodes ELSE Wider(h[k - 1])]
    <3>1. \A k \in 0..j : k # 0 => k - 1 \in 0..(j - 1)
      BY <2>2
    <3>2. \A k \in 0..j : k # 0 => h[k - 1] = g[k - 1]
      BY <2>6, <3>1
    <3>. QED
      BY <3>2
  <2>. QED
    BY <2>2, <2>7 DEF IsBall
<1>. QED
  BY <1>1, <1>2

\* ... and balls of different radius agree where both are.
LEMMA BallsAgree ==
    ASSUME NEW S, NEW m \in Nat, NEW n \in Nat, NEW g, NEW h, IsBall(g, S, m), IsBall(h, S, n),
           NEW i \in 0..m, i \in 0..n
    PROVE  g[i] = h[i]
<1>. DEFINE Bad == {k \in 0..m : k \in 0..n /\ g[k] # h[k]}
<1>1. Bad \subseteq Nat
  OBVIOUS
<1>2. ASSUME Bad # {} PROVE FALSE
  <2>1. PICK k \in Bad : \A j \in Bad : k <= j
    <3>. HIDE DEF Bad
    <3>. QED
      BY <1>1, <1>2, LeastNat
  <2>2. k \in 0..m /\ k \in 0..n /\ g[k] # h[k]
    BY <2>1
  <2>3. k # 0
    BY <2>2 DEF IsBall
  <2>4. k - 1 \in 0..m /\ k - 1 \in 0..n
    BY <2>2, <2>3
  <2>5. k - 1 \notin Bad
    <3>. HIDE DEF Bad
    <3>. QED
      BY <1>1, <2>1, <2>4
  <2>6. g[k - 1] = h[k - 1]
    BY <2>4, <2>5
  <2>7. g[k] = Wider(g[k - 1]) /\ h[k] = Wider(h[k - 1])
    BY <2>2, <2>3 DEF IsBall
  <2>. QED
    BY <2>2, <2>6, <2>7
<1>. QED
  BY <1>2

\* The neighbourhood of radius n of a set, by the one of radius n - 1.
LEMMA WithinSteps ==
    ASSUME NEW S
    PROVE  /\ Within(S, 0) = S \cap nodes
           /\ \A n \in Nat \ {0} : Within(S, n) = Wider(Within(S, n - 1))
<1>. DEFINE ball(n) == CHOOSE g : IsBall(g, S, n)
<1>1. \A n \in Nat : IsBall(ball(n), S, n)
  BY BallExists
<1>2. \A n : Within(S, n) = ball(n)[n]
  BY DEF Within, IsBall, Wider
<1>. HIDE DEF ball
<1>3. Within(S, 0) = S \cap nodes
  BY <1>1, <1>2 DEF IsBall
<1>4. ASSUME NEW n \in Nat \ {0}
      PROVE  Within(S, n) = Wider(Within(S, n - 1))
  <2>1. ball(n)[n] = Wider(ball(n)[n - 1])
    BY <1>1 DEF IsBall
  <2>2. IsBall(ball(n), S, n) /\ IsBall(ball(n - 1), S, n - 1) /\ n - 1 \in Nat
    BY <1>1
  <2>3. n - 1 \in 0..n /\ n - 1 \in 0..(n - 1)
    OBVIOUS
  <2>4. ball(n)[n - 1] = ball(n - 1)[n - 1]
    BY <2>2, <2>3, BallsAgree
  <2>. QED
    BY <1>2, <2>1, <2>4
<1>. QED
  BY <1>3, <1>4

\* A neighbourhood is of nodes, and is part of every wider one.
LEMMA WithinGrows ==
    ASSUME NEW S, NEW m \in Nat, NEW n \in Nat, m <= n
    PROVE  Within(S, m) \subseteq Within(S, n) /\ Within(S, n) \subseteq nodes
<1>1. \A k \in Nat : Within(S, k) \subseteq nodes
  <2>1. TAKE k \in Nat
  <2>2. CASE k = 0
    BY <2>2, WithinSteps
  <2>3. CASE k # 0
    <3>1. Within(S, k) = Wider(Within(S, k - 1))
      BY <2>3, WithinSteps
    <3>. QED
      BY <3>1 DEF Wider
  <2>. QED
    BY <2>2, <2>3
<1>. DEFINE Bad == {k \in Nat : m <= k /\ ~(Within(S, m) \subseteq Within(S, k))}
<1>2. Bad \subseteq Nat
  OBVIOUS
<1>3. ASSUME Bad # {} PROVE FALSE
  <2>1. PICK k \in Bad : \A j \in Bad : k <= j
    <3>. HIDE DEF Bad
    <3>. QED
      BY <1>2, <1>3, LeastNat
  <2>2. k \in Nat /\ m <= k /\ ~(Within(S, m) \subseteq Within(S, k))
    BY <2>1
  <2>3. k # m
    BY <2>2
  <2>4. k # 0 /\ k - 1 \in Nat /\ m <= k - 1 /\ k \in Nat \ {0}
    BY <2>2, <2>3
  <2>5. k - 1 \notin Bad
    <3>. HIDE DEF Bad
    <3>. QED
      BY <2>1, <2>2, <2>4
  <2>6. Within(S, m) \subseteq Within(S, k - 1)
    BY <2>4, <2>5
  <2>7. Within(S, k) = Wider(Within(S, k - 1))
    BY <2>4, WithinSteps
  <2>8. Within(S, k - 1) \subseteq Within(S, k)
    BY <1>1, <2>4, <2>7 DEF Wider
  <2>. QED
    BY <2>2, <2>6, <2>8
<1>4. n \notin Bad
  BY <1>3
<1>. QED
  BY <1>1, <1>4

\* what a query asks the graph for
Reach(scores) == {v \in Ids : v \in Within(Seeds(scores), Depth)}

LEMMA DepthType == Depth \in Nat
BY RecallAssumption DEF Depth

\* As long as nobody changed the graph, what was read is what is there.
GraphIsRead ==
    ~touched =>
        /\ query.pc = "nodes" => query.ids = Reach(query.scores)
        /\ query.pc = "edges" =>
              query.ids = Reach(query.scores) /\ query.found = Reach(query.scores)
        /\ query.pc \in {"walk", "answered"} =>
              /\ query.found = Reach(query.scores)
              /\ query.edges = {e \in edges : e[1] \in query.found /\ e[2] \in query.found}

LEMMA ReachStays ==
    ASSUME UNCHANGED graph, NEW scores
    PROVE  Reach(scores)' = Reach(scores)
BY DEF graph, Reach, Within, Connected, Seeds, Depth

LEMMA ReachIsNodes ==
    ASSUME NEW scores
    PROVE  Reach(scores) \subseteq nodes
<1>1. Within(Seeds(scores), Depth) \subseteq nodes
  BY DepthType, WithinGrows
<1>. QED
  BY <1>1 DEF Reach

LEMMA GraphIsReadStep == RecallInv /\ GraphIsRead /\ [Next]_vars => GraphIsRead'
<1>. SUFFICES ASSUME RecallInv, GraphIsRead, [Next]_vars PROVE GraphIsRead'
  OBVIOUS
<1>0. TypeOK
  BY DEF RecallInv
<1>1. CASE Ask \/ ReadSeeds \/ Respond \/ Fail
  <2>1. query'.pc \in {"idle", "seed", "khop"}
    BY <1>1 DEF Ask, ReadSeeds, Respond, Fail, Idle
  <2>. QED
    BY <2>1 DEF GraphIsRead
<1>2. CASE ReadIds
  <2>1. /\ query' = [pc |-> "nodes", scores |-> query.scores, ids |-> Reach(query.scores)]
        /\ UNCHANGED graph
    BY <1>2 DEF ReadIds, Reach
  <2>2. Reach(query.scores)' = Reach(query.scores)
    BY <2>1, ReachStays
  <2>. QED
    BY <2>1, <2>2 DEF GraphIsRead
<1>3. CASE ReadNodes
  BY <1>3, ReachStays, ReachIsNodes DEF ReadNodes, GraphIsRead
<1>4. CASE ReadEdges
  BY <1>4, ReachStays DEF ReadEdges, GraphIsRead, graph
<1>5. CASE Visit
  BY <1>0, <1>5, WalkType, ReachStays DEF Visit, Walking, GraphIsRead, graph
<1>6. CASE Rank
  BY <1>6, ReachStays DEF Rank, GraphIsRead, graph
<1>7. CASE Others
  BY <1>7 DEF Others, UpsertNode, DeleteNode, CreateEdge, DeleteEdge, ChangeGraph, GraphIsRead
<1>8. CASE UNCHANGED vars
  BY <1>8, ReachStays DEF vars, graph, GraphIsRead
<1>. QED
  BY <1>1, <1>2, <1>3, <1>4, <1>5, <1>6, <1>7, <1>8 DEF Next, Recalling

LEMMA GraphIsReadInit == Init => GraphIsRead
BY DEF Init, Idle, GraphIsRead

LEMMA GraphIsReadAlways == Spec => []GraphIsRead
BY RecallAlways, GraphIsReadInit, GraphIsReadStep, PTL DEF Spec

\* A neighbourhood depends on the nodes of the set only.
LEMMA WithinOfNodes ==
    ASSUME NEW S, NEW T, S \cap nodes = T \cap nodes, NEW n \in Nat
    PROVE  Within(S, n) = Within(T, n)
<1>1. \A g : IsBall(g, S, n) <=> IsBall(g, T, n)
  BY DEF IsBall
<1>2. PICK g : IsBall(g, S, n)
  BY BallExists
<1>3. IsBall(g, T, n) /\ n \in 0..n
  BY <1>1, <1>2
<1>4. /\ IsBall(CHOOSE h : IsBall(h, S, n), S, n)
      /\ IsBall(CHOOSE h : IsBall(h, T, n), T, n)
  BY <1>2, <1>3
<1>5. /\ g[n] = (CHOOSE h : IsBall(h, S, n))[n]
      /\ g[n] = (CHOOSE h : IsBall(h, T, n))[n]
  BY <1>2, <1>3, <1>4, BallsAgree
<1>6. \A R : Within(R, n) = (CHOOSE h : IsBall(h, R, n))[n]
  BY DEF Within, IsBall, Wider
<1>. QED
  BY <1>5, <1>6

\* What an answered query holds of a graph that nobody changed.
LEMMA ReadGraph ==
    ASSUME RecallInv, GraphIsRead, Answered, ~touched
    PROVE  /\ query.found \subseteq Ids /\ query.found \subseteq nodes
           /\ query.dist \in Distances
           /\ Roots = Seeds(query.scores) \cap nodes
           /\ \A v \in Ids, n \in Nat : v \in Within(Roots, n) /\ n <= Depth => v \in query.found
           /\ \A v \in query.found : v \in Within(Roots, Depth)
           /\ \A u, v \in query.found : v \in Adjacent(query, u) <=> Connected(u, v)
<1>1. /\ query.found = Reach(query.scores)
      /\ query.edges = {e \in edges : e[1] \in query.found /\ e[2] \in query.found}
  BY DEF GraphIsRead, Answered
<1>2. query.found \subseteq Ids /\ query.found \subseteq nodes
  BY <1>1, ReachIsNodes DEF Reach
<1>3. query.dist \in Distances /\ nodes \subseteq Ids /\ edges \subseteq Edges
  BY DEF RecallInv, TypeOK, Query, Answered, Idle
<1>4. Seeds(query.scores) \cap nodes \subseteq query.found
  <2>1. Seeds(query.scores) \cap nodes \subseteq Within(Seeds(query.scores), Depth)
    BY DepthType, WithinSteps, WithinGrows
  <2>. QED
    BY <1>1, <1>3, <2>1 DEF Reach
<1>5. Roots = Seeds(query.scores) \cap nodes
  BY <1>2, <1>4 DEF Roots
<1>6. \A n \in Nat : Within(Roots, n) = Within(Seeds(query.scores), n)
  <2>1. Roots \cap nodes = Seeds(query.scores) \cap nodes
    BY <1>5
  <2>. QED
    BY <2>1, WithinOfNodes
<1>7. \A v \in Ids, n \in Nat : v \in Within(Roots, n) /\ n <= Depth => v \in query.found
  <2>1. \A n \in Nat : n <= Depth => Within(Roots, n) \subseteq Within(Seeds(query.scores), Depth)
    BY <1>6, DepthType, WithinGrows
  <2>. QED
    BY <1>1, <2>1 DEF Reach
<1>8. \A v \in query.found : v \in Within(Roots, Depth)
  BY <1>1, <1>6, DepthType DEF Reach
<1>9. \A u, v \in query.found : v \in Adjacent(query, u) <=> Connected(u, v)
  BY <1>1 DEF Adjacent, Connected
<1>. QED
  BY <1>2, <1>3, <1>5, <1>7, <1>8, <1>9

\* What is within n edges of the roots is at most n hops away, ...
LEMMA WithinIsNear ==
    ASSUME RecallInv, GraphIsRead, Answered, ~touched,
           NEW n \in Nat, n <= Depth, NEW v \in Within(Roots, n)
    PROVE  v \in query.found /\ query.dist[v] \in 0..n
<1>. DEFINE Far(k) == {x \in Within(Roots, k) : query.dist[x] \notin 0..k}
            Bad == {k \in Nat : k <= Depth /\ Far(k) # {}}
<1>0. \A k \in Nat : Within(Roots, k) \subseteq nodes
  BY WithinGrows
<1>1. Bad \subseteq Nat /\ nodes \subseteq Ids
  BY DEF RecallInv, TypeOK
<1>2. HopsAreShortest
  BY DEF RecallInv
<1>3. ASSUME Bad # {} PROVE FALSE
  <2>1. PICK k \in Bad : \A j \in Bad : k <= j
    <3>. HIDE DEF Bad
    <3>. QED
      BY <1>1, <1>3, LeastNat
  <2>2. k \in Nat /\ k <= Depth
    BY <2>1
  <2>3. PICK x \in Within(Roots, k) : query.dist[x] \notin 0..k
    BY <2>1
  <2>4. x \in Ids /\ x \in query.found
    BY <1>0, <1>1, <2>2, <2>3, ReadGraph
  <2>5. query.dist[x] \in Nat \cup {Unreached}
    BY <2>4, ReadGraph DEF Distances
  <2>6. k # 0
    <3>1. CASE k = 0
      <4>1. x \in Roots
        BY <2>3, <3>1, WithinSteps
      <4>2. query.dist[x] = 0
        BY <1>2, <2>4, <4>1 DEF HopsAreShortest
      <4>. QED
        BY <2>3, <3>1, <4>2
    <3>. QED
      BY <3>1
  <2>7. k - 1 \in Nat /\ k - 1 <= Depth /\ k - 1 \notin Bad
    <3>. HIDE DEF Bad
    <3>. QED
      BY <1>1, <2>1, <2>2, <2>6, DepthType
  <2>8. \A u \in Within(Roots, k - 1) : query.dist[u] \in 0..(k - 1)
    BY <2>7
  <2>9. x \in Wider(Within(Roots, k - 1))
    BY <2>2, <2>3, <2>6, WithinSteps
  <2>10. CASE x \in Within(Roots, k - 1)
    BY <2>2, <2>3, <2>7, <2>8, <2>10
  <2>11. CASE \E u \in Within(Roots, k - 1) : Connected(u, x)
    <3>1. PICK u \in Within(Roots, k - 1) : Connected(u, x)
      BY <2>11
    <3>2. u \in query.found /\ query.dist[u] \in 0..(k - 1)
      BY <1>0, <1>1, <2>7, <2>8, ReadGraph
    <3>3. x \in Adjacent(query, u)
      BY <2>4, <3>1, <3>2, ReadGraph
    <3>4. query.dist[u] # Unreached
      BY <2>7, <3>2 DEF Unreached
    <3>5. query.dist[x] # Unreached /\ query.dist[x] <= query.dist[u] + 1
      BY <1>2, <3>2, <3>3, <3>4 DEF HopsAreShortest
    <3>. QED
      BY <2>2, <2>3, <2>5, <3>2, <3>5
  <2>. QED
    BY <2>9, <2>10, <2>11 DEF Wider
<1>4. n \notin Bad
  BY <1>3
<1>5. v \in query.found
  BY <1>0, <1>1, ReadGraph
<1>. QED
  BY <1>4, <1>5

\* ... and what is n hops away is within n edges of them.
LEMMA NearIsWithin ==
    ASSUME RecallInv, GraphIsRead, Answered, ~touched,
           NEW v \in query.found, query.dist[v] \in Nat
    PROVE  v \in Within(Roots, query.dist[v])
<1>. DEFINE Out(k) == {x \in query.found : query.dist[x] = k /\ x \notin Within(Roots, k)}
            Bad == {k \in Nat : Out(k) # {}}
<1>1. Bad \subseteq Nat
  OBVIOUS
<1>2. HopsAreShortest
  BY DEF RecallInv
<1>3. ASSUME Bad # {} PROVE FALSE
  <2>1. PICK k \in Bad : \A j \in Bad : k <= j
    <3>. HIDE DEF Bad
    <3>. QED
      BY <1>1, <1>3, LeastNat
  <2>2. k \in Nat
    BY <2>1
  <2>3. PICK x \in query.found : query.dist[x] = k /\ x \notin Within(Roots, k)
    BY <2>1
  <2>4. x \in Ids /\ x \in nodes
    BY <2>3, ReadGraph
  <2>5. k # 0
    <3>1. CASE k = 0
      <4>1. x \in Roots
        BY <1>2, <2>3, <2>4, <3>1 DEF HopsAreShortest
      <4>. QED
        BY <2>3, <2>4, <3>1, <4>1, WithinSteps
    <3>. QED
      BY <3>1
  <2>6. k - 1 \in Nat /\ k - 1 \notin Bad
    <3>. HIDE DEF Bad
    <3>. QED
      BY <1>1, <2>1, <2>2, <2>5
  <2>7. PICK u \in query.found : x \in Adjacent(query, u) /\ query.dist[u] = k - 1
    BY <1>2, <2>2, <2>3, <2>4, <2>5 DEF HopsAreShortest
  <2>8. u \in Within(Roots, k - 1)
    BY <2>6, <2>7
  <2>9. Connected(u, x)
    BY <2>7, ReadGraph
  <2>10. Within(Roots, k) = Wider(Within(Roots, k - 1))
    BY <2>2, <2>5, WithinSteps
  <2>. QED
    BY <2>3, <2>4, <2>8, <2>9, <2>10 DEF Wider
<1>4. query.dist[v] \notin Bad
  BY <1>3
<1>. QED
  BY <1>4

LEMMA HopsMatch == RecallInv /\ GraphIsRead => HopsMatchGraph
<1>. SUFFICES ASSUME RecallInv, GraphIsRead, Answered, ~touched, NEW v \in query.found
              PROVE  /\ query.dist[v] \in 0..Depth
                     /\ v \in Within(Roots, query.dist[v])
                     /\ query.dist[v] > 0 => v \notin Within(Roots, query.dist[v] - 1)
  BY DEF HopsMatchGraph
<1>1. v \in Within(Roots, Depth)
  BY ReadGraph
<1>2. query.dist[v] \in 0..Depth
  BY <1>1, DepthType, WithinIsNear
<1>3. query.dist[v] \in Nat /\ query.dist[v] <= Depth /\ Depth \in Nat
  BY <1>2, DepthType
<1>4. v \in Within(Roots, query.dist[v])
  BY <1>3, NearIsWithin
<1>5. ASSUME query.dist[v] > 0, v \in Within(Roots, query.dist[v] - 1) PROVE FALSE
  <2>. DEFINE n == query.dist[v] - 1
  <2>1. n \in Nat /\ n <= Depth
    BY <1>3, <1>5
  <2>2. query.dist[v] \in 0..n
    <3>1. v \in Within(Roots, n)
      BY <1>5
    <3>. HIDE DEF n
    <3>. QED
      BY <2>1, <3>1, WithinIsNear
  <2>. QED
    BY <1>3, <2>2
<1>. QED
  BY <1>2, <1>4, <1>5

\* When nobody changed the graph since the query first read it, the distances it ranks by are
\* those of the graph: every node is within the depth, and exactly as near as it says
\* (Neo4jGraphStore.khop, QueryRetriever._hop_distances).
THEOREM HopsAlwaysMatch == Spec => []HopsMatchGraph
BY RecallAlways, GraphIsReadAlways, HopsMatch, PTL
===============================================================================
