-------------------------------- MODULE Recall --------------------------------
(***************************************************************************)
(* One recall: seed from ES-Entities, expand in Neo4j, measure hops, rank. *)
(* Its four remote reads are separate calls, in no transaction, so the     *)
(* consumer and forgets change the graph between any two of them; what     *)
(* follows the reads is local to the request thread.                       *)
(*                                                                         *)
(* The supporting sentences, read with the seeds, and the prose decide     *)
(* nothing here and are left out.                                          *)
(*                                                                         *)
(* Ids are the canonical ids in their order.  A cosine and a proximity are *)
(* counted in parts of Unit.                                               *)
(***************************************************************************)
EXTENDS Integers, Sequences, FiniteSets

CONSTANTS
    Ids,            \* canonical ids
    Cosines,        \* what kNN may score a seed, in -Unit..Unit
    NotSeed,        \* the score of what kNN did not return
    TopK,           \* seed_top_k_entities
    Hops,           \* khop_depth
    WSeed, WProx,   \* rank_weight_seed and rank_weight_proximity, in tenths
    Unit,           \* the one of cosines and proximities
    Links,          \* the edges the graph starts with
    MaxChanges      \* bound: changes of the graph by others

ASSUME RecallAssumption ==
    /\ Ids \subseteq Nat /\ IsFiniteSet(Ids)
    /\ Cosines \subseteq Int
    /\ NotSeed \notin Cosines
    /\ TopK \in Nat
    /\ Hops \in Int
    /\ WSeed \in Nat
    /\ WProx \in Nat \ {0}
    /\ Unit \in Nat \ {0}
    /\ Links \subseteq Ids \X Ids
    /\ MaxChanges \in Nat

VARIABLES
    nodes, edges,   \* the graph: ids, and subject-object pairs
    query,          \* the request thread
    touched,        \* history: has the graph changed since the query first read it
    changes         \* how often it has changed

graph == <<nodes, edges>>
vars == <<nodes, edges, query, touched, changes>>

Unreached == -1
NoAnswer == -1
Idle == [pc |-> "idle"]

Scores == [Ids -> Cosines \cup {NotSeed}]
Distances == [Ids -> Nat \cup {Unreached}]
Edges == Ids \X Ids

Query ==
    {Idle, [pc |-> "seed"]}
    \cup [pc : {"khop"}, scores : Scores]
    \cup [pc : {"nodes"}, scores : Scores, ids : SUBSET Ids]
    \cup [pc : {"edges"}, scores : Scores, ids : SUBSET Ids, found : SUBSET Ids]
    \cup [pc : {"walk"}, scores : Scores, found : SUBSET Ids, edges : SUBSET Edges,
          dist : Distances, queue : Seq(Ids)]
    \cup [pc : {"answered"}, scores : Scores, found : SUBSET Ids, edges : SUBSET Edges,
          dist : Distances, answer : Ids \cup {NoAnswer}]

TypeOK ==
    /\ nodes \subseteq Ids
    /\ edges \subseteq Edges
    /\ query \in Query
    /\ touched \in BOOLEAN
    /\ changes \in 0..MaxChanges

Init ==
    /\ nodes = Ids
    /\ edges = Links
    /\ query = Idle
    /\ touched = FALSE
    /\ changes = 0

Seeds(scores) == {id \in Ids : scores[id] # NotSeed}

(***************************************************************************)
(* The remote reads.                                                       *)
(***************************************************************************)
Ask ==
    /\ query = Idle
    /\ query' = [pc |-> "seed"]
    /\ UNCHANGED <<graph, touched, changes>>

\* approximate search: any TopK entities may come back, those included whose node is not
\* written yet or was just deleted
ReadSeeds ==
    /\ query.pc = "seed"
    /\ \E S \in SUBSET Ids :
        /\ Cardinality(S) <= TopK
        /\ \E cosine \in [S -> Cosines] :
            query' = [pc |-> "khop",
                      scores |-> [id \in Ids |-> IF id \in S THEN cosine[id] ELSE NotSeed]]
    /\ UNCHANGED <<graph, touched, changes>>

Depth == IF Hops > 0 THEN Hops ELSE 0

Connected(u, v) == <<u, v>> \in edges \/ <<v, u>> \in edges

\* the nodes within n edges of a set, either way along an edge
Within(S, n) ==
    LET ball[k \in 0..n] ==
            IF k = 0 THEN S \cap nodes
            ELSE {v \in nodes : v \in ball[k - 1] \/ \E u \in ball[k - 1] : Connected(u, v)}
    IN  ball[n]

ReadIds ==
    /\ query.pc = "khop"
    /\ query' = [pc |-> "nodes", scores |-> query.scores,
                 ids |-> {v \in Ids : v \in Within(Seeds(query.scores), Depth)}]
    /\ touched' = FALSE
    /\ UNCHANGED <<graph, changes>>

\* an id that is gone is skipped
ReadNodes ==
    /\ query.pc = "nodes"
    /\ query' = [pc |-> "edges", scores |-> query.scores, ids |-> query.ids,
                 found |-> query.ids \cap nodes]
    /\ UNCHANGED <<graph, touched, changes>>

Orders(S) == {s \in [1..Cardinality(S) -> S] : \A x \in S : \E i \in DOMAIN s : s[i] = x}

\* the edges among the ids, which need not all be among the nodes; then the walk starts
\* from the seeds that are
ReadEdges ==
    /\ query.pc = "edges"
    /\ \E roots \in Orders(Seeds(query.scores) \cap query.found) :
        query' = [pc |-> "walk", scores |-> query.scores, found |-> query.found,
                  edges |-> {e \in edges : e[1] \in query.ids /\ e[2] \in query.ids},
                  dist |-> [v \in Ids |->
                      IF v \in Seeds(query.scores) \cap query.found THEN 0 ELSE Unreached],
                  queue |-> roots]
    /\ UNCHANGED <<graph, touched, changes>>

(***************************************************************************)
(* Hop distances over the edges that came back.                            *)
(***************************************************************************)

\* Wrong on purpose: an edge is followed from its subject only.
AdjacentFrom(q, u) ==
    IF u \in q.found THEN {v \in q.found : <<u, v>> \in q.edges} ELSE {}

Adjacent(q, u) ==
    IF u \in q.found THEN {v \in q.found : <<u, v>> \in q.edges \/ <<v, u>> \in q.edges} ELSE {}

NewNeighbours(q, u) == {v \in Adjacent(q, u) : q.dist[v] = Unreached}

Discover(q, u) ==
    [v \in Ids |-> IF v \in NewNeighbours(q, u) THEN q.dist[u] + 1 ELSE q.dist[v]]

\* Wrong on purpose: the node that was found last goes first.
VisitLast ==
    /\ query.pc = "walk"
    /\ query.queue # <<>>
    /\ LET u == query.queue[Len(query.queue)]
           rest == SubSeq(query.queue, 1, Len(query.queue) - 1)
       IN  \E order \in Orders(NewNeighbours(query, u)) :
               query' = [query EXCEPT !.dist = Discover(query, u), !.queue = rest \o order]
    /\ UNCHANGED <<graph, touched, changes>>

\* Wrong on purpose: the node stays in the queue.
VisitForever ==
    /\ query.pc = "walk"
    /\ query.queue # <<>>
    /\ \E order \in Orders(NewNeighbours(query, Head(query.queue))) :
        query' = [query EXCEPT !.dist = Discover(query, Head(query.queue)),
                               !.queue = query.queue \o order]
    /\ UNCHANGED <<graph, touched, changes>>

\* a set of neighbours is iterated in any order
Visit ==
    /\ query.pc = "walk"
    /\ query.queue # <<>>
    /\ \E order \in Orders(NewNeighbours(query, Head(query.queue))) :
        query' = [query EXCEPT !.dist = Discover(query, Head(query.queue)),
                               !.queue = Tail(query.queue) \o order]
    /\ UNCHANGED <<graph, touched, changes>>

(***************************************************************************)
(* Ranking.                                                                *)
(***************************************************************************)
SeedTerm(q, v) == IF q.scores[v] = NotSeed THEN 0 ELSE q.scores[v]

\* Wrong on purpose: what no seed reaches is as near as a seed.
ProximityOfAll(d) == IF d = Unreached THEN Unit ELSE Unit \div (1 + d)

Proximity(d) == IF d = Unreached THEN 0 ELSE Unit \div (1 + d)

Score(q, v) == WSeed * SeedTerm(q, v) + WProx * Proximity(q.dist[v])

\* the order of the ranked nodes: by score, downwards, then by id
Before(q, u, v) ==
    \/ Score(q, u) > Score(q, v)
    \/ Score(q, u) = Score(q, v) /\ u < v

First(q) == {v \in q.found : \A u \in q.found \ {v} : Before(q, v, u)}

Rank ==
    /\ query.pc = "walk"
    /\ query.queue = <<>>
    /\ \E answer \in IF query.found = {} THEN {NoAnswer} ELSE First(query) :
        query' = [pc |-> "answered", scores |-> query.scores, found |-> query.found,
                  edges |-> query.edges, dist |-> query.dist, answer |-> answer]
    /\ UNCHANGED <<graph, touched, changes>>

Respond ==
    /\ query.pc = "answered"
    /\ query' = Idle
    /\ UNCHANGED <<graph, touched, changes>>

\* a read or the prose's model call raises, and the request is answered with an error
Fail ==
    /\ query.pc \in {"seed", "khop", "nodes", "edges", "answered"}
    /\ query' = Idle
    /\ UNCHANGED <<graph, touched, changes>>

(***************************************************************************)
(* The others: the consumer and the forgets, one transaction at a time.    *)
(***************************************************************************)
ChangeGraph ==
    /\ changes < MaxChanges
    /\ changes' = changes + 1
    /\ touched' = TRUE
    /\ UNCHANGED query

UpsertNode(id) ==
    /\ ChangeGraph
    /\ id \notin nodes
    /\ nodes' = nodes \cup {id}
    /\ UNCHANGED edges

CreateEdge(u, v) ==
    /\ ChangeGraph
    /\ {u, v} \subseteq nodes
    /\ <<u, v>> \notin edges
    /\ edges' = edges \cup {<<u, v>>}
    /\ UNCHANGED nodes

DeleteEdge(e) ==
    /\ ChangeGraph
    /\ e \in edges
    /\ edges' = edges \ {e}
    /\ UNCHANGED nodes

DeleteNode(id) ==
    /\ ChangeGraph
    /\ id \in nodes
    /\ nodes' = nodes \ {id}
    /\ edges' = {e \in edges : id \notin {e[1], e[2]}}

Others ==
    \/ \E id \in Ids : UpsertNode(id) \/ DeleteNode(id)
    \/ \E u, v \in Ids : CreateEdge(u, v)
    \/ \E e \in edges : DeleteEdge(e)

Recalling ==
    \/ ReadSeeds \/ ReadIds \/ ReadNodes \/ ReadEdges
    \/ Visit \/ Rank \/ Respond \/ Fail

Next == Ask \/ Recalling \/ Others

Spec == Init /\ [][Next]_vars

\* the request thread goes on
FairSpec == Spec /\ WF_vars(Recalling)

(***************************************************************************)
(* What a recall promises while others change the graph between its reads. *)
(***************************************************************************)

Answered == query.pc = "answered"

Roots == Seeds(query.scores) \cap query.found

\* The hop distances a node is ranked by are the shortest ones over the subgraph that was
\* returned: the roots have 0, a node with more has a neighbour with one less, and a
\* neighbour of a node at d has at most d + 1.  They depend on nothing else, neither on
\* the order of the seeds nor on that of the neighbours.
HopsAreShortest ==
    Answered =>
        /\ \A v \in Ids : query.dist[v] = 0 <=> v \in Roots
        /\ \A v \in Ids : query.dist[v] > 0 =>
            \E u \in query.found :
                v \in Adjacent(query, u) /\ query.dist[u] = query.dist[v] - 1
        /\ \A u \in query.found : query.dist[u] # Unreached =>
            \A v \in Adjacent(query, u) :
                query.dist[v] # Unreached /\ query.dist[v] <= query.dist[u] + 1

\* When nothing changed since the query first read the graph, the distances are those of
\* the graph: every node that came back is within the depth, and no nearer than it says.
HopsMatchGraph ==
    (Answered /\ ~touched) =>
        \A v \in query.found :
            /\ query.dist[v] \in 0..Depth
            /\ v \in Within(Roots, query.dist[v])
            /\ query.dist[v] > 0 => v \notin Within(Roots, query.dist[v] - 1)

\* Expanding the graph never changes who the answer is: it is a seed of the kNN search
\* unless every seed that is still in the graph has a negative similarity, and then it is
\* no other node is nearer to the seeds.
SeedsDecide ==
    (Answered /\ query.answer \notin Seeds(query.scores)) =>
        /\ \A s \in Roots : query.scores[s] < 0
        /\ \A v \in query.found \ Roots :
            Proximity(query.dist[v]) <= Proximity(query.dist[query.answer])

\* A recall that is asked is answered, or fails, however the graph changes meanwhile.
RecallEnds == query.pc # "idle" ~> query.pc = "idle"
===============================================================================
