---------------------------- MODULE ScopedMemory ----------------------------
(***************************************************************************)
(* What the stores promise: each scope has a memory of its own.  This is   *)
(* how the in-memory fakes keep it, a map per scope, and what the real     *)
(* adapters, which share one index, one graph and one bucket between all   *)
(* scopes, implement.  README.md says where the fakes promise less.        *)
(*                                                                         *)
(* A similarity search is for one query vector, and a stored vector is its *)
(* cosine with it.  A search is answered by a set: both sides sort it the  *)
(* same way.  Which of equals makes the cut is left open.                  *)
(***************************************************************************)
EXTENDS ScopeIds, FiniteSets

CONSTANTS
    Keys,               \* object keys, as sequences of parts
    Contents,           \* bytes
    Records,            \* [mentions, sentences, vectors]: what is linked, how many sentences,
                        \* a cosine for each or none at all
    Profiles,           \* [type, name, aliases, vector]
    Normalized,         \* names and aliases -> normalized
    NoVector,
    TopK, Hops,         \* bounds of the queries
    OldObjects, OldDocuments, OldEntities, OldNodes, OldEdges,
                        \* what there was before there were scopes
    Nothing             \* no object, record, entity or node

VARIABLES
    objects, documents, entities,
    nodes, edges        \* an identical edge is not written twice: a bound

memoryVars == <<objects, documents, entities, nodes, edges>>

Types == {p.type : p \in Profiles}
\* what may be asked to be written for a scope
Edges(sc) == {e \in [subject : OwnIds(sc), object : EntityIds, doc : OwnDocs(sc)] :
                e.subject # e.object}
Named(sc) == {k \in Keys : MayName(sc, k)}

Stored(r, sc) ==
    [links |-> {Minted(sc, m) : m \in r.mentions}, sentences |-> r.sentences, vectors |-> r.vectors]

\* the graph keeps no vector
Drawn(p) == [type |-> p.type, name |-> p.name, aliases |-> p.aliases]

NamesOf(p) == {Normalized[n] : n \in p.aliases \cup {p.name}}

(***************************************************************************)
(* Reading one scope's memory, m or the edges e.                           *)
(***************************************************************************)
Present(m) == {i \in DOMAIN m : m[i] # Nothing}

Found(m, id) == IF id \in DOMAIN m THEN m[id] ELSE Nothing

Linked(m, excluding) == UNION {m[d].links : d \in Present(m) \ {excluding}}

\* sentences that have a vector
Passages(m) ==
    UNION {{[doc |-> d, index |-> i, score |-> m[d].vectors[i]] : i \in DOMAIN m[d].vectors} :
              d \in Present(m)}

\* the sets a search for the best n of S may answer
Best(S, n) ==
    {T \in SUBSET S :
        /\ Cardinality(T) = IF n < Cardinality(S) THEN n ELSE Cardinality(S)
        /\ \A t \in T, s \in S \ T : t.score >= s.score}

Candidates(m, type, name) ==
    {i \in Present(m) : m[i].type = type /\ name \in NamesOf(m[i])}

Scored(m, types) ==
    {[id |-> i, score |-> m[i].vector] :
        i \in {j \in Present(m) : m[j].type \in types /\ m[j].vector # NoVector}}

Neighbours(e, ids) == UNION {{x.subject, x.object} : x \in {y \in e : {y.subject, y.object} \cap ids # {}}}

Around(m, e, seeds, hops) ==
    LET reach[n \in 0..hops] ==
          IF n = 0 THEN seeds \cap Present(m)
          ELSE reach[n - 1] \cup (Neighbours(e, reach[n - 1]) \cap Present(m))
    IN  reach[hops]

Within(e, ids) == {x \in e : {x.subject, x.object} \subseteq ids}

Touching(e, ids) == {x \in e : {x.subject, x.object} \cap ids # {}}

(***************************************************************************)
(* The calls that write.                                                   *)
(***************************************************************************)
PutObject(sc, key, data) ==
    /\ MayName(sc, key)
    /\ objects' = [objects EXCEPT ![sc][key] = data]
    /\ UNCHANGED <<documents, entities, nodes, edges>>

UpsertDocument(sc, id, r) ==
    /\ documents' = [documents EXCEPT ![sc][id] = Stored(r, sc)]
    /\ UNCHANGED <<objects, entities, nodes, edges>>

DeleteDocument(sc, id) ==
    /\ documents' = [documents EXCEPT ![sc][id] = Nothing]
    /\ UNCHANGED <<objects, entities, nodes, edges>>

UpsertEntity(sc, id, p) ==
    /\ entities' = [entities EXCEPT ![sc][id] = p]
    /\ UNCHANGED <<objects, documents, nodes, edges>>

DeleteEntity(sc, id) ==
    /\ entities' = [entities EXCEPT ![sc][id] = Nothing]
    /\ UNCHANGED <<objects, documents, nodes, edges>>

UpsertNode(sc, id, p) ==
    /\ nodes' = [nodes EXCEPT ![sc][id] = Drawn(p)]
    /\ UNCHANGED <<objects, documents, entities, edges>>

\* an edge to a node this scope does not have is dropped without a word
WriteTriple(sc, edge) ==
    /\ {edge.subject, edge.object} \subseteq Present(nodes[sc])
    /\ edges' = [edges EXCEPT ![sc] = @ \cup {edge}]
    /\ UNCHANGED <<objects, documents, entities, nodes>>

DeleteDocumentEdges(sc, doc) ==
    /\ edges' = [edges EXCEPT ![sc] = {x \in @ : x.doc # doc}]
    /\ UNCHANGED <<objects, documents, entities, nodes>>

DeleteNodes(sc, ids) ==
    /\ nodes' = [nodes EXCEPT ![sc] = [i \in DOMAIN @ |-> IF i \in ids THEN Nothing ELSE @[i]]]
    /\ edges' = [edges EXCEPT ![sc] = @ \ Touching(@, ids)]
    /\ UNCHANGED <<objects, documents, entities>>

Old(sc, domain, what) ==
    [i \in domain |-> IF sc = Default /\ i \in DOMAIN what THEN what[i] ELSE Nothing]

Init ==
    /\ objects = [sc \in Scope |-> Old(sc, Named(sc), OldObjects)]
    /\ documents = [sc \in Scope |-> Old(sc, OwnDocs(sc), OldDocuments)]
    /\ entities = [sc \in Scope |-> Old(sc, OwnIds(sc), OldEntities)]
    /\ nodes = [sc \in Scope |-> Old(sc, OwnIds(sc), OldNodes)]
    /\ edges = [sc \in Scope |-> IF sc = Default THEN OldEdges ELSE {}]

Next ==
    \E sc \in Scope :
        \/ \E key \in Keys, data \in Contents \cup {Nothing} : PutObject(sc, key, data)
        \/ \E id \in OwnDocs(sc) :
              DeleteDocument(sc, id) \/ \E r \in Records : UpsertDocument(sc, id, r)
        \/ \E id \in OwnIds(sc) :
              DeleteEntity(sc, id) \/ \E p \in Profiles : UpsertEntity(sc, id, p)
        \/ \E id \in OwnIds(sc), p \in Profiles : UpsertNode(sc, id, p)
        \/ \E edge \in Edges(sc) : WriteTriple(sc, edge)
        \/ \E doc \in OwnDocs(sc) : DeleteDocumentEdges(sc, doc)
        \/ \E ids \in SUBSET OwnIds(sc) : DeleteNodes(sc, ids)

Spec == Init /\ [][Next]_memoryVars
=============================================================================
