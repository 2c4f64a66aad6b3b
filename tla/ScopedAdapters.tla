--------------------------- MODULE ScopedAdapters ---------------------------
(***************************************************************************)
(* How the adapters keep the scopes apart: every record carries the scope  *)
(* it was written for and every query filters on it, object keys are       *)
(* prefixed.  What was stored before there were scopes carries none and is *)
(* the default scope's.                                                    *)
(***************************************************************************)
EXTENDS ScopeIds, Integers, FiniteSets

CONSTANTS
    Keys, Contents, Records, Profiles, Normalized, NoVector, TopK, Hops,
    OldObjects, OldDocuments, OldEntities, OldNodes, OldEdges, Nothing,
    NoField         \* the scope field of what is older than scopes

\* a document has a vector for every sentence or for none
Vectors(r) == r.vectors = <<>> \/ Len(r.vectors) = r.sentences

Document == [links : SUBSET EntityIds, sentences : Nat, vectors : Seq(Int \ {NoVector})]

Node == [type : {p.type : p \in Profiles}, name : DOMAIN Normalized,
         aliases : SUBSET DOMAIN Normalized]

Entity == [type : {p.type : p \in Profiles}, name : DOMAIN Normalized,
           aliases : SUBSET DOMAIN Normalized, vector : Int \cup {NoVector}]

\* what is indexed and drawn
DocumentSources ==
    [scope : Scope \cup {NoField}, links : SUBSET EntityIds, nested : Seq(Int \cup {NoVector})]

EntitySources ==
    [scope : Scope \cup {NoField}, type : {p.type : p \in Profiles}, name : DOMAIN Normalized,
     aliases : SUBSET DOMAIN Normalized, vector : Int \cup {NoVector},
     normalizedName : {Normalized[n] : n \in DOMAIN Normalized},
     aliasesNormalized : SUBSET {Normalized[n] : n \in DOMAIN Normalized}]

NodeSources ==
    [scope : Scope \cup {NoField}, type : {p.type : p \in Profiles}, name : DOMAIN Normalized,
     aliases : SUBSET DOMAIN Normalized]

\* what is older than scopes was the default scope's, by its ids and keys
ASSUME AdapterAssumption ==
    /\ Keys \subseteq Seq(Parts)
    /\ \A r \in Records :
          /\ r.mentions \subseteq Mentionable /\ r.sentences \in Nat
          /\ r.vectors \in Seq(Int \ {NoVector}) /\ Vectors(r)
    /\ Profiles \subseteq Entity
    /\ TopK \in Nat /\ Hops \in Nat
    /\ NoField \notin Scope
    /\ Nothing \notin Document /\ Nothing \notin Entity /\ Nothing \notin Node
    /\ Nothing \notin DocumentSources /\ Nothing \notin EntitySources /\ Nothing \notin NodeSources
    /\ DOMAIN OldObjects \subseteq {key \in Keys : MayName(Default, key)}
    /\ DOMAIN OldDocuments \subseteq OwnDocs(Default) /\ IsFiniteSet(DOMAIN OldDocuments)
    /\ \A i \in DOMAIN OldDocuments : OldDocuments[i] \in Document /\ Vectors(OldDocuments[i])
    /\ DOMAIN OldEntities \subseteq OwnIds(Default)
    /\ \A i \in DOMAIN OldEntities : OldEntities[i] \in Entity
    /\ DOMAIN OldNodes \subseteq OwnIds(Default)
    /\ \A i \in DOMAIN OldNodes : OldNodes[i] \in Node
    /\ OldEdges \subseteq [subject : DOMAIN OldNodes, object : DOMAIN OldNodes,
                            doc : OwnDocs(Default)]

VARIABLES
    bucket,         \* paths -> bytes
    documentIndex,  \* ids -> source: the record and its scope
    entityIndex,    \* ids -> source
    graph,          \* ids -> node: its properties and its scope
    relations       \* the edges of the graph

adapterVars == <<bucket, documentIndex, entityIndex, graph, relations>>

Paths == {ObjectPath(sc, key) : sc \in Scope, key \in Keys}

\* es_in_scope, and coalesce(n.scope, 'default') of the graph's queries
InScope(source, sc) == (IF source.scope = NoField THEN Default ELSE source.scope) = sc

\* es_scope_filter: the values of the field, or its absence, a query lets through
ScopeFilter(sc) == IF sc = Default THEN {sc, NoField} ELSE {sc}

Hits(index, sc) == {i \in DOMAIN index : index[i] # Nothing /\ index[i].scope \in ScopeFilter(sc)}

\* get: fetched by id, then checked
Fetched(index, id, sc) == index[id] # Nothing /\ InScope(index[id], sc)

Nodes(sc) == {i \in EntityIds : graph[i] # Nothing /\ InScope(graph[i], sc)}

(***************************************************************************)
(* A document's sentences and vectors are stored merged, one nested object *)
(* per sentence, and taken apart again.                                    *)
(***************************************************************************)
Nested(r) == [i \in 1..r.sentences |-> IF i \in DOMAIN r.vectors THEN r.vectors[i] ELSE NoVector]

DocumentSource(r, sc) ==
    [scope |-> sc, links |-> {Minted(sc, m) : m \in r.mentions}, nested |-> Nested(r)]

\* the vectors come back only if every sentence has one
ToRecord(source) ==
    [links |-> source.links, sentences |-> Len(source.nested),
     vectors |-> IF \A i \in DOMAIN source.nested : source.nested[i] # NoVector
                 THEN source.nested ELSE <<>>]

EntitySource(p, sc) ==
    [scope |-> sc, type |-> p.type, name |-> p.name, aliases |-> p.aliases, vector |-> p.vector,
     normalizedName |-> Normalized[p.name],
     aliasesNormalized |-> {Normalized[a] : a \in p.aliases}]

ToEntity(source) ==
    [type |-> source.type, name |-> source.name, aliases |-> source.aliases, vector |-> source.vector]

ToNode(node) == [type |-> node.type, name |-> node.name, aliases |-> node.aliases]

(***************************************************************************)
(* The memory of one scope there is in what all of them share.             *)
(***************************************************************************)
Get(sc, key) == bucket[ObjectPath(sc, key)]

ObjectsOf(sc) == [k \in {k \in Keys : MayName(sc, k)} |-> Get(sc, k)]

GetDocument(sc, id) ==
    IF Fetched(documentIndex, id, sc) THEN ToRecord(documentIndex[id]) ELSE Nothing

DocumentsOf(sc) == [i \in OwnDocs(sc) |-> GetDocument(sc, i)]

GetEntity(sc, id) ==
    IF Fetched(entityIndex, id, sc) THEN ToEntity(entityIndex[id]) ELSE Nothing

EntitiesOf(sc) == [i \in OwnIds(sc) |-> GetEntity(sc, i)]

GetNode(sc, id) == IF id \in Nodes(sc) THEN ToNode(graph[id]) ELSE Nothing

NodesOf(sc) == [i \in OwnIds(sc) |-> GetNode(sc, i)]

EdgesOf(sc) == {x \in relations : {x.subject, x.object} \subseteq Nodes(sc)}

Memory == INSTANCE ScopedMemory WITH
    objects <- [sc \in Scope |-> ObjectsOf(sc)],
    documents <- [sc \in Scope |-> DocumentsOf(sc)],
    entities <- [sc \in Scope |-> EntitiesOf(sc)],
    nodes <- [sc \in Scope |-> NodesOf(sc)],
    edges <- [sc \in Scope |-> EdgesOf(sc)]

(***************************************************************************)
(* MinIO.                                                                  *)
(***************************************************************************)

\* a key the scope may not name raises ValueError
Put(sc, key, data) ==
    /\ MayName(sc, key)
    /\ bucket' = [bucket EXCEPT ![ObjectPath(sc, key)] = data]
    /\ UNCHANGED <<documentIndex, entityIndex, graph, relations>>

Delete(sc, key) == Put(sc, key, Nothing)

ObjectCall(sc) ==
    \E key \in Keys :
        \/ \E data \in Contents : Put(sc, key, data)
        \/ Delete(sc, key)

(***************************************************************************)
(* The documents index.                                                    *)
(***************************************************************************)
UpsertDocument(sc, id, r) ==
    /\ documentIndex' = [documentIndex EXCEPT ![id] = DocumentSource(r, sc)]
    /\ UNCHANGED <<bucket, entityIndex, graph, relations>>

\* Wrong on purpose: deletes by id without looking whose it is.
DeleteAnyDocument(sc, id) ==
    /\ documentIndex' = [documentIndex EXCEPT ![id] = Nothing]
    /\ UNCHANGED <<bucket, entityIndex, graph, relations>>

\* any id may be asked for, another scope's too
DeleteDocument(sc, id) ==
    /\ Fetched(documentIndex, id, sc)
    /\ documentIndex' = [documentIndex EXCEPT ![id] = Nothing]
    /\ UNCHANGED <<bucket, entityIndex, graph, relations>>

EntitiesInUse(sc, ids, excluding) ==
    {i \in ids : \E d \in Hits(documentIndex, sc) \ {excluding} : i \in documentIndex[d].links}

Sentences(id) ==
    {[doc |-> id, index |-> i, score |-> documentIndex[id].nested[i]] :
        i \in {n \in DOMAIN documentIndex[id].nested : documentIndex[id].nested[n] # NoVector}}

\* What SearchSentences may answer.  kNN over nested vectors ranks documents by their nearest
\* sentence and finds the best TopK of them with the best TopK sentences of each; the adapter
\* cuts the lot.
SearchSentences(sc) ==
    LET ranked == {[id |-> d, score |-> CHOOSE best \in {s.score : s \in Sentences(d)} :
                                          \A s \in Sentences(d) : s.score <= best] :
                      d \in {h \in Hits(documentIndex, sc) : Sentences(h) # {}}}
        inner(found) == {S \in SUBSET UNION {Sentences(d.id) : d \in found} :
                            \A d \in found : {s \in S : s.doc = d.id} \in
                                                Memory!Best(Sentences(d.id), TopK)}
    IN  UNION {UNION {Memory!Best(S, TopK) : S \in inner(found)} :
                  found \in Memory!Best(ranked, TopK)}

DocumentCall(sc) ==
    \/ \E id \in OwnDocs(sc), r \in Records : UpsertDocument(sc, id, r)
    \/ \E id \in DocIds : DeleteDocument(sc, id)

(***************************************************************************)
(* The entities index.                                                     *)
(***************************************************************************)
UpsertEntity(sc, id, p) ==
    /\ entityIndex' = [entityIndex EXCEPT ![id] = EntitySource(p, sc)]
    /\ UNCHANGED <<bucket, documentIndex, graph, relations>>

DeleteEntity(sc, id) ==
    /\ Fetched(entityIndex, id, sc)
    /\ entityIndex' = [entityIndex EXCEPT ![id] = Nothing]
    /\ UNCHANGED <<bucket, documentIndex, graph, relations>>

BlockCandidates(sc, type, name) ==
    {i \in Hits(entityIndex, sc) :
        /\ entityIndex[i].type = type
        /\ \/ entityIndex[i].normalizedName = name
           \/ name \in entityIndex[i].aliasesNormalized}

\* what kNN may answer, for one type or any
Knn(sc, types) ==
    LET indexed == {i \in Hits(entityIndex, sc) :
                      entityIndex[i].vector # NoVector /\ entityIndex[i].type \in types}
    IN  Memory!Best({[id |-> i, score |-> entityIndex[i].vector] : i \in indexed}, TopK)

AllEntities(sc) == Hits(entityIndex, sc)

EntityCall(sc) ==
    \/ \E id \in OwnIds(sc), p \in Profiles : UpsertEntity(sc, id, p)
    \/ \E id \in EntityIds : DeleteEntity(sc, id)

(***************************************************************************)
(* The graph.                                                              *)
(***************************************************************************)

\* MERGE finds or creates the node; one that another scope owns is left as it is
UpsertNode(sc, id, p) ==
    LET owner == IF graph[id] = Nothing THEN sc ELSE graph[id].scope
    IN  /\ InScope([scope |-> owner], sc)
        /\ graph' = [graph EXCEPT ![id] = [scope |-> owner, type |-> p.type, name |-> p.name,
                                           aliases |-> p.aliases]]
        /\ UNCHANGED <<bucket, documentIndex, entityIndex, relations>>

\* Wrong on purpose: only the subject has to be this scope's.
WriteFromOwnSubject(sc, edge) ==
    /\ edge.subject \in Nodes(sc) /\ graph[edge.object] # Nothing
    /\ relations' = relations \cup {edge}
    /\ UNCHANGED <<bucket, documentIndex, entityIndex, graph>>

\* both MATCHes must find their node, or nothing is created
WriteTriple(sc, edge) ==
    /\ {edge.subject, edge.object} \subseteq Nodes(sc)
    /\ relations' = relations \cup {edge}
    /\ UNCHANGED <<bucket, documentIndex, entityIndex, graph>>

DeleteDocumentEdges(sc, doc) ==
    /\ relations' = {x \in relations :
                        ~(x.doc = doc /\ {x.subject, x.object} \subseteq Nodes(sc))}
    /\ UNCHANGED <<bucket, documentIndex, entityIndex, graph>>

\* DETACH: with every edge that touches them
DeleteNodes(sc, ids) ==
    LET gone == ids \cap Nodes(sc)
    IN  /\ graph' = [i \in EntityIds |-> IF i \in gone THEN Nothing ELSE graph[i]]
        /\ relations' = relations \ Memory!Touching(relations, gone)
        /\ UNCHANGED <<bucket, documentIndex, entityIndex>>

\* khop: the walk goes through any node and only its ends are filtered
Walked(sc, seeds, hops) ==
    LET reach[n \in 0..hops] ==
          IF n = 0 THEN seeds \cap Nodes(sc)
          ELSE reach[n - 1] \cup Memory!Neighbours(relations, reach[n - 1])
    IN  reach[hops] \cap Nodes(sc)

GetNodeEdges(sc, id) ==
    {x \in Memory!Touching(relations, {id}) : {x.subject, x.object} \subseteq Nodes(sc)}

GraphCall(sc) ==
    \/ \E id \in OwnIds(sc), p \in Profiles : UpsertNode(sc, id, p)
    \/ \E edge \in Memory!Edges(sc) : WriteTriple(sc, edge)
    \/ \E doc \in DocIds : DeleteDocumentEdges(sc, doc)
    \/ \E other \in Scope : \E ids \in SUBSET OwnIds(other) : DeleteNodes(sc, ids)

(***************************************************************************)
(* What was there before there were scopes has no field, and keys without  *)
(* a prefix.                                                               *)
(***************************************************************************)
Older(domain, what, Source(_)) ==
    [i \in domain |-> IF i \in DOMAIN what THEN Source(what[i]) ELSE Nothing]

Init ==
    /\ bucket = Older(Paths, OldObjects, LAMBDA data : data)
    /\ documentIndex = Older(DocIds, OldDocuments, LAMBDA r :
            [scope |-> NoField, links |-> r.links, nested |-> Nested(r)])
    /\ entityIndex = Older(EntityIds, OldEntities, LAMBDA p :
            [EntitySource(p, Default) EXCEPT !.scope = NoField])
    /\ graph = Older(EntityIds, OldNodes, LAMBDA p :
            [scope |-> NoField, type |-> p.type, name |-> p.name, aliases |-> p.aliases])
    /\ relations = OldEdges

Call(sc) == ObjectCall(sc) \/ DocumentCall(sc) \/ EntityCall(sc) \/ GraphCall(sc)

Next == \E sc \in Scope : Call(sc)

Spec == Init /\ [][Next]_adapterVars

(***************************************************************************)
(* What keeps one tenant's memory from another's.                          *)
(***************************************************************************)

\* Every edge joins two nodes of one scope (write_triples).  khop walks through nodes it does not
\* look at, and deleting a document's edges spares an edge that leaves the scope: both are right
\* only because of this.
EdgesStayInScope ==
    \A x \in relations : \E sc \in Scope : {x.subject, x.object} \subseteq Nodes(sc)

\* Whatever is asked about documents, sentences and what is in use, the shared index answers as
\* a memory of this scope alone would, for records older than scopes as well
\* (ElasticsearchDocumentStore.get, entities_in_use, search_sentences).
DocumentAnswers ==
    \A sc \in Scope :
        /\ \A id \in DocIds : GetDocument(sc, id) = Memory!Found(DocumentsOf(sc), id)
        /\ \A excluding \in DocIds \cup {Nothing} :
              EntitiesInUse(sc, EntityIds, excluding) = Memory!Linked(DocumentsOf(sc), excluding)
        /\ SearchSentences(sc) # {}
        /\ SearchSentences(sc) \subseteq Memory!Best(Memory!Passages(DocumentsOf(sc)), TopK)

\* The same for entities: by id, by type and name, by similarity, all of them
\* (ElasticsearchEntityStore.get, block_candidates, knn, all).
EntityAnswers ==
    \A sc \in Scope :
        /\ \A id \in EntityIds : GetEntity(sc, id) = Memory!Found(EntitiesOf(sc), id)
        /\ \A type \in Memory!Types, n \in DOMAIN Normalized :
              BlockCandidates(sc, type, Normalized[n]) =
                Memory!Candidates(EntitiesOf(sc), type, Normalized[n])
        /\ \A types \in {Memory!Types} \cup {{t} : t \in Memory!Types} :
              Knn(sc, types) = Memory!Best(Memory!Scored(EntitiesOf(sc), types), TopK)
        /\ AllEntities(sc) = Memory!Present(EntitiesOf(sc))

\* The same for the graph, also when the seeds of a walk are of another scope
\* (Neo4jGraphStore.khop, get_node, get_node_edges).
GraphAnswers ==
    \A sc \in Scope :
        /\ \A seeds \in SUBSET EntityIds, hops \in 0..Hops :
              Walked(sc, seeds, hops) = Memory!Around(NodesOf(sc), EdgesOf(sc), seeds, hops)
        /\ \A id \in EntityIds :
              /\ GetNode(sc, id) = Memory!Found(NodesOf(sc), id)
              /\ GetNodeEdges(sc, id) = Memory!Touching(EdgesOf(sc), {id})

\* Every read of a scope answers as a memory with nobody else in it would.
QueriesStayInScope ==
    /\ EdgesStayInScope
    /\ DocumentAnswers
    /\ EntityAnswers
    /\ GraphAnswers

MemoryOf(sc) == <<ObjectsOf(sc), DocumentsOf(sc), EntitiesOf(sc), NodesOf(sc), EdgesOf(sc)>>

\* No call of one scope, whatever id, key or edge it names, changes what another scope has
\* (EsDocumentStore.delete, object_key, document_id, entity_id, write_triples).
OthersAreUntouched ==
    [][\A sc \in Scope : Call(sc) =>
          \A other \in Scope \ {sc} : MemoryOf(other)' = MemoryOf(other)]_adapterVars

\* The adapters, on one shared index, graph and bucket, implement a memory per scope
\* (adapters/scoping.py): each write does to its scope's memory what the in-memory stores do.
ImplementsScopedMemory == Memory!Spec
=============================================================================
