------------------------------- MODULE Stores -------------------------------
(***************************************************************************)
(* The four stores the pipeline, the forget calls and the uploads share:  *)
(* MinIO objects, the ES-Documents records, the ES-Entities index and the *)
(* Neo4j graph, all inside one scope.  Every operator here is the effect  *)
(* of ONE remote call of an adapter; the modules that extend this one say *)
(* when the calls are made.                                               *)
(*                                                                         *)
(* A document is named by its object key: document_id is a digest of the  *)
(* location, so the two determine each other.  A text is a model value;   *)
(* what the NER, coreference and LLM stages make of it is given by the    *)
(* constants Mentions and Facts.                                          *)
(***************************************************************************)
EXTENDS Integers, FiniteSets

CONSTANTS
    Docs,           \* source keys of the scope
    Texts,          \* contents a source may have
    Entities,       \* canonical ids
    EntityTypes,    \* curated types, among them DATE
    Predicates,     \* closed predicate set
    DATE,           \* the type that never becomes a node
    TypeOf,         \* Entities -> EntityTypes
    Mentions,       \* Texts -> the canonical ids the text's mentions link to
    Facts,          \* Texts -> the triples KG-build returns for the text
    NoText,         \* no object at this key
    NoRecord        \* no record for this document

Triples == [s : Entities, p : Predicates, o : Entities]

GraphIds(ids) == {e \in ids : TypeOf[e] # DATE}

ASSUME DataAssumption ==
    /\ Texts # {}
    /\ TypeOf \in [Entities -> EntityTypes]
    /\ Mentions \in [Texts -> SUBSET Entities]
    /\ Facts \in [Texts -> SUBSET Triples]
    /\ \A t \in Texts : \A x \in Facts[t] : {x.s, x.o} \subseteq GraphIds(Mentions[t])

Record == [text : Texts, links : SUBSET Entities, enriched : BOOLEAN]

ASSUME SentinelAssumption ==
    /\ NoText \notin Texts
    /\ NoRecord \notin Record

VARIABLES
    objects,        \* MinIO: the bytes at each key
    records,        \* ES-Documents
    entities,       \* ES-Entities: the canonical ids stored
    nodes,          \* Neo4j: the ids that have a node
    edges           \* Neo4j: how many copies of each triple carry each document's provenance

storeVars == <<objects, records, entities, nodes, edges>>

NoEdges == [x \in Triples |-> 0]

\* a thread that is running no call
Idle == [pc |-> "idle"]

StoresTypeOK ==
    /\ objects \in [Docs -> Texts \cup {NoText}]
    /\ records \in [Docs -> Record \cup {NoRecord}]
    /\ entities \in SUBSET Entities
    /\ nodes \in SUBSET Entities
    /\ edges \in [Docs -> [Triples -> Nat]]

StoresInit ==
    /\ objects = [d \in Docs |-> NoText]
    /\ records = [d \in Docs |-> NoRecord]
    /\ entities = {}
    /\ nodes = {}
    /\ edges = [d \in Docs |-> NoEdges]

(***************************************************************************)
(* ES-Documents.                                                           *)
(***************************************************************************)
Links(d) == IF records[d] = NoRecord THEN {} ELSE records[d].links

\* the record as the ingestion checkpoint writes it: text only
RawRecord(t) == [text |-> t, links |-> {}, enriched |-> FALSE]

\* the record as the entity-linking checkpoint writes it
EnrichedRecord(t) == [text |-> t, links |-> Mentions[t], enriched |-> TRUE]

UpsertRecord(d, rec) == records' = [records EXCEPT ![d] = rec]

DeleteRecord(d) == records' = [records EXCEPT ![d] = NoRecord]

\* Wrong on purpose: the document that is being forgotten counts as a user.
EntitiesInUseByAny(ids, excluding) ==
    {e \in ids : \E d \in Docs : e \in Links(d)}

EntitiesInUse(ids, excluding) ==
    {e \in ids : \E d \in Docs \ {excluding} : e \in Links(d)}

(***************************************************************************)
(* MinIO.                                                                  *)
(***************************************************************************)
PutObject(d, t) == objects' = [objects EXCEPT ![d] = t]

DeleteObject(d) == objects' = [objects EXCEPT ![d] = NoText]

Holds(d, t) == objects[d] = t

(***************************************************************************)
(* ES-Entities.                                                            *)
(***************************************************************************)
UpsertEntity(e) == entities' = entities \cup {e}

DeleteEntity(e) == entities' = entities \ {e}

(***************************************************************************)
(* Neo4j.  A triple is written with CREATE, between two nodes that MATCH:  *)
(* one whose endpoint has no node is dropped without an error.             *)
(***************************************************************************)
UpsertNodes(ids) == nodes' = nodes \cup ids

DeleteDocumentEdges(d) == edges' = [edges EXCEPT ![d] = NoEdges]

CreateEdges(d, batch) ==
    edges' = [edges EXCEPT ![d] =
                [x \in Triples |->
                    IF x \in batch /\ {x.s, x.o} \subseteq nodes
                      THEN edges[d][x] + 1
                      ELSE edges[d][x]]]

\* DETACH DELETE: the nodes go with every edge that touches one of them
DeleteNodes(ids) ==
    /\ nodes' = nodes \ ids
    /\ edges' = [d \in Docs |->
                    [x \in Triples |->
                        IF {x.s, x.o} \cap ids = {} THEN edges[d][x] ELSE 0]]
=============================================================================
