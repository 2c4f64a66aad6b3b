----------------------------- MODULE Extraction -----------------------------
(***************************************************************************)
(* What process_document makes of a text: mentions, clusters, links and    *)
(* triples, and what of it is kept.  The spaCy model, the language model   *)
(* and the linker's decisions are external: each may give any answer of    *)
(* its set.  A position in the text is an offset, and a mention lies in    *)
(* the sentence it starts in.                                              *)
(***************************************************************************)
EXTENDS Integers, Sequences, FiniteSets, Functions

CONSTANTS
    Docs, Texts, Surfaces, Types, Ids,
    Date,               \* the type that is never a node
    Curated,            \* spaCy's labels that are kept -> type
    Models,             \* spaCy's models
    Configured,         \* Settings.ner_model
    Fallbacks,          \* the chain that is tried after it
    Reads,              \* Models -> Texts -> entities found: [surface, label, start]
    Segments,           \* Texts -> sentences: [start, end]
    CorefAnswers,       \* lists of clusters: [canonical, members]
    Resolvers,          \* what linking may decide: type and surface -> id
    TripleAnswers,      \* lists of triples: [subject, phrase, object, sentence, date]
    Normalized,         \* phrases -> normalized phrase
    Lookup,             \* normalized phrases that are a predicate's -> predicate
    RelatedTo,
    MaxRuns,            \* bound: documents processed
    NoModel, NoNode, NoPhrase, Raw, None

Read == [surface : Surfaces, label : STRING, start : Nat]

Cluster == [canonical : Surfaces, members : SUBSET Surfaces]

Node == [name : Surfaces, type : Types]

\* what linking decides is an entity of the type it was asked for
ASSUME ExtractionAssumption ==
    /\ Date \in Types
    /\ Configured \in Models
    /\ Fallbacks \in Seq(Models)
    /\ Curated \in [DOMAIN Curated -> Types]
    /\ \A m \in Models, t \in Texts : Reads[m][t] \in Seq(Read)
    /\ CorefAnswers \subseteq Seq(Cluster)
    /\ Resolvers \subseteq [Types -> [Surfaces -> Ids]]
    /\ \A r \in Resolvers, t \in Types, s \in Surfaces : r[t][s].type = t
    /\ NoNode \notin Node
    /\ RelatedTo \in {Lookup[p] : p \in DOMAIN Lookup}

VARIABLES
    wired,          \* the optional stages there are: "none", "linking" or "graph"
    installed,      \* the spaCy models on disk
    loaded,         \* the model this process uses
    job,            \* the document under way and what is known of it
    records,        \* Docs -> None, Raw or the enriched record
    nodes,          \* Ids -> node
    edges,
    runs            \* documents processed so far

vars == <<wired, installed, loaded, job, records, nodes, edges, runs>>

Idle == [pc |-> "idle"]

First(S) == CHOOSE i \in S : \A j \in S : i <= j

\* a loop that skips the others: the elements at the positions `kept`, in their order
Keep(s, kept) ==
    [n \in 1..Cardinality(kept) |-> s[CHOOSE i \in kept : Cardinality({j \in kept : j <= i}) = n]]

(***************************************************************************)
(* NER.                                                                    *)
(***************************************************************************)

Candidates ==
    <<Configured>> \o Keep(Fallbacks, {i \in DOMAIN Fallbacks : Fallbacks[i] # Configured})

\* the first candidate that is installed, for good
Load ==
    IF loaded # NoModel THEN loaded
    ELSE LET found == {i \in DOMAIN Candidates : Candidates[i] \in installed}
         IN  IF found = {} THEN NoModel ELSE Candidates[First(found)]

CuratedType(label) == Curated[label]

Mentions(model, text) ==
    LET read == Reads[model][text]
        kept == Keep(read, {i \in DOMAIN read : read[i].label \in DOMAIN Curated})
    IN  [i \in DOMAIN kept |->
            [text |-> kept[i].surface, type |-> CuratedType(kept[i].label), start |-> kept[i].start]]

(***************************************************************************)
(* Entities of the document: one per cluster that can be typed, and one    *)
(* per mention no cluster covers.                                          *)
(***************************************************************************)
Matched(cluster, mentions) ==
    {i \in DOMAIN mentions : mentions[i].text \in cluster.members \cup {cluster.canonical}}

\* the type of the mention that reads like the canonical, else of the first match
ClusterType(cluster, mentions) ==
    LET matched == Matched(cluster, mentions)
        exact == {i \in matched : mentions[i].text = cluster.canonical}
    IN  mentions[First(IF exact # {} THEN exact ELSE matched)].type

\* the clusters that can be typed
Typed(clusters, mentions) ==
    Keep(clusters, {k \in DOMAIN clusters : Matched(clusters[k], mentions) # {}})

Covered(clusters, mentions) == UNION {Matched(c, mentions) : c \in Range(clusters)}

\* Wrong on purpose: what no cluster covers is left out.
OnlyClusters(clusters, mentions) ==
    LET typed == Typed(clusters, mentions)
    IN  [k \in DOMAIN typed |->
            [surface |-> typed[k].canonical, type |-> ClusterType(typed[k], mentions),
             spans |-> Matched(typed[k], mentions)]]

DocLevelEntities(clusters, mentions) ==
    LET typed == Typed(clusters, mentions)
        alone == Keep([i \in DOMAIN mentions |-> i], DOMAIN mentions \ Covered(clusters, mentions))
    IN  [k \in DOMAIN typed |->
            [surface |-> typed[k].canonical, type |-> ClusterType(typed[k], mentions),
             spans |-> Matched(typed[k], mentions)]]
        \o [k \in DOMAIN alone |->
            [surface |-> mentions[alone[k]].text, type |-> mentions[alone[k]].type,
             spans |-> {alone[k]}]]

(***************************************************************************)
(* Links and the nodes they stand for.                                     *)
(***************************************************************************)
Link(entity, resolver) ==
    [surface |-> entity.surface, type |-> entity.type,
     id |-> resolver[entity.type][entity.surface], spans |-> entity.spans]     \* spans: history

\* embed_sentences: how many vectors
Embedded(mentions, sentences) == Len(sentences)

NotDates(links) == {k \in DOMAIN links : links[k].type # Date}

\* several links may be of one entity: the first names it
CanonicalEntities(links) ==
    [i \in {links[k].id : k \in NotDates(links)} |->
        LET k == First({n \in NotDates(links) : links[n].id = i})
        IN  [name |-> links[k].surface, type |-> links[k].type]]

(***************************************************************************)
(* KG build.                                                               *)
(***************************************************************************)

\* a phrase that is nobody's becomes RELATED_TO and is kept
MapPredicate(phrase) ==
    IF Normalized[phrase] \in DOMAIN Lookup
    THEN [predicate |-> Lookup[Normalized[phrase]], raw |-> NoPhrase]
    ELSE [predicate |-> RelatedTo, raw |-> phrase]

IsGrounded(raw, known, sentences) ==
    /\ {raw.subject, raw.object} \subseteq known
    /\ raw.sentence \in DOMAIN sentences

Triple(raw, sentences) ==
    [subject |-> raw.subject, object |-> raw.object,
     predicate |-> MapPredicate(raw.phrase).predicate, raw |-> MapPredicate(raw.phrase).raw,
     sentence |-> raw.sentence, span |-> sentences[raw.sentence], date |-> raw.date]

Triples(answer, known, sentences) ==
    {Triple(raw, sentences) : raw \in {r \in Range(answer) : IsGrounded(r, known, sentences)}}

(***************************************************************************)
(* One document after the other.                                           *)
(***************************************************************************)
Init ==
    /\ wired \in {"none", "linking", "graph"}
    /\ installed \in SUBSET Models
    /\ loaded = NoModel
    /\ job = Idle
    /\ records = [d \in Docs |-> None]
    /\ nodes = [i \in Ids |-> NoNode]
    /\ edges = {}
    /\ runs = 0

\* somebody adds or removes models
Install(models) ==
    /\ job = Idle
    /\ installed' = models
    /\ UNCHANGED <<wired, loaded, job, records, nodes, edges, runs>>

\* read, then the ingestion checkpoint
Receive(d, text) ==
    /\ job = Idle /\ runs < MaxRuns
    /\ runs' = runs + 1
    /\ job' = [pc |-> "ner", doc |-> d, text |-> text]
    /\ records' = [records EXCEPT ![d] = Raw]
    /\ UNCHANGED <<wired, installed, loaded, nodes, edges>>

Analyze ==
    /\ job.pc = "ner"
    /\ loaded' = Load
    /\ job' = IF Load = NoModel THEN Idle
              ELSE [pc |-> "coref", doc |-> job.doc,
                    mentions |-> Mentions(Load, job.text), sentences |-> Segments[job.text]]
    /\ UNCHANGED <<wired, installed, records, nodes, edges, runs>>

\* the last stage of a process that links nothing
Resolve(clusters) ==
    /\ job.pc = "coref"
    /\ job' = IF wired = "none" THEN Idle
              ELSE [pc |-> "link", doc |-> job.doc, mentions |-> job.mentions,
                    sentences |-> job.sentences,
                    entities |-> DocLevelEntities(clusters, job.mentions)]
    /\ UNCHANGED <<wired, installed, loaded, records, nodes, edges, runs>>

\* linking and its checkpoint
LinkAll(resolver) ==
    /\ job.pc = "link"
    /\ LET links == [k \in DOMAIN job.entities |-> Link(job.entities[k], resolver)]
       IN  /\ records' = [records EXCEPT ![job.doc] =
                 [mentions |-> job.mentions, sentences |-> job.sentences, links |-> links,
                  vectors |-> Embedded(job.mentions, job.sentences), run |-> runs]]
           /\ job' = IF wired = "graph"
                     THEN [pc |-> "kg", doc |-> job.doc, sentences |-> job.sentences,
                           canonical |-> CanonicalEntities(links)]
                     ELSE Idle
    /\ UNCHANGED <<wired, installed, loaded, nodes, edges, runs>>

\* with nothing to connect the language model is not asked
Build(answer) ==
    /\ job.pc = "kg"
    /\ answer = <<>> \/ DOMAIN job.canonical # {}
    /\ job' = [pc |-> "nodes", doc |-> job.doc, canonical |-> job.canonical,
               triples |-> Triples(answer, DOMAIN job.canonical, job.sentences)]
    /\ UNCHANGED <<wired, installed, loaded, records, nodes, edges, runs>>

UpsertNodes ==
    /\ job.pc = "nodes"
    /\ nodes' = [i \in Ids |-> IF i \in DOMAIN job.canonical THEN job.canonical[i] ELSE nodes[i]]
    /\ job' = [job EXCEPT !.pc = "clear"]
    /\ UNCHANGED <<wired, installed, loaded, records, edges, runs>>

DeleteDocumentEdges ==
    /\ job.pc = "clear"
    /\ edges' = {e \in edges : e.doc # job.doc}
    /\ job' = [job EXCEPT !.pc = "edges"]
    /\ UNCHANGED <<wired, installed, loaded, records, nodes, runs>>

WriteTriples ==
    /\ job.pc = "edges"
    /\ edges' = edges \cup {[doc |-> job.doc, run |-> runs, triple |-> t] : t \in job.triples}
    /\ job' = Idle
    /\ UNCHANGED <<wired, installed, loaded, records, nodes, runs>>

\* a stage or a store raises: the document is dropped where it is
Drop ==
    /\ job # Idle
    /\ job' = Idle
    /\ UNCHANGED <<wired, installed, loaded, records, nodes, edges, runs>>

Next ==
    \/ \E models \in SUBSET Models : Install(models)
    \/ \E d \in Docs, text \in Texts : Receive(d, text)
    \/ Analyze
    \/ \E clusters \in CorefAnswers : Resolve(clusters)
    \/ \E resolver \in Resolvers : LinkAll(resolver)
    \/ \E answer \in TripleAnswers : Build(answer)
    \/ UpsertNodes \/ DeleteDocumentEdges \/ WriteTriples
    \/ Drop

Spec == Init /\ [][Next]_vars

(***************************************************************************)
(* What a document's reading owes to the text it was read from.            *)
(***************************************************************************)

Enriched(d) == records[d] \notin {None, Raw}

\* The record of a document is raw or whole, its sentences and their vectors in step.
RecordsAreWhole ==
    /\ loaded \in Models \cup {NoModel}
    /\ \A d \in Docs : Enriched(d) => records[d].vectors = Len(records[d].sentences)
    /\ \A i \in Ids : nodes[i] # NoNode => nodes[i].type \in Types

\* Whatever clusters the language model answers, overlapping or of nothing in the text, every
\* mention is part of an entity that was linked (EntityLinkingStage._doc_level_entities).
MentionsAreLinked ==
    \A d \in Docs : Enriched(d) =>
        \A i \in DOMAIN records[d].mentions :
            \E k \in DOMAIN records[d].links : i \in records[d].links[k].spans

\* No link is of a type that no mention it covers has, and none covers nothing: the language
\* model can group mentions, it cannot invent or retype one (_cluster_type).
LinksAreWitnessed ==
    \A d \in Docs : Enriched(d) =>
        \A k \in DOMAIN records[d].links :
            \E i \in records[d].links[k].spans :
                records[d].mentions[i].type = records[d].links[k].type

\* A node is never a date, and what is known as of one type is never written as of another
\* (Orchestrator._doc_canonical_entities).
NodesAreNeverDates ==
    \A i \in Ids : nodes[i] # NoNode => nodes[i].type # Date /\ nodes[i].type = i.type

\* The edges of a document never mix two readings of it, wherever one of them was dropped
\* (the graph checkpoint of process_document).
OneReading ==
    \A e, f \in edges : e.doc = f.doc => e.run = f.run

\* An edge joins two nodes, and as long as the record is of the same reading both are entities
\* the document links to and the span it cites is that sentence's (KgBuildStage.build).
EdgesAreGrounded ==
    \A e \in edges :
        LET t == e.triple
            r == records[e.doc]
            linked == {r.links[k].id : k \in {n \in DOMAIN r.links : r.links[n].type # Date}}
        IN  /\ nodes[t.subject] # NoNode /\ nodes[t.object] # NoNode
            /\ Enriched(e.doc) /\ r.run = e.run =>
                  {t.subject, t.object} \subseteq linked /\ r.sentences[t.sentence] = t.span

\* A document's record and edges are one reading of its text: whatever the language models
\* answer and wherever a run is dropped, nothing mentioned is lost, nothing is invented and no
\* two readings are mixed.
ReadingIsFaithful ==
    /\ RecordsAreWhole
    /\ MentionsAreLinked
    /\ LinksAreWitnessed
    /\ NodesAreNeverDates
    /\ OneReading
    /\ EdgesAreGrounded
=============================================================================
