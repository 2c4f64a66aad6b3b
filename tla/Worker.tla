------------------------------- MODULE Worker -------------------------------
(***************************************************************************)
(* Orchestrator.process_document, run by the one consumer thread: one step *)
(* per remote call that reads or changes a store.  The NER, coreference    *)
(* and KG-build stages change no store; they show here as the places where *)
(* the document may be dropped.                                            *)
(***************************************************************************)
EXTENDS Stores

VARIABLE worker

Job == [pc : {"raw", "link", "nodes", "edges"}, doc : Docs, text : Texts,
        ents : SUBSET Entities, facts : SUBSET Triples]

WorkerTypeOK == worker \in {Idle} \cup Job

WorkerInit == worker = Idle

\* the read stage finds the bytes
ReadObject(d) ==
    /\ worker = Idle
    /\ objects[d] # NoText
    /\ worker' = [pc |-> "raw", doc |-> d, text |-> objects[d], ents |-> {}, facts |-> {}]
    /\ UNCHANGED storeVars

\* FileNotFoundError: the document is dropped before anything is written
MissingObject(d) ==
    /\ worker = Idle
    /\ objects[d] = NoText
    /\ UNCHANGED <<worker, storeVars>>

\* the ingestion checkpoint: text only, over whatever record was there
UpsertRaw ==
    /\ worker.pc = "raw"
    /\ UpsertRecord(worker.doc, RawRecord(worker.text))
    /\ worker' = [worker EXCEPT !.pc = "link", !.ents = Mentions[worker.text]]
    /\ UNCHANGED <<objects, entities, nodes, edges>>

\* entity linking merges into, or creates, one canonical entity after the other
LinkEntity ==
    /\ worker.pc = "link"
    /\ \E e \in worker.ents :
        /\ UpsertEntity(e)
        /\ worker' = [worker EXCEPT !.ents = @ \ {e}]
    /\ UNCHANGED <<objects, records, nodes, edges>>

\* the entity-linking checkpoint
UpsertEnriched ==
    /\ worker.pc = "link"
    /\ worker.ents = {}
    /\ UpsertRecord(worker.doc, EnrichedRecord(worker.text))
    /\ worker' = [worker EXCEPT !.pc = "nodes", !.ents = GraphIds(Mentions[worker.text])]
    /\ UNCHANGED <<objects, entities, nodes, edges>>

\* upsert_entities commits one batch per type label
UpsertNodeBatch ==
    /\ worker.pc = "nodes"
    /\ \E y \in EntityTypes :
        LET batch == {e \in worker.ents : TypeOf[e] = y}
        IN  /\ batch # {}
            /\ UpsertNodes(batch)
            /\ worker' = [worker EXCEPT !.ents = @ \ batch]
    /\ UNCHANGED <<objects, records, entities, edges>>

\* Wrong on purpose: the triples are written over the edges of the run before.
KeepOldEdges ==
    /\ worker.pc = "nodes"
    /\ worker.ents = {}
    /\ worker' = [worker EXCEPT !.pc = "edges", !.facts = Facts[worker.text]]
    /\ UNCHANGED storeVars

DropOldEdges ==
    /\ worker.pc = "nodes"
    /\ worker.ents = {}
    /\ DeleteDocumentEdges(worker.doc)
    /\ worker' = [worker EXCEPT !.pc = "edges", !.facts = Facts[worker.text]]
    /\ UNCHANGED <<objects, records, entities, nodes>>

\* write_triples commits one batch per predicate
WriteTripleBatch ==
    /\ worker.pc = "edges"
    /\ \E p \in Predicates :
        LET batch == {x \in worker.facts : x.p = p}
        IN  /\ batch # {}
            /\ CreateEdges(worker.doc, batch)
            /\ worker' = [worker EXCEPT !.facts = @ \ batch]
    /\ UNCHANGED <<objects, records, entities, nodes>>

Finished ==
    /\ worker.pc = "edges"
    /\ worker.facts = {}
    /\ worker' = Idle
    /\ UNCHANGED storeVars

\* Wrong on purpose: the handler returns and the pipeline goes on.
DroppedButRunning ==
    /\ worker # Idle
    /\ UNCHANGED <<worker, storeVars>>

\* log-and-drop: an exception anywhere ends the job where it stands
Dropped ==
    /\ worker # Idle
    /\ worker' = Idle
    /\ UNCHANGED storeVars
=============================================================================
