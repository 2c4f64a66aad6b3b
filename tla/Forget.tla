------------------------------- MODULE Forget -------------------------------
(***************************************************************************)
(* Orchestrator.delete_document, which DELETE /documents/{id} and          *)
(* POST /v1/forget run in their own request thread, at any time beside the *)
(* consumer and beside each other: one step per remote call.               *)
(***************************************************************************)
EXTENDS Stores

CONSTANT Erasers            \* request threads that may be inside delete_document

VARIABLE eraser

Erasure == [pc : {"edges", "object", "inuse", "nodes", "ents", "record"}, doc : Docs,
            linked : SUBSET Entities, orphans : SUBSET Entities]

ForgetTypeOK == eraser \in [Erasers -> {Idle} \cup Erasure]

ForgetInit == eraser = [r \in Erasers |-> Idle]

\* no record: the call answers "not found" and changes nothing
NotFound(r, d) ==
    /\ eraser[r] = Idle
    /\ records[d] = NoRecord
    /\ UNCHANGED <<eraser, storeVars>>

\* read the record; what it links to is remembered until the call ends
ReadRecord(r, d) ==
    /\ eraser[r] = Idle
    /\ records[d] # NoRecord
    /\ eraser' = [eraser EXCEPT ![r] =
                    [pc |-> "edges", doc |-> d, linked |-> Links(d), orphans |-> {}]]
    /\ UNCHANGED storeVars

\* Wrong on purpose: the document's edges stay in the graph.
SkipEdges(r) ==
    /\ eraser[r].pc = "edges"
    /\ eraser' = [eraser EXCEPT ![r].pc = "object"]
    /\ UNCHANGED storeVars

EraseEdges(r) ==
    /\ eraser[r].pc = "edges"
    /\ DeleteDocumentEdges(eraser[r].doc)
    /\ eraser' = [eraser EXCEPT ![r].pc = "object"]
    /\ UNCHANGED <<objects, records, entities, nodes>>

EraseObject(r) ==
    /\ eraser[r].pc = "object"
    /\ DeleteObject(eraser[r].doc)
    /\ eraser' = [eraser EXCEPT ![r].pc = "inuse"]
    /\ UNCHANGED <<records, entities, nodes, edges>>

\* Wrong on purpose: everything the document links to is taken for an orphan.
OrphanAll(r) ==
    /\ eraser[r].pc = "inuse"
    /\ eraser' = [eraser EXCEPT ![r].orphans = eraser[r].linked,
                                ![r].pc = IF eraser[r].linked = {} THEN "record" ELSE "nodes"]
    /\ UNCHANGED storeVars

FindOrphans(r) ==
    /\ eraser[r].pc = "inuse"
    /\ LET orphans == eraser[r].linked \ EntitiesInUse(eraser[r].linked, eraser[r].doc)
       IN  eraser' = [eraser EXCEPT ![r].orphans = orphans,
                                    ![r].pc = IF orphans = {} THEN "record" ELSE "nodes"]
    /\ UNCHANGED storeVars

\* Wrong on purpose: the orphans keep their nodes.
SkipNodes(r) ==
    /\ eraser[r].pc = "nodes"
    /\ eraser' = [eraser EXCEPT ![r].pc = "ents"]
    /\ UNCHANGED storeVars

EraseNodes(r) ==
    /\ eraser[r].pc = "nodes"
    /\ DeleteNodes(eraser[r].orphans)
    /\ eraser' = [eraser EXCEPT ![r].pc = "ents"]
    /\ UNCHANGED <<objects, records, entities>>

EraseEntity(r) ==
    /\ eraser[r].pc = "ents"
    /\ \E e \in eraser[r].orphans :
        /\ DeleteEntity(e)
        /\ eraser' = [eraser EXCEPT
                        ![r].orphans = @ \ {e},
                        ![r].pc = IF eraser[r].orphans = {e} THEN "record" ELSE "ents"]
    /\ UNCHANGED <<objects, records, nodes, edges>>

\* the record goes last
EraseRecord(r) ==
    /\ eraser[r].pc = "record"
    /\ DeleteRecord(eraser[r].doc)
    /\ eraser' = [eraser EXCEPT ![r] = Idle]
    /\ UNCHANGED <<objects, entities, nodes, edges>>

\* a call raised: the request ends with an error where it stands
AbortErase(r) ==
    /\ eraser[r] # Idle
    /\ eraser' = [eraser EXCEPT ![r] = Idle]
    /\ UNCHANGED storeVars
=============================================================================
