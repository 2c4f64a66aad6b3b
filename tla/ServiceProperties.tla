-------------------------- MODULE ServiceProperties --------------------------
(***************************************************************************)
(* What the service promises.  The first group holds under every           *)
(* interleaving (Spec); the second needs an environment that never forgets *)
(* while a document is being processed (QuietSpec).                        *)
(***************************************************************************)
EXTENDS Service

(***************************************************************************)
(* Under every interleaving.                                               *)
(***************************************************************************)

\* The edges that carry a document's provenance always come from ONE of its texts, each
\* triple at most once: a redelivered trigger, a crash between two batches, or a new
\* text never duplicates or mixes them (delete_document_edges before write_triples).
EdgesOfOneText ==
    \A d \in Docs : \E t \in Texts : \A x \in Triples :
        edges[d][x] <= (IF x \in Facts[t] THEN 1 ELSE 0)

\* The trigger of the document being processed is the next one of the topic, and its
\* offset is not committed before the pipeline has returned: a crash delivers it again.
CrashRedelivers ==
    worker # Idle =>
        /\ committed <= position
        /\ Topic!HasNext
        /\ Topic!NextTrigger = worker.doc

(***************************************************************************)
(* When forgets and processing do not overlap.                             *)
(***************************************************************************)

\* An entity two stored documents link to is never removed, whichever of them is being
\* forgotten, by however many calls at once, and wherever those calls fail.
SharedEntitySurvives ==
    \A c, d \in Docs : c # d => Links(c) \cap Links(d) \subseteq entities

\* The graph stays grounded in the entity store: a node has its canonical entity.
GraphGrounded == nodes \subseteq entities

\* The record goes last: while anything of a document is left in the graph there is a
\* record, so a call that failed part-way can be repeated.
RecordGoesLast ==
    \A d \in Docs : records[d] = NoRecord => edges[d] = NoEdges

\* the document's record, entities, nodes and edges are what its bytes say
Current(d) ==
    /\ records[d] = EnrichedRecord(objects[d])
    /\ Mentions[objects[d]] \subseteq entities
    /\ GraphIds(Mentions[objects[d]]) \subseteq nodes
    /\ \A x \in Triples : edges[d][x] = (IF x \in Facts[objects[d]] THEN 1 ELSE 0)

\* a trigger for the document is still to be read, or is to be published
Awaited(d) ==
    \/ \E i \in position + 1 .. Len(log) :
        log[i] = d /\ (i = position + 1 => worker = Idle \/ worker.text = objects[d])
    \/ \E u \in Uploaders : uploader[u].pc = "publish" /\ uploader[u].doc = d

BeingForgotten(d) ==
    \E r \in Erasers : eraser[r].pc \in {"edges", "object"} /\ eraser[r].doc = d

\* No accepted bytes are lost: unless a failure hit the document, the stores agree with its
\* bytes, or a trigger that will make them agree is on its way, or it is being forgotten.
\* So "unchanged" is never the answer for bytes nobody will process.
NoUpdateLost ==
    \A d \in Docs :
        \/ objects[d] = NoText
        \/ d \in faulted
        \/ Current(d)
        \/ Awaited(d)
        \/ BeingForgotten(d)

\* A forget that runs to its end leaves none of the entities it read, in the index or
\* the graph, unless another stored document links to it.
ForgetSweeps ==
    [][\A r \in Erasers : EraseRecord(r) =>
        eraser[r].linked \cap (entities \cup nodes)
            \subseteq UNION {Links(d) : d \in Docs \ {eraser[r].doc}}]_vars

\* Once uploads and forgets stop, every document no failure hit is stored as its bytes say.
EventuallyCurrent ==
    <>[](\A d \in Docs : objects[d] = NoText \/ d \in faulted \/ Current(d))

(***************************************************************************)
(* What the repository says and the code does not keep.                    *)
(***************************************************************************)

\* no call is under way, no trigger waits, and nothing failed
Settled ==
    /\ \A u \in Uploaders : uploader[u] = Idle
    /\ \A r \in Erasers : eraser[r] = Idle
    /\ worker = Idle
    /\ position = Len(log)
    /\ faulted = {}

\* When every source is forgotten, no entity and no node is left.  It fails for one source
\* that was remembered with two texts in turn: the second record no longer names the
\* entities of the first, so no forget ever removes them.
NothingLeftBehind ==
    (Settled /\ \A d \in Docs : records[d] = NoRecord) => entities \cup nodes = {}
=============================================================================
