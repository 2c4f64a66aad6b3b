------------------------------- MODULE Upload -------------------------------
(***************************************************************************)
(* The remember path: `accept`, which POST /ingest and POST /v1/remember   *)
(* both end in.  Each request thread makes three remote calls, and may     *)
(* fail at any of them: look whether the key already holds these bytes,    *)
(* put them, publish the trigger.                                          *)
(***************************************************************************)
EXTENDS Stores

CONSTANT Uploaders          \* request threads that may be inside accept

VARIABLE uploader

Upload == [pc : {"put", "publish"}, doc : Docs, text : Texts]

UploadTypeOK == uploader \in [Uploaders -> {Idle} \cup Upload]

UploadInit == uploader = [u \in Uploaders |-> Idle]

\* not force and the store holds exactly these bytes: answer "unchanged", call nothing
Unchanged(u, d, t, force) ==
    /\ uploader[u] = Idle
    /\ ~force /\ Holds(d, t)
    /\ UNCHANGED <<uploader, storeVars>>

Accept(u, d, t, force) ==
    /\ uploader[u] = Idle
    /\ force \/ ~Holds(d, t)
    /\ uploader' = [uploader EXCEPT ![u] = [pc |-> "put", doc |-> d, text |-> t]]
    /\ UNCHANGED storeVars

Put(u) ==
    /\ uploader[u].pc = "put"
    /\ PutObject(uploader[u].doc, uploader[u].text)
    /\ uploader' = [uploader EXCEPT ![u].pc = "publish"]
    /\ UNCHANGED <<records, entities, nodes, edges>>

\* the request ends: the trigger was handed to the producer, or a call raised
EndUpload(u) ==
    /\ uploader[u] # Idle
    /\ uploader' = [uploader EXCEPT ![u] = Idle]
    /\ UNCHANGED storeVars
=============================================================================
