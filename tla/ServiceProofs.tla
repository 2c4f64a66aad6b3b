---------------------------- MODULE ServiceProofs ----------------------------
(***************************************************************************)
(* What is proved of the service, for every set of documents, texts,       *)
(* entities and request threads, and every bound.                          *)
(***************************************************************************)
EXTENDS ServiceProperties, TLAPS

(***************************************************************************)
(* Type correctness, one lemma per group of steps.                         *)
(***************************************************************************)

\* What the two checkpoints write is a record.
LEMMA CheckpointsWriteRecords ==
    ASSUME NEW t \in Texts
    PROVE  /\ RawRecord(t) \in Record /\ RawRecord(t) # NoRecord
           /\ EnrichedRecord(t) \in Record /\ EnrichedRecord(t) # NoRecord
<1>1. RawRecord(t) \in Record /\ EnrichedRecord(t) \in Record
  BY DataAssumption DEF RawRecord, EnrichedRecord, Record
<1>. QED
  BY <1>1, SentinelAssumption

\* Each store call leaves every store well formed.
LEMMA StoreCallsTyped ==
    ASSUME StoresTypeOK, NEW d \in Docs, NEW t \in Texts
    PROVE  /\ PutObject(d, t) => objects' \in [Docs -> Texts \cup {NoText}]
           /\ DeleteObject(d) => objects' \in [Docs -> Texts \cup {NoText}]
           /\ UpsertRecord(d, RawRecord(t)) => records' \in [Docs -> Record \cup {NoRecord}]
           /\ UpsertRecord(d, EnrichedRecord(t)) => records' \in [Docs -> Record \cup {NoRecord}]
           /\ DeleteRecord(d) => records' \in [Docs -> Record \cup {NoRecord}]
           /\ DeleteDocumentEdges(d) => edges' \in [Docs -> [Triples -> Nat]]
           /\ \A batch : CreateEdges(d, batch) => edges' \in [Docs -> [Triples -> Nat]]
           /\ \A ids : DeleteNodes(ids) => /\ edges' \in [Docs -> [Triples -> Nat]]
                                           /\ nodes' \in SUBSET Entities
<1>1. RawRecord(t) \in Record /\ EnrichedRecord(t) \in Record
  BY CheckpointsWriteRecords
<1>2. NoEdges \in [Triples -> Nat]
  BY DEF NoEdges
<1>3. \A batch : CreateEdges(d, batch) => edges' \in [Docs -> [Triples -> Nat]]
  BY DEF CreateEdges, StoresTypeOK
<1>4. \A ids : DeleteNodes(ids) => /\ edges' \in [Docs -> [Triples -> Nat]]
                                   /\ nodes' \in SUBSET Entities
  BY DEF DeleteNodes, StoresTypeOK
<1>. QED
  BY <1>1, <1>2, <1>3, <1>4
     DEF StoresTypeOK, PutObject, DeleteObject, UpsertRecord, DeleteRecord, DeleteDocumentEdges

\* The initial state is well typed.
LEMMA TypeInit == Init => TypeOK
BY DEF Init, TypeOK, StoresInit, StoresTypeOK, NoEdges, UploadInit, UploadTypeOK, WorkerInit,
       WorkerTypeOK, ForgetInit, ForgetTypeOK, Topic!LogInit, Topic!LogTypeOK

\* The topic stays well formed under each step of its consumer.
LEMMA TopicTyped ==
    ASSUME Topic!LogTypeOK,
           (Topic!Handled /\ Topic!HasNext) \/ Topic!Commit \/ Topic!Rewind
    PROVE  Topic!LogTypeOK'
<1>. USE DEF Topic!LogTypeOK
<1>1. CASE Topic!Handled /\ Topic!HasNext
  BY <1>1 DEF Topic!Handled, Topic!HasNext
<1>2. CASE Topic!Commit
  BY <1>2 DEF Topic!Commit
<1>3. CASE Topic!Rewind
  BY <1>3 DEF Topic!Rewind
<1>. QED
  BY <1>1, <1>2, <1>3

\* Each step of an upload keeps the stores and the threads well typed.
LEMMA UploadTyped ==
    ASSUME StoresTypeOK, UploadTypeOK, NEW u \in Uploaders, NEW d \in Docs, NEW t \in Texts,
           NEW force \in BOOLEAN,
           Accept(u, d, t, force) \/ Put(u) \/ EndUpload(u)
    PROVE  StoresTypeOK' /\ UploadTypeOK'
<1>. USE DEF UploadTypeOK, Upload
<1>1. CASE Accept(u, d, t, force)
  BY <1>1 DEF Accept, storeVars, StoresTypeOK
<1>2. CASE Put(u)
  <2>1. uploader[u] \in Upload
    BY <1>2 DEF Put, Idle
  <2>2. objects' \in [Docs -> Texts \cup {NoText}]
    BY <1>2, <2>1, StoreCallsTyped DEF Put
  <2>. QED
    BY <1>2, <2>1, <2>2 DEF Put, StoresTypeOK
<1>3. CASE EndUpload(u)
  BY <1>3 DEF EndUpload, storeVars, StoresTypeOK
<1>. QED
  BY <1>1, <1>2, <1>3

\* Each step of the pipeline keeps the stores and the worker well typed.
LEMMA WorkerTyped ==
    ASSUME StoresTypeOK, WorkerTypeOK, NEW d \in Docs,
           \/ ReadObject(d) \/ UpsertRaw \/ LinkEntity \/ UpsertEnriched
           \/ UpsertNodeBatch \/ DropOldEdges \/ WriteTripleBatch \/ Finished \/ Dropped
    PROVE  StoresTypeOK' /\ WorkerTypeOK'
<1>. USE DEF WorkerTypeOK, Job
<1>1. CASE ReadObject(d)
  BY <1>1 DEF ReadObject, storeVars, StoresTypeOK
<1>2. CASE UpsertRaw
  <2>1. worker \in Job
    BY <1>2 DEF UpsertRaw, Idle
  <2>2. records' \in [Docs -> Record \cup {NoRecord}]
    BY <1>2, <2>1, StoreCallsTyped DEF UpsertRaw
  <2>. QED
    BY <1>2, <2>1, <2>2, DataAssumption DEF UpsertRaw, StoresTypeOK
<1>3. CASE LinkEntity
  <2>1. worker \in Job
    BY <1>3 DEF LinkEntity, Idle
  <2>. QED
    BY <1>3, <2>1 DEF LinkEntity, UpsertEntity, StoresTypeOK
<1>4. CASE UpsertEnriched
  <2>1. worker \in Job
    BY <1>4 DEF UpsertEnriched, Idle
  <2>2. records' \in [Docs -> Record \cup {NoRecord}]
    BY <1>4, <2>1, StoreCallsTyped DEF UpsertEnriched
  <2>. QED
    BY <1>4, <2>1, <2>2, DataAssumption DEF UpsertEnriched, StoresTypeOK, GraphIds
<1>5. CASE UpsertNodeBatch
  <2>1. worker \in Job
    BY <1>5 DEF UpsertNodeBatch, Idle
  <2>. QED
    BY <1>5, <2>1 DEF UpsertNodeBatch, UpsertNodes, StoresTypeOK
<1>6. CASE DropOldEdges
  <2>1. worker \in Job
    BY <1>6 DEF DropOldEdges, Idle
  <2>2. edges' \in [Docs -> [Triples -> Nat]]
    BY <1>6, <2>1, StoreCallsTyped DEF DropOldEdges
  <2>. QED
    BY <1>6, <2>1, <2>2, DataAssumption DEF DropOldEdges, StoresTypeOK
<1>7. CASE WriteTripleBatch
  <2>1. worker \in Job
    BY <1>7 DEF WriteTripleBatch, Idle
  <2>2. edges' \in [Docs -> [Triples -> Nat]]
    BY <1>7, <2>1, StoreCallsTyped DEF WriteTripleBatch
  <2>. QED
    BY <1>7, <2>1, <2>2 DEF WriteTripleBatch, StoresTypeOK
<1>8. CASE Finished \/ Dropped
  BY <1>8 DEF Finished, Dropped, storeVars, StoresTypeOK
<1>. QED
  BY <1>1, <1>2, <1>3, <1>4, <1>5, <1>6, <1>7, <1>8

\* Each step of a forget keeps the stores and the request threads well typed.
LEMMA ForgetTyped ==
    ASSUME StoresTypeOK, ForgetTypeOK, NEW r \in Erasers, NEW d \in Docs,
           \/ ReadRecord(r, d) \/ EraseEdges(r) \/ EraseObject(r) \/ FindOrphans(r)
           \/ EraseNodes(r) \/ EraseEntity(r) \/ EraseRecord(r) \/ AbortErase(r)
    PROVE  StoresTypeOK' /\ ForgetTypeOK'
<1>. USE DEF ForgetTypeOK, Erasure
<1>1. CASE ReadRecord(r, d)
  <2>1. Links(d) \subseteq Entities
    BY <1>1 DEF ReadRecord, Links, StoresTypeOK, Record
  <2>. QED
    BY <1>1, <2>1 DEF ReadRecord, storeVars, StoresTypeOK
<1>2. CASE EraseEdges(r)
  <2>1. eraser[r] \in Erasure
    BY <1>2 DEF EraseEdges, Idle
  <2>2. edges' \in [Docs -> [Triples -> Nat]]
    BY <1>2, <2>1 DEF EraseEdges, DeleteDocumentEdges, NoEdges, StoresTypeOK
  <2>. QED
    BY <1>2, <2>1, <2>2 DEF EraseEdges, StoresTypeOK
<1>3. CASE EraseObject(r)
  <2>1. eraser[r] \in Erasure
    BY <1>3 DEF EraseObject, Idle
  <2>. QED
    BY <1>3, <2>1 DEF EraseObject, DeleteObject, StoresTypeOK
<1>4. CASE FindOrphans(r)
  <2>1. eraser[r] \in Erasure
    BY <1>4 DEF FindOrphans, Idle
  <2>. QED
    BY <1>4, <2>1 DEF FindOrphans, storeVars, StoresTypeOK
<1>5. CASE EraseNodes(r)
  <2>1. eraser[r] \in Erasure
    BY <1>5 DEF EraseNodes, Idle
  <2>2. edges' \in [Docs -> [Triples -> Nat]] /\ nodes' \in SUBSET Entities
    BY <1>5 DEF EraseNodes, DeleteNodes, StoresTypeOK
  <2>. QED
    BY <1>5, <2>1, <2>2 DEF EraseNodes, StoresTypeOK
<1>6. CASE EraseEntity(r)
  <2>1. eraser[r] \in Erasure
    <3>1. eraser[r].pc = "ents"
      BY <1>6 DEF EraseEntity
    <3>. QED
      BY <3>1 DEF Idle
  <2>2. PICK e \in eraser[r].orphans :
           /\ DeleteEntity(e)
           /\ eraser' = [eraser EXCEPT
                ![r].orphans = @ \ {e},
                ![r].pc = IF eraser[r].orphans = {e} THEN "record" ELSE "ents"]
    BY <1>6 DEF EraseEntity
  <2>3. eraser' \in [Erasers -> {Idle} \cup Erasure]
    BY <2>1, <2>2
  <2>. QED
    BY <1>6, <2>2, <2>3 DEF EraseEntity, DeleteEntity, StoresTypeOK
<1>7. CASE EraseRecord(r)
  <2>1. eraser[r] \in Erasure
    BY <1>7 DEF EraseRecord, Idle
  <2>. QED
    BY <1>7, <2>1 DEF EraseRecord, DeleteRecord, StoresTypeOK
<1>8. CASE AbortErase(r)
  BY <1>8 DEF AbortErase, storeVars, StoresTypeOK
<1>. QED
  BY <1>1, <1>2, <1>3, <1>4, <1>5, <1>6, <1>7, <1>8

\* Every step of the service, or none, keeps TypeOK.  A trigger is handled only while the
\* topic has one, which is what CrashRedelivers says of the consumer.
LEMMA TypeStep == TypeOK /\ CrashRedelivers /\ [Next]_vars => TypeOK'
<1>. SUFFICES ASSUME TypeOK, CrashRedelivers, [Next]_vars PROVE TypeOK'
  OBVIOUS
<1>. USE DEF TypeOK, topicVars
<1>1. ASSUME NEW u \in Uploaders, NEW d \in Docs, NEW t \in Texts, NEW force \in BOOLEAN,
             Remember(u, d, t, force)
      PROVE  TypeOK'
  <2>1. StoresTypeOK' /\ UploadTypeOK'
    BY <1>1, UploadTyped DEF Remember
  <2>. QED
    BY <1>1, <2>1 DEF Remember, WorkerTypeOK, ForgetTypeOK, Topic!LogTypeOK
<1>2. ASSUME NEW u \in Uploaders, NEW d \in Docs, NEW t \in Texts, RememberUnchanged(u, d, t)
      PROVE  TypeOK'
  BY <1>2 DEF RememberUnchanged, Unchanged, NoFault, storeVars, StoresTypeOK, UploadTypeOK,
              WorkerTypeOK, ForgetTypeOK, Topic!LogTypeOK
<1>3. ASSUME NEW u \in Uploaders, StoreBytes(u)
      PROVE  TypeOK'
  <2>1. uploader[u] \in Upload
    BY <1>3 DEF StoreBytes, Put, UploadTypeOK, Idle
  <2>2. StoresTypeOK' /\ UploadTypeOK'
    BY <1>3, <2>1, UploadTyped DEF StoreBytes, Upload
  <2>. QED
    BY <1>3, <2>2 DEF StoreBytes, WorkerTypeOK, ForgetTypeOK, Topic!LogTypeOK
<1>4. ASSUME NEW u \in Uploaders, Publish(u)
      PROVE  TypeOK'
  <2>1. uploader[u].doc \in Docs /\ uploader[u].text \in Texts
    BY <1>4 DEF Publish, UploadTypeOK, Upload, Idle
  <2>2. StoresTypeOK' /\ UploadTypeOK'
    BY <1>4, <2>1, UploadTyped DEF Publish
  <2>3. Topic!LogTypeOK'
    BY <1>4, <2>1 DEF Publish, Topic!Send, Topic!LogTypeOK
  <2>. QED
    BY <1>4, <2>2, <2>3 DEF Publish, NoFault, WorkerTypeOK, ForgetTypeOK
<1>5. ASSUME NEW u \in Uploaders, UploadFails(u)
      PROVE  TypeOK'
  <2>1. uploader[u].doc \in Docs /\ uploader[u].text \in Texts
    BY <1>5 DEF UploadFails, EndUpload, UploadTypeOK, Upload, Idle
  <2>2. StoresTypeOK' /\ UploadTypeOK'
    BY <1>5, <2>1, UploadTyped DEF UploadFails
  <2>3. faulted' \in SUBSET Docs /\ spent' \in [accepts : Nat, forgets : Nat, faults : Nat]
    BY <1>5, <2>1 DEF UploadFails, Fault
  <2>. QED
    BY <1>5, <2>2, <2>3 DEF UploadFails, WorkerTypeOK, ForgetTypeOK, Topic!LogTypeOK
<1>6. CASE Deliver
  <2>1. Topic!NextTrigger \in Docs
    BY <1>6 DEF Deliver, Topic!NextTrigger, Topic!HasNext, Topic!LogTypeOK
  <2>2. StoresTypeOK' /\ WorkerTypeOK'
    BY <1>6, <2>1, WorkerTyped DEF Deliver
  <2>. QED
    BY <1>6, <2>2 DEF Deliver, NoFault, UploadTypeOK, ForgetTypeOK, Topic!LogTypeOK
<1>7. CASE SkipMissing
  <2>1. Topic!NextTrigger \in Docs
    BY <1>7 DEF SkipMissing, Topic!NextTrigger, Topic!HasNext, Topic!LogTypeOK
  <2>2. Topic!LogTypeOK'
    BY <1>7, <2>1, TopicTyped DEF SkipMissing
  <2>. QED
    BY <1>7, <2>2 DEF SkipMissing, MissingObject, NoFault, storeVars, StoresTypeOK, UploadTypeOK,
                      WorkerTypeOK, ForgetTypeOK
<1>8. CASE DropUnread
  <2>1. Topic!NextTrigger \in Docs
    BY <1>8 DEF DropUnread, Topic!NextTrigger, Topic!HasNext, Topic!LogTypeOK
  <2>2. Topic!LogTypeOK'
    BY <1>8, <2>1, TopicTyped DEF DropUnread
  <2>3. faulted' \in SUBSET Docs /\ spent' \in [accepts : Nat, forgets : Nat, faults : Nat]
    BY <1>8, <2>1 DEF DropUnread, Fault
  <2>. QED
    BY <1>8, <2>2, <2>3 DEF DropUnread, storeVars, threadVars, StoresTypeOK, UploadTypeOK,
                            WorkerTypeOK, ForgetTypeOK
<1>9. CASE WorkerStep
  <2>1. worker.doc \in Docs
    <3>1. worker.pc # "idle"
      BY <1>9 DEF WorkerStep, UpsertRaw, LinkEntity, UpsertEnriched, UpsertNodeBatch,
                  DropOldEdges, WriteTripleBatch
    <3>. QED
      BY <3>1 DEF WorkerTypeOK, Job, Idle
  <2>2. StoresTypeOK' /\ WorkerTypeOK'
    BY <1>9, <2>1, WorkerTyped DEF WorkerStep
  <2>. QED
    BY <1>9, <2>2 DEF WorkerStep, NoFault, UploadTypeOK, ForgetTypeOK, Topic!LogTypeOK
<1>10. CASE Finish \/ Drop
  <2>1. worker \in Job
    BY <1>10 DEF Finish, Finished, Drop, Dropped, WorkerTypeOK, Idle
  <2>2. worker.doc \in Docs
    BY <2>1 DEF Job
  <2>3. StoresTypeOK' /\ WorkerTypeOK'
    BY <1>10, <2>2, WorkerTyped DEF Finish, Drop
  <2>4. Topic!LogTypeOK'
    <3>1. Topic!HasNext
      BY <2>1 DEF CrashRedelivers, Job, Idle
    <3>. QED
      BY <1>10, <2>2, <3>1, TopicTyped DEF Finish, Drop
  <2>5. faulted' \in SUBSET Docs /\ spent' \in [accepts : Nat, forgets : Nat, faults : Nat]
    BY <1>10, <2>2 DEF Finish, Drop, Fault, NoFault
  <2>. QED
    BY <1>10, <2>3, <2>4, <2>5 DEF Finish, Drop, UploadTypeOK, ForgetTypeOK
<1>11. CASE CommitOffset \/ Rebalance
  <2>1. Topic!LogTypeOK'
    BY <1>11 DEF CommitOffset, Rebalance, Topic!Commit, Topic!Rewind, Topic!LogTypeOK
  <2>2. faulted' \in SUBSET Docs /\ spent' \in [accepts : Nat, forgets : Nat, faults : Nat]
    BY <1>11 DEF CommitOffset, Rebalance, Fault, NoFault
  <2>. QED
    BY <1>11, <2>1, <2>2 DEF CommitOffset, Rebalance, storeVars, threadVars, StoresTypeOK,
                             UploadTypeOK, WorkerTypeOK, ForgetTypeOK
<1>12. ASSUME NEW r \in Erasers, NEW d \in Docs, StartForget(r, d)
       PROVE  TypeOK'
  <2>1. StoresTypeOK' /\ ForgetTypeOK'
    BY <1>12, ForgetTyped DEF StartForget
  <2>. QED
    BY <1>12, <2>1 DEF StartForget, UploadTypeOK, WorkerTypeOK, Topic!LogTypeOK
<1>13. ASSUME NEW r \in Erasers, NEW d \in Docs, ForgetNotFound(r, d)
       PROVE  TypeOK'
  BY <1>13 DEF ForgetNotFound, NotFound, NoFault, storeVars, StoresTypeOK, UploadTypeOK,
               WorkerTypeOK, ForgetTypeOK, Topic!LogTypeOK
<1>14. ASSUME NEW r \in Erasers, EraserStep(r)
       PROVE  TypeOK'
  <2>1. eraser[r].doc \in Docs
    <3>1. eraser[r].pc # "idle"
      BY <1>14 DEF EraserStep, EraseEdges, EraseObject, FindOrphans, EraseNodes, EraseEntity,
                   EraseRecord
    <3>. QED
      BY <3>1 DEF ForgetTypeOK, Erasure, Idle
  <2>2. StoresTypeOK' /\ ForgetTypeOK'
    BY <1>14, <2>1, ForgetTyped DEF EraserStep
  <2>. QED
    BY <1>14, <2>2 DEF EraserStep, NoFault, UploadTypeOK, WorkerTypeOK, Topic!LogTypeOK
<1>15. ASSUME NEW r \in Erasers, ForgetFails(r)
       PROVE  TypeOK'
  <2>1. eraser[r].doc \in Docs
    BY <1>15 DEF ForgetFails, AbortErase, ForgetTypeOK, Erasure
  <2>2. StoresTypeOK' /\ ForgetTypeOK'
    BY <1>15, <2>1, ForgetTyped DEF ForgetFails
  <2>3. faulted' \in SUBSET Docs /\ spent' \in [accepts : Nat, forgets : Nat, faults : Nat]
    BY <1>15, <2>1 DEF ForgetFails, Fault
  <2>. QED
    BY <1>15, <2>2, <2>3 DEF ForgetFails, UploadTypeOK, WorkerTypeOK, Topic!LogTypeOK
<1>16. CASE Crash
  <2>1. Topic!LogTypeOK'
    BY <1>16 DEF Crash, Topic!Rewind, Topic!LogTypeOK
  <2>2. \A u \in Uploaders : uploader[u].pc = "publish" => uploader[u].doc \in Docs
    BY DEF UploadTypeOK, Upload, Idle
  <2>3. \A r \in Erasers : eraser[r] # Idle => eraser[r].doc \in Docs
    BY DEF ForgetTypeOK, Erasure
  <2>4. faulted' \in SUBSET Docs /\ spent' \in [accepts : Nat, forgets : Nat, faults : Nat]
    BY <1>16, <2>2, <2>3 DEF Crash, Fault
  <2>. QED
    BY <1>16, <2>1, <2>4 DEF Crash, storeVars, StoresTypeOK, UploadTypeOK, WorkerTypeOK,
                             ForgetTypeOK
<1>17. CASE UNCHANGED vars
  BY <1>17 DEF vars, storeVars, threadVars, StoresTypeOK, UploadTypeOK, WorkerTypeOK,
               ForgetTypeOK, Topic!LogTypeOK
<1>. QED
  BY <1>1, <1>2, <1>3, <1>4, <1>5, <1>6, <1>7, <1>8, <1>9, <1>10, <1>11, <1>12, <1>13, <1>14,
     <1>15, <1>16, <1>17 DEF Next

(***************************************************************************)
(* The consumer: which steps leave it and its topic alone.                 *)
(***************************************************************************)

\* A step of a request thread changes neither the consumer's position nor its job, and
\* the topic only at its end.
LEMMA RequestsLeaveConsumer ==
    ASSUME TypeOK, Next,
           ~(Deliver \/ SkipMissing \/ DropUnread \/ WorkerStep \/ Finish \/ Drop
             \/ CommitOffset \/ Rebalance \/ Crash)
    PROVE  /\ worker' = worker /\ position' = position /\ committed' = committed
           /\ log' = log \/ \E d \in Docs : log' = Append(log, d)
<1>. USE DEF topicVars
<1>1. ASSUME NEW u \in Uploaders, NEW d \in Docs, NEW t \in Texts,
             \/ \E force \in BOOLEAN : Remember(u, d, t, force)
             \/ RememberUnchanged(u, d, t)
      PROVE  worker' = worker /\ UNCHANGED topicVars
  BY <1>1 DEF Remember, RememberUnchanged
<1>2. ASSUME NEW u \in Uploaders, StoreBytes(u) \/ UploadFails(u)
      PROVE  worker' = worker /\ UNCHANGED topicVars
  BY <1>2 DEF StoreBytes, UploadFails
<1>3. ASSUME NEW u \in Uploaders, Publish(u)
      PROVE  /\ worker' = worker /\ position' = position /\ committed' = committed
             /\ \E d \in Docs : log' = Append(log, d)
  <2>1. uploader[u].doc \in Docs
    BY <1>3 DEF Publish, TypeOK, UploadTypeOK, Upload, Idle
  <2>. QED
    BY <1>3, <2>1 DEF Publish, Topic!Send
<1>4. ASSUME NEW r \in Erasers, NEW d \in Docs, StartForget(r, d) \/ ForgetNotFound(r, d)
      PROVE  worker' = worker /\ UNCHANGED topicVars
  BY <1>4 DEF StartForget, ForgetNotFound
<1>5. ASSUME NEW r \in Erasers, EraserStep(r) \/ ForgetFails(r)
      PROVE  worker' = worker /\ UNCHANGED topicVars
  BY <1>5 DEF EraserStep, ForgetFails
<1>. QED
  BY <1>1, <1>2, <1>3, <1>4, <1>5 DEF Next

\* A pipeline step goes on with the document it is at.
LEMMA StepsStayOnDocument ==
    ASSUME WorkerTypeOK,
           \/ UpsertRaw \/ LinkEntity \/ UpsertEnriched
           \/ UpsertNodeBatch \/ DropOldEdges \/ WriteTripleBatch
    PROVE  worker \in Job /\ worker'.doc = worker.doc /\ worker'.text = worker.text
<1>1. worker \in Job
  BY DEF UpsertRaw, LinkEntity, UpsertEnriched, UpsertNodeBatch, DropOldEdges, WriteTripleBatch,
         WorkerTypeOK, Idle
<1>2. CASE UpsertRaw
  BY <1>1, <1>2 DEF UpsertRaw, Job
<1>3. CASE LinkEntity
  BY <1>1, <1>3 DEF LinkEntity, Job
<1>4. CASE UpsertEnriched
  BY <1>1, <1>4 DEF UpsertEnriched, Job
<1>5. CASE UpsertNodeBatch
  BY <1>1, <1>5 DEF UpsertNodeBatch, Job
<1>6. CASE DropOldEdges
  BY <1>1, <1>6 DEF DropOldEdges, Job
<1>7. CASE WriteTripleBatch
  BY <1>1, <1>7 DEF WriteTripleBatch, Job
<1>. QED
  BY <1>1, <1>2, <1>3, <1>4, <1>5, <1>6, <1>7

\* Every step keeps CrashRedelivers.
LEMMA RedeliverStep == TypeOK /\ CrashRedelivers /\ [Next]_vars => CrashRedelivers'
<1>. SUFFICES ASSUME TypeOK, CrashRedelivers, [Next]_vars, worker' # Idle
              PROVE  /\ committed' <= position'
                     /\ Topic!HasNext'
                     /\ Topic!NextTrigger' = worker'.doc
  BY DEF CrashRedelivers
<1>. USE DEF Topic!HasNext, Topic!NextTrigger, TypeOK, Topic!LogTypeOK
<1>1. CASE Deliver
  BY <1>1 DEF Deliver, ReadObject, topicVars
<1>2. CASE WorkerStep
  <2>1. worker \in Job /\ worker'.doc = worker.doc
    BY <1>2, StepsStayOnDocument DEF WorkerStep
  <2>. QED
    BY <1>2, <2>1 DEF WorkerStep, topicVars, CrashRedelivers, Job, Idle
<1>3. CASE SkipMissing \/ DropUnread \/ Finish \/ Drop \/ CommitOffset \/ Rebalance \/ Crash
  BY <1>3 DEF SkipMissing, MissingObject, DropUnread, threadVars, Finish, Finished, Drop, Dropped,
              CommitOffset, Rebalance, Crash
<1>4. CASE /\ Next
           /\ ~(Deliver \/ SkipMissing \/ DropUnread \/ WorkerStep \/ Finish \/ Drop
                \/ CommitOffset \/ Rebalance \/ Crash)
  <2>1. worker' = worker /\ position' = position /\ committed' = committed
    BY <1>4, RequestsLeaveConsumer
  <2>2. log' = log \/ \E d \in Docs : log' = Append(log, d)
    BY <1>4, RequestsLeaveConsumer
  <2>3. log \in Seq(Docs) /\ position \in Nat /\ position < Len(log)
    BY <2>1 DEF CrashRedelivers
  <2>4. position' < Len(log') /\ log'[position' + 1] = log[position + 1]
    BY <2>1, <2>2, <2>3
  <2>. QED
    BY <2>1, <2>4 DEF CrashRedelivers
<1>5. CASE UNCHANGED vars
  BY <1>5 DEF vars, threadVars, topicVars, CrashRedelivers
<1>. QED
  BY <1>1, <1>2, <1>3, <1>4, <1>5

(***************************************************************************)
(* The first theorems: the types, and at-least-once processing.            *)
(***************************************************************************)

\* Every reachable state is well typed and redelivers what a crash interrupts.
LEMMA ConsumerInvariant == Spec => [](TypeOK /\ CrashRedelivers)
<1>1. Init => TypeOK /\ CrashRedelivers
  BY TypeInit DEF Init, WorkerInit, CrashRedelivers
<1>2. TypeOK /\ CrashRedelivers /\ [Next]_vars => (TypeOK /\ CrashRedelivers)'
  BY TypeStep, RedeliverStep
<1>. QED
  BY <1>1, <1>2, PTL DEF Spec

\* The state of the stores, the threads and the topic is always well formed: whatever
\* fails or interleaves, the consumer's position stays between the committed offset and
\* the end of the topic, and the edge counts stay counts.
THEOREM TypeCorrect == Spec => []TypeOK
BY ConsumerInvariant, PTL

\* A trigger is committed only after the pipeline has returned from it, so a crash or a
\* rebalance delivers an unfinished document again (process_document runs inside the poll
\* loop; the next poll commits).
THEOREM AtLeastOnce == Spec => []CrashRedelivers
BY ConsumerInvariant, PTL

(***************************************************************************)
(* The edges of the graph, under every interleaving.                       *)
(***************************************************************************)

\* Between the delete and the last batch, the edges of the document being written are the
\* triples already written, each once: the strengthening of EdgesOfOneText.
WrittenOnce ==
    worker.pc = "edges" =>
        /\ worker.facts \subseteq Facts[worker.text]
        /\ \A x \in Triples :
            edges[worker.doc][x] <= (IF x \in Facts[worker.text] \ worker.facts THEN 1 ELSE 0)

\* Only the steps of the pipeline and of a forget change the records, the entities or the graph.
LEMMA OthersLeaveStores ==
    ASSUME [Next]_vars, ~WorkerStep, ~\E r \in Erasers : EraserStep(r)
    PROVE  UNCHANGED <<records, entities, nodes, edges>>
<1>. USE DEF storeVars
<1>1. ASSUME NEW u \in Uploaders, NEW d \in Docs, NEW t \in Texts,
             \/ \E force \in BOOLEAN : Remember(u, d, t, force)
             \/ RememberUnchanged(u, d, t)
      PROVE  UNCHANGED <<records, entities, nodes, edges>>
  BY <1>1 DEF Remember, Accept, RememberUnchanged, Unchanged
<1>2. ASSUME NEW u \in Uploaders, StoreBytes(u) \/ Publish(u) \/ UploadFails(u)
      PROVE  UNCHANGED <<records, entities, nodes, edges>>
  BY <1>2 DEF StoreBytes, Put, Publish, UploadFails, EndUpload
<1>3. CASE Deliver \/ SkipMissing \/ DropUnread \/ Finish \/ Drop \/ CommitOffset \/ Rebalance
           \/ Crash \/ UNCHANGED vars
  BY <1>3 DEF Deliver, ReadObject, SkipMissing, MissingObject, DropUnread, Finish, Finished,
              Drop, Dropped, CommitOffset, Rebalance, Crash, vars
<1>4. ASSUME NEW r \in Erasers, NEW d \in Docs, StartForget(r, d) \/ ForgetNotFound(r, d)
      PROVE  UNCHANGED <<records, entities, nodes, edges>>
  BY <1>4 DEF StartForget, ReadRecord, ForgetNotFound, NotFound
<1>5. ASSUME NEW r \in Erasers, ForgetFails(r)
      PROVE  UNCHANGED <<records, entities, nodes, edges>>
  BY <1>5 DEF ForgetFails, AbortErase
<1>. QED
  BY <1>1, <1>2, <1>3, <1>4, <1>5 DEF Next

\* Only write_triples adds an edge.
LEMMA EdgesShrink ==
    ASSUME TypeOK, [Next]_vars, ~WriteTripleBatch
    PROVE  \A d \in Docs, x \in Triples : edges'[d][x] <= edges[d][x]
<1>. USE DEF TypeOK, StoresTypeOK
<1>1. edges \in [Docs -> [Triples -> Nat]]
  OBVIOUS
<1>2. CASE edges' = edges
  BY <1>1, <1>2
<1>3. ASSUME NEW d \in Docs, DeleteDocumentEdges(d)
      PROVE  \A c \in Docs, x \in Triples : edges'[c][x] <= edges[c][x]
  BY <1>1, <1>3 DEF DeleteDocumentEdges, NoEdges
<1>4. ASSUME NEW ids, DeleteNodes(ids)
      PROVE  \A c \in Docs, x \in Triples : edges'[c][x] <= edges[c][x]
  BY <1>1, <1>4 DEF DeleteNodes
<1>5. CASE DropOldEdges
  <2>1. worker.doc \in Docs
    BY <1>5, StepsStayOnDocument DEF Job
  <2>. QED
    BY <1>3, <1>5, <2>1 DEF DropOldEdges
<1>6. ASSUME NEW r \in Erasers, EraseEdges(r)
      PROVE  \A c \in Docs, x \in Triples : edges'[c][x] <= edges[c][x]
  <2>1. eraser[r].doc \in Docs
    BY <1>6 DEF EraseEdges, ForgetTypeOK, Erasure, Idle
  <2>. QED
    BY <1>3, <1>6, <2>1 DEF EraseEdges
<1>7. ASSUME NEW r \in Erasers, EraseNodes(r)
      PROVE  \A c \in Docs, x \in Triples : edges'[c][x] <= edges[c][x]
  BY <1>4, <1>7 DEF EraseNodes
<1>8. DropOldEdges \/ (\E r \in Erasers : EraseEdges(r) \/ EraseNodes(r)) \/ edges' = edges
  <2>1. CASE WorkerStep
    BY <2>1 DEF WorkerStep, UpsertRaw, LinkEntity, UpsertEnriched, UpsertNodeBatch
  <2>2. ASSUME NEW r \in Erasers, EraserStep(r)
        PROVE  EraseEdges(r) \/ EraseNodes(r) \/ edges' = edges
    BY <2>2 DEF EraserStep, EraseObject, FindOrphans, EraseEntity, EraseRecord, storeVars
  <2>. QED
    BY <2>1, <2>2, OthersLeaveStores
<1>. QED
  BY <1>2, <1>5, <1>6, <1>7, <1>8

\* Only a pipeline step leads to the writing of triples.
LEMMA OthersDoNotWrite ==
    ASSUME TypeOK, [Next]_vars, ~WorkerStep
    PROVE  worker' = worker \/ worker'.pc \in {"idle", "raw"}
<1>1. CASE Deliver \/ SkipMissing \/ DropUnread \/ Finish \/ Drop \/ CommitOffset \/ Rebalance
           \/ Crash \/ UNCHANGED vars
  BY <1>1 DEF Deliver, ReadObject, SkipMissing, MissingObject, DropUnread, Finish, Finished,
              Drop, Dropped, CommitOffset, Rebalance, Crash, vars, threadVars, Idle
<1>2. CASE Next /\ ~(Deliver \/ SkipMissing \/ DropUnread \/ WorkerStep \/ Finish \/ Drop
                     \/ CommitOffset \/ Rebalance \/ Crash)
  BY <1>2, RequestsLeaveConsumer
<1>. QED
  BY <1>1, <1>2

\* Writing one batch adds each of its triples once to edges that had none of them.
LEMMA BatchWrittenOnce ==
    ASSUME TypeOK, EdgesOfOneText, WrittenOnce, WriteTripleBatch
    PROVE  EdgesOfOneText' /\ WrittenOnce'
<1>. USE DEF TypeOK, StoresTypeOK
<1>. DEFINE d == worker.doc
            t == worker.text
<1>1. worker \in Job /\ d \in Docs /\ t \in Texts /\ worker.pc = "edges"
  BY StepsStayOnDocument DEF WriteTripleBatch, Job
<1>2. PICK p \in Predicates :
         LET batch == {x \in worker.facts : x.p = p}
         IN  /\ CreateEdges(d, batch)
             /\ worker' = [worker EXCEPT !.facts = @ \ batch]
  BY DEF WriteTripleBatch
<1>. DEFINE batch == {x \in worker.facts : x.p = p}
<1>3. /\ CreateEdges(d, batch)
      /\ worker'.pc = "edges" /\ worker'.doc = d /\ worker'.text = t
      /\ worker'.facts = worker.facts \ batch
  BY <1>1, <1>2 DEF Job
<1>4. /\ worker.facts \subseteq Facts[t]
      /\ \A x \in Triples : edges[d][x] <= (IF x \in Facts[t] \ worker.facts THEN 1 ELSE 0)
  BY <1>1 DEF WrittenOnce
<1>5. edges \in [Docs -> [Triples -> Nat]]
  OBVIOUS
<1>6. \A x \in Triples : edges'[d][x] <= (IF x \in Facts[t] \ worker'.facts THEN 1 ELSE 0)
  <2>1. TAKE x \in Triples
  <2>2. edges'[d][x] = IF x \in batch /\ {x.s, x.o} \subseteq nodes THEN edges[d][x] + 1
                                                                    ELSE edges[d][x]
    BY <1>1, <1>3, <1>5 DEF CreateEdges
  <2>3. edges[d][x] \in Nat
    BY <1>1, <1>5
  <2>4. edges[d][x] <= (IF x \in Facts[t] \ worker.facts THEN 1 ELSE 0)
    BY <1>4
  <2>5. CASE x \in batch
    <3>1. edges[d][x] = 0 /\ x \in Facts[t] \ worker'.facts
      BY <1>3, <1>4, <2>3, <2>4, <2>5
    <3>. QED
      BY <2>2, <3>1
  <2>6. CASE x \notin batch
    <3>1. edges'[d][x] = edges[d][x]
      BY <2>2, <2>6
    <3>. QED
      BY <1>3, <2>3, <2>4, <2>6, <3>1
  <2>. QED
    BY <2>5, <2>6
<1>7. \A c \in Docs \ {d} : edges'[c] = edges[c]
  BY <1>3, <1>5 DEF CreateEdges
<1>8. WrittenOnce'
  BY <1>3, <1>4, <1>6 DEF WrittenOnce
<1>9. EdgesOfOneText'
  <2>1. ASSUME NEW c \in Docs
        PROVE  \E y \in Texts : \A x \in Triples :
                  edges'[c][x] <= (IF x \in Facts[y] THEN 1 ELSE 0)
    <3>1. CASE c = d
      <4>1. \A x \in Triples : edges'[c][x] \in Nat
        BY <1>3, <1>5 DEF CreateEdges
      <4>2. \A x \in Triples : edges'[c][x] <= (IF x \in Facts[t] THEN 1 ELSE 0)
        BY <1>6, <3>1, <4>1
      <4>. QED
        BY <1>1, <4>2
    <3>2. CASE c # d
      BY <1>7, <3>2 DEF EdgesOfOneText
    <3>. QED
      BY <3>1, <3>2
  <2>. QED
    BY <2>1 DEF EdgesOfOneText
<1>. QED
  BY <1>8, <1>9

\* Every step keeps EdgesOfOneText and its strengthening.
LEMMA OneTextStep ==
    TypeOK /\ TypeOK' /\ EdgesOfOneText /\ WrittenOnce /\ [Next]_vars
        => EdgesOfOneText' /\ WrittenOnce'
<1>. SUFFICES ASSUME TypeOK, TypeOK', EdgesOfOneText, WrittenOnce, [Next]_vars
              PROVE  EdgesOfOneText' /\ WrittenOnce'
  OBVIOUS
<1>. USE DEF TypeOK, StoresTypeOK
<1>1. CASE WriteTripleBatch
  BY <1>1, BatchWrittenOnce
<1>2. CASE ~WriteTripleBatch
  <2>1. \A d \in Docs, x \in Triples : edges'[d][x] <= edges[d][x]
    BY <1>2, EdgesShrink
  <2>2. \A d \in Docs, x \in Triples : edges[d][x] \in Nat /\ edges'[d][x] \in Nat
    OBVIOUS
  <2>4. EdgesOfOneText'
    <3>1. ASSUME NEW d \in Docs
          PROVE  \E t \in Texts : \A x \in Triples :
                    edges'[d][x] <= (IF x \in Facts[t] THEN 1 ELSE 0)
      <4>1. PICK t \in Texts : \A x \in Triples :
                    edges[d][x] <= (IF x \in Facts[t] THEN 1 ELSE 0)
        BY DEF EdgesOfOneText
      <4>2. \A x \in Triples : edges'[d][x] <= (IF x \in Facts[t] THEN 1 ELSE 0)
        BY <2>1, <2>2, <4>1
      <4>. QED
        BY <4>2
    <3>. QED
      BY <3>1 DEF EdgesOfOneText
  <2>5. WrittenOnce'
    <3>1. CASE DropOldEdges
      <4>1. worker \in Job /\ worker.doc \in Docs
        BY <3>1, StepsStayOnDocument DEF Job
      <4>2. \A x \in Triples : edges'[worker.doc][x] = 0
        BY <3>1, <4>1 DEF DropOldEdges, DeleteDocumentEdges, NoEdges
      <4>3. /\ worker'.doc = worker.doc
            /\ worker'.facts = Facts[worker.text] /\ worker'.text = worker.text
        BY <3>1, <4>1 DEF DropOldEdges, Job
      <4>. QED
        BY <4>2, <4>3 DEF WrittenOnce
    <3>2. CASE WorkerStep /\ ~DropOldEdges
      BY <1>2, <3>2 DEF WorkerStep, UpsertRaw, LinkEntity, UpsertEnriched, UpsertNodeBatch,
                        WrittenOnce, WorkerTypeOK, Job, Idle
    <3>3. CASE ~WorkerStep
      <4>1. worker' = worker \/ worker'.pc \in {"idle", "raw"}
        BY <3>3, OthersDoNotWrite
      <4>2. CASE worker' = worker /\ worker.pc = "edges"
        <5>1. worker.doc \in Docs
          BY <4>2 DEF WorkerTypeOK, Job, Idle
        <5>. QED
          BY <2>1, <2>2, <4>2, <5>1 DEF WrittenOnce
      <4>3. CASE worker'.pc # "edges"
        BY <4>3 DEF WrittenOnce
      <4>. QED
        BY <4>1, <4>2, <4>3
    <3>. QED
      BY <3>1, <3>2, <3>3
  <2>. QED
    BY <2>4, <2>5
<1>. QED
  BY <1>1, <1>2

\* Whatever interleaves, fails or is delivered twice, the edges of a document come from
\* one of its texts, each triple once: write_triples only CREATEs, and it is
\* delete_document_edges before it that keeps a second run from doubling them.
THEOREM OneText == Spec => []EdgesOfOneText
<1>1. Init => EdgesOfOneText /\ WrittenOnce
  BY DataAssumption DEF Init, StoresInit, NoEdges, WorkerInit, Idle, EdgesOfOneText, WrittenOnce
<1>2. TypeOK /\ TypeOK' /\ EdgesOfOneText /\ WrittenOnce /\ [Next]_vars
        => (EdgesOfOneText /\ WrittenOnce)'
  BY OneTextStep
<1>. QED
  BY <1>1, <1>2, TypeCorrect, PTL DEF Spec

(***************************************************************************)
(* The service when no forget runs while a document is processed: shared   *)
(* entities survive, the graph is grounded, the record outlives the edges  *)
(* and no accepted bytes are lost, for any number of forgets at once; and  *)
(* a forget that runs alone sweeps up all it read.                         *)
(***************************************************************************)

(***************************************************************************)
(* The inductive invariant.  The first three parts say what the worker has *)
(* reached, and hold because no forget takes anything away meanwhile; the  *)
(* other three say what a forget has established, and hold because the     *)
(* worker is idle.                                                         *)
(***************************************************************************)
LinkedSoFar == worker.pc = "link" => Mentions[worker.text] \ worker.ents \subseteq entities

NodesToCome == worker.pc = "nodes" => worker.ents \subseteq entities

RecordHeld == worker.pc \in {"link", "nodes", "edges"} => records[worker.doc] # NoRecord

OrphansUnused ==
    \A r \in Erasers : eraser[r].pc \in {"nodes", "ents"} =>
        \A e \in eraser[r].orphans, d \in Docs \ {eraser[r].doc} : e \notin Links(d)

OrphansDetached ==
    \A r \in Erasers : eraser[r].pc = "ents" => eraser[r].orphans \cap nodes = {}

EdgesErased ==
    \A r \in Erasers : eraser[r].pc \in {"object", "inuse", "nodes", "ents", "record"} =>
        edges[eraser[r].doc] = NoEdges

WorkerReached == LinkedSoFar /\ NodesToCome /\ RecordHeld

ForgetReached == OrphansUnused /\ OrphansDetached /\ EdgesErased

Promises == SharedEntitySurvives /\ GraphGrounded /\ RecordGoesLast

QuietInv == NoOverlap /\ WorkerReached /\ ForgetReached /\ Promises

\* The initial state satisfies it.
LEMMA QuietInit == Init => QuietInv
BY DEF Init, StoresInit, WorkerInit, ForgetInit, Idle, QuietInv, NoOverlap, WorkerReached,
       LinkedSoFar, NodesToCome, RecordHeld, ForgetReached, OrphansUnused, OrphansDetached,
       EdgesErased, Promises, SharedEntitySurvives, GraphGrounded, RecordGoesLast, Links

(***************************************************************************)
(* A pipeline step: every forget is idle.                                  *)
(***************************************************************************)

\* While the worker is busy there is no forget to speak of.
LEMMA IdleForgets ==
    ASSUME \A r \in Erasers : eraser'[r] = Idle
    PROVE  ForgetReached'
BY DEF ForgetReached, OrphansUnused, OrphansDetached, EdgesErased, Idle

\* A pipeline step keeps the invariant.
LEMMA QuietWorkerStep ==
    ASSUME TypeOK, QuietInv, WorkerStep
    PROVE  WorkerReached' /\ ForgetReached' /\ Promises'
<1>. USE DEF TypeOK, StoresTypeOK, QuietInv
<1>1. worker \in Job /\ worker.doc \in Docs /\ worker.text \in Texts
  BY StepsStayOnDocument DEF WorkerStep, Job
<1>2. worker.pc \in {"raw", "link", "nodes", "edges"} /\ worker # Idle
  BY <1>1 DEF Job, Idle
<1>3. ForgetReached'
  <2>1. \A r \in Erasers : eraser'[r] = Idle
    BY <1>2 DEF WorkerStep, NoOverlap
  <2>. QED
    BY <2>1, IdleForgets
<1>. USE DEF WorkerReached, LinkedSoFar, NodesToCome, RecordHeld, Promises, SharedEntitySurvives,
             GraphGrounded, RecordGoesLast
<1>4. CASE UpsertRaw
  <2>1. /\ records' = [records EXCEPT ![worker.doc] = RawRecord(worker.text)]
        /\ worker'.pc = "link" /\ worker'.doc = worker.doc /\ worker'.text = worker.text
        /\ worker'.ents = Mentions[worker.text]
        /\ UNCHANGED <<entities, nodes, edges>>
    BY <1>1, <1>4 DEF UpsertRaw, UpsertRecord, Job
  <2>2. RawRecord(worker.text) # NoRecord
    BY <1>1, CheckpointsWriteRecords
  <2>3. \A d \in Docs : Links(d)' \subseteq Links(d)
    BY <1>1, <2>1, <2>2 DEF Links, RawRecord
  <2>4. WorkerReached'
    BY <1>1, <2>1, <2>2
  <2>5. Promises'
    <3>1. \A d \in Docs : records'[d] = NoRecord => records[d] = NoRecord
      BY <1>1, <2>1, <2>2
    <3>. QED
      BY <2>1, <2>3, <3>1
  <2>. QED
    BY <1>3, <2>4, <2>5
<1>5. CASE LinkEntity
  <2>1. PICK e \in worker.ents : /\ entities' = entities \cup {e}
                                 /\ worker' = [worker EXCEPT !.ents = @ \ {e}]
    BY <1>5 DEF LinkEntity, UpsertEntity
  <2>2. /\ worker'.pc = "link" /\ worker'.doc = worker.doc /\ worker'.text = worker.text
        /\ worker'.ents = worker.ents \ {e}
        /\ worker.pc = "link"
        /\ UNCHANGED <<records, nodes, edges>>
    BY <1>1, <1>5, <2>1 DEF LinkEntity, Job
  <2>3. WorkerReached'
    BY <2>1, <2>2
  <2>4. Promises'
    BY <2>1, <2>2 DEF Links
  <2>. QED
    BY <1>3, <2>3, <2>4
<1>6. CASE UpsertEnriched
  <2>1. /\ records' = [records EXCEPT ![worker.doc] = EnrichedRecord(worker.text)]
        /\ worker'.pc = "nodes" /\ worker'.doc = worker.doc
        /\ worker'.ents = GraphIds(Mentions[worker.text])
        /\ worker.pc = "link" /\ worker.ents = {}
        /\ UNCHANGED <<entities, nodes, edges>>
    BY <1>1, <1>6 DEF UpsertEnriched, UpsertRecord, Job
  <2>2. Mentions[worker.text] \subseteq entities
    BY <2>1
  <2>3. EnrichedRecord(worker.text) \in Record /\ EnrichedRecord(worker.text) # NoRecord
    BY <1>1, CheckpointsWriteRecords
  <2>4. /\ Links(worker.doc)' \subseteq entities
        /\ \A d \in Docs \ {worker.doc} : Links(d)' = Links(d)
    BY <1>1, <2>1, <2>2, <2>3 DEF Links, EnrichedRecord
  <2>5. WorkerReached'
    BY <1>1, <2>1, <2>2, <2>3 DEF GraphIds
  <2>6. SharedEntitySurvives'
    BY <1>1, <2>1, <2>4
  <2>7. GraphGrounded' /\ RecordGoesLast'
    BY <1>1, <2>1, <2>3
  <2>. QED
    BY <1>3, <2>5, <2>6, <2>7
<1>7. CASE UpsertNodeBatch
  <2>1. PICK batch \in SUBSET worker.ents :
            nodes' = nodes \cup batch /\ worker' = [worker EXCEPT !.ents = @ \ batch]
    BY <1>7 DEF UpsertNodeBatch, UpsertNodes
  <2>2. /\ worker'.pc = "nodes" /\ worker'.doc = worker.doc
        /\ worker'.ents = worker.ents \ batch
        /\ worker.pc = "nodes"
        /\ UNCHANGED <<records, entities, edges>>
    BY <1>1, <1>7, <2>1 DEF UpsertNodeBatch, Job
  <2>3. WorkerReached'
    BY <2>1, <2>2
  <2>4. Promises'
    BY <2>1, <2>2 DEF Links
  <2>. QED
    BY <1>3, <2>3, <2>4
<1>8. CASE DropOldEdges
  <2>1. /\ edges' = [edges EXCEPT ![worker.doc] = NoEdges]
        /\ worker'.pc = "edges" /\ worker'.doc = worker.doc
        /\ worker.pc = "nodes"
        /\ UNCHANGED <<records, entities, nodes>>
    BY <1>1, <1>8 DEF DropOldEdges, DeleteDocumentEdges, Job
  <2>2. WorkerReached'
    BY <2>1
  <2>3. Promises'
    BY <1>1, <2>1 DEF Links
  <2>. QED
    BY <1>3, <2>2, <2>3
<1>9. CASE WriteTripleBatch
  <2>1. PICK batch : CreateEdges(worker.doc, batch)
    BY <1>9 DEF WriteTripleBatch
  <2>2. \A d \in Docs \ {worker.doc} : edges'[d] = edges[d]
    BY <1>1, <2>1 DEF CreateEdges
  <2>3. /\ worker'.pc = "edges" /\ worker'.doc = worker.doc
        /\ worker.pc = "edges"
        /\ UNCHANGED <<records, entities, nodes>>
    BY <1>1, <1>9 DEF WriteTripleBatch, Job
  <2>4. WorkerReached'
    BY <2>3
  <2>5. Promises'
    BY <1>1, <2>2, <2>3 DEF Links
  <2>. QED
    BY <1>3, <2>4, <2>5
<1>. QED
  BY <1>4, <1>5, <1>6, <1>7, <1>8, <1>9 DEF WorkerStep

(***************************************************************************)
(* A step of a forget: the worker is idle.                                 *)
(***************************************************************************)

\* What a step of one forget does not touch stays as the other forgets left it.
LEMMA OtherForgets ==
    ASSUME TypeOK, NEW r \in Erasers, EraserStep(r)
    PROVE  \A q \in Erasers \ {r} : eraser'[q] = eraser[q]
BY DEF TypeOK, ForgetTypeOK, EraserStep, EraseEdges, EraseObject, FindOrphans, EraseNodes,
       EraseEntity, EraseRecord

\* A forget's step keeps the invariant.
LEMMA QuietForgetStep ==
    ASSUME TypeOK, QuietInv, NEW r \in Erasers, EraserStep(r)
    PROVE  WorkerReached' /\ ForgetReached' /\ Promises'
<1>. USE DEF TypeOK, StoresTypeOK, QuietInv
<1>1. eraser[r] \in Erasure /\ eraser[r] # Idle /\ eraser[r].doc \in Docs
  <2>1. eraser[r].pc # "idle"
    BY DEF EraserStep, EraseEdges, EraseObject, FindOrphans, EraseNodes, EraseEntity, EraseRecord
  <2>. QED
    BY <2>1 DEF ForgetTypeOK, Erasure, Idle
<1>2. WorkerReached'
  BY <1>1 DEF EraserStep, NoOverlap, WorkerReached, LinkedSoFar, NodesToCome, RecordHeld, Idle
<1>3. \A q \in Erasers \ {r} : eraser'[q] = eraser[q]
  BY OtherForgets
<1>. USE DEF ForgetReached, OrphansUnused, OrphansDetached, EdgesErased, Promises,
             SharedEntitySurvives, GraphGrounded, RecordGoesLast
<1>4. CASE EraseEdges(r)
  <2>1. /\ edges' = [edges EXCEPT ![eraser[r].doc] = NoEdges]
        /\ eraser'[r].pc = "object" /\ eraser'[r].doc = eraser[r].doc
        /\ UNCHANGED <<records, entities, nodes>>
    BY <1>1, <1>4 DEF EraseEdges, DeleteDocumentEdges, ForgetTypeOK, Erasure
  <2>2. \A d \in Docs : edges[d] = NoEdges => edges'[d] = NoEdges
    BY <2>1
  <2>3. \A q \in Erasers \ {r} : eraser[q].pc # "idle" => eraser[q].doc \in Docs
    BY DEF ForgetTypeOK, Erasure, Idle
  <2>4. ForgetReached'
    <3>1. OrphansUnused' /\ OrphansDetached'
      BY <1>3, <2>1 DEF Links
    <3>2. edges'[eraser[r].doc] = NoEdges
      BY <1>1, <2>1
    <3>3. EdgesErased'
      BY <1>3, <2>1, <2>2, <2>3, <3>2
    <3>. QED
      BY <3>1, <3>3
  <2>5. Promises'
    BY <2>1, <2>2 DEF Links
  <2>. QED
    BY <1>2, <2>4, <2>5
<1>5. CASE EraseObject(r)
  <2>1. /\ eraser'[r].pc = "inuse" /\ eraser'[r].doc = eraser[r].doc
        /\ eraser[r].pc = "object"
        /\ UNCHANGED <<records, entities, nodes, edges>>
    BY <1>1, <1>5 DEF EraseObject, ForgetTypeOK, Erasure
  <2>2. ForgetReached'
    BY <1>3, <2>1 DEF Links
  <2>3. Promises'
    BY <2>1 DEF Links
  <2>. QED
    BY <1>2, <2>2, <2>3
<1>6. CASE FindOrphans(r)
  <2>1. /\ eraser'[r].pc \in {"record", "nodes"} /\ eraser'[r].doc = eraser[r].doc
        /\ eraser'[r].orphans =
              eraser[r].linked \ EntitiesInUse(eraser[r].linked, eraser[r].doc)
        /\ eraser[r].pc = "inuse"
        /\ UNCHANGED <<records, entities, nodes, edges>>
    BY <1>1, <1>6 DEF FindOrphans, storeVars, ForgetTypeOK, Erasure
  <2>2. \A e \in eraser'[r].orphans, d \in Docs \ {eraser[r].doc} : e \notin Links(d)
    BY <2>1 DEF EntitiesInUse
  <2>3. ForgetReached'
    <3>1. OrphansUnused'
      <4>1. ASSUME NEW q \in Erasers, eraser'[q].pc \in {"nodes", "ents"},
                   NEW e \in eraser'[q].orphans, NEW d \in Docs \ {eraser'[q].doc}
            PROVE  e \notin Links(d)
        <5>1. CASE q = r
          BY <2>1, <2>2, <4>1, <5>1
        <5>2. CASE q # r
          BY <1>3, <4>1, <5>2
        <5>. QED
          BY <5>1, <5>2
      <4>2. \A d \in Docs : Links(d)' = Links(d)
        BY <2>1 DEF Links
      <4>. QED
        BY <4>1, <4>2
    <3>2. OrphansDetached' /\ EdgesErased'
      BY <1>3, <2>1
    <3>. QED
      BY <3>1, <3>2
  <2>4. Promises'
    BY <2>1 DEF Links
  <2>. QED
    BY <1>2, <2>3, <2>4
<1>7. CASE EraseNodes(r)
  <2>1. /\ nodes' = nodes \ eraser[r].orphans
        /\ edges' = [d \in Docs |-> [x \in Triples |->
                        IF {x.s, x.o} \cap eraser[r].orphans = {} THEN edges[d][x] ELSE 0]]
        /\ eraser'[r].pc = "ents" /\ eraser'[r].doc = eraser[r].doc
        /\ eraser'[r].orphans = eraser[r].orphans
        /\ eraser[r].pc = "nodes"
        /\ UNCHANGED <<records, entities>>
    BY <1>1, <1>7 DEF EraseNodes, DeleteNodes, ForgetTypeOK, Erasure
  <2>2. \A d \in Docs : edges[d] = NoEdges => edges'[d] = NoEdges
    BY <2>1 DEF NoEdges
  <2>3. \A q \in Erasers : eraser[q].pc # "idle" => eraser[q].doc \in Docs
    BY DEF ForgetTypeOK, Erasure, Idle
  <2>4. ForgetReached'
    <3>1. OrphansUnused' /\ OrphansDetached'
      BY <1>3, <2>1 DEF Links
    <3>2. EdgesErased'
      BY <1>3, <2>1, <2>2, <2>3
    <3>. QED
      BY <3>1, <3>2
  <2>5. Promises'
    BY <2>1, <2>2 DEF Links
  <2>. QED
    BY <1>2, <2>4, <2>5
<1>8. CASE EraseEntity(r)
  <2>1. PICK e \in eraser[r].orphans :
            /\ DeleteEntity(e)
            /\ eraser' = [eraser EXCEPT
                 ![r].orphans = @ \ {e},
                 ![r].pc = IF eraser[r].orphans = {e} THEN "record" ELSE "ents"]
    BY <1>8 DEF EraseEntity
  <2>2. /\ entities' = entities \ {e}
        /\ eraser'[r].pc \in {"record", "ents"} /\ eraser'[r].doc = eraser[r].doc
        /\ eraser'[r].orphans = eraser[r].orphans \ {e}
        /\ eraser[r].pc = "ents"
        /\ UNCHANGED <<records, nodes, edges>>
    BY <1>1, <1>8, <2>1 DEF EraseEntity, DeleteEntity, ForgetTypeOK, Erasure
  <2>3. e \notin nodes /\ \A d \in Docs \ {eraser[r].doc} : e \notin Links(d)
    BY <2>1, <2>2
  <2>4. ForgetReached'
    BY <1>3, <2>2 DEF Links
  <2>5. SharedEntitySurvives'
    BY <2>2, <2>3 DEF Links
  <2>6. GraphGrounded' /\ RecordGoesLast'
    BY <2>2, <2>3
  <2>. QED
    BY <1>2, <2>4, <2>5, <2>6
<1>9. CASE EraseRecord(r)
  <2>1. /\ records' = [records EXCEPT ![eraser[r].doc] = NoRecord]
        /\ eraser'[r] = Idle
        /\ eraser[r].pc = "record"
        /\ UNCHANGED <<entities, nodes, edges>>
    BY <1>1, <1>9 DEF EraseRecord, DeleteRecord, ForgetTypeOK
  <2>2. \A d \in Docs : Links(d)' \subseteq Links(d)
    BY <1>1, <2>1 DEF Links
  <2>3. ForgetReached'
    <3>1. \A q \in Erasers : eraser'[q].pc # "idle" => eraser'[q] = eraser[q]
      BY <1>3, <2>1 DEF Idle
    <3>2. OrphansUnused'
      BY <2>2, <3>1
    <3>3. OrphansDetached' /\ EdgesErased'
      BY <2>1, <3>1
    <3>. QED
      BY <3>2, <3>3
  <2>4. edges[eraser[r].doc] = NoEdges
    BY <2>1
  <2>5. Promises'
    BY <1>1, <2>1, <2>2, <2>4
  <2>. QED
    BY <1>2, <2>3, <2>5
<1>. QED
  BY <1>4, <1>5, <1>6, <1>7, <1>8, <1>9 DEF EraserStep
(***************************************************************************)
(* Every other step, and the theorems.                                     *)
(***************************************************************************)

\* Steps that make no store call leave every forget where it is, or end it, or start one.
LEMMA OthersLeaveForgets ==
    ASSUME TypeOK, [Next]_vars, ~\E r \in Erasers : EraserStep(r)
    PROVE  \A r \in Erasers : eraser'[r] = eraser[r] \/ eraser'[r].pc \in {"idle", "edges"}
<1>1. ASSUME NEW u \in Uploaders, NEW d \in Docs, NEW t \in Texts,
             \/ \E force \in BOOLEAN : Remember(u, d, t, force)
             \/ RememberUnchanged(u, d, t)
      PROVE  eraser' = eraser
  BY <1>1 DEF Remember, RememberUnchanged
<1>2. ASSUME NEW u \in Uploaders, StoreBytes(u) \/ Publish(u) \/ UploadFails(u)
      PROVE  eraser' = eraser
  BY <1>2 DEF StoreBytes, Publish, UploadFails
<1>3. CASE Deliver \/ SkipMissing \/ DropUnread \/ WorkerStep \/ Finish \/ Drop \/ CommitOffset
           \/ Rebalance \/ UNCHANGED vars
  BY <1>3 DEF Deliver, SkipMissing, DropUnread, threadVars, WorkerStep, Finish, Drop, CommitOffset,
              Rebalance, vars
<1>4. ASSUME NEW r \in Erasers, NEW d \in Docs, StartForget(r, d) \/ ForgetNotFound(r, d)
      PROVE  \A q \in Erasers : eraser'[q] = eraser[q] \/ eraser'[q].pc = "edges"
  BY <1>4 DEF StartForget, ReadRecord, ForgetNotFound, NotFound, TypeOK, ForgetTypeOK
<1>5. ASSUME NEW r \in Erasers, ForgetFails(r)
      PROVE  \A q \in Erasers : eraser'[q] = eraser[q] \/ eraser'[q].pc = "idle"
  BY <1>5 DEF ForgetFails, AbortErase, TypeOK, ForgetTypeOK, Idle
<1>6. CASE Crash
  BY <1>6 DEF Crash, Idle
<1>. QED
  BY <1>1, <1>2, <1>3, <1>4, <1>5, <1>6 DEF Next

\* Every step of the quiet service keeps the invariant.
LEMMA QuietStep == TypeOK /\ QuietInv /\ [QuietNext]_vars => QuietInv'
<1>. SUFFICES ASSUME TypeOK, QuietInv, [QuietNext]_vars PROVE QuietInv'
  OBVIOUS
<1>1. [Next]_vars
  BY DEF QuietNext
<1>2. NoOverlap'
  BY DEF QuietNext, QuietInv, NoOverlap, vars, threadVars
<1>3. CASE WorkerStep
  BY <1>2, <1>3, QuietWorkerStep DEF QuietInv
<1>4. CASE \E r \in Erasers : EraserStep(r)
  BY <1>2, <1>4, QuietForgetStep DEF QuietInv
<1>5. CASE ~WorkerStep /\ ~\E r \in Erasers : EraserStep(r)
  <2>1. UNCHANGED <<records, entities, nodes, edges>>
    BY <1>1, <1>5, OthersLeaveStores
  <2>2. worker' = worker \/ worker'.pc \in {"idle", "raw"}
    BY <1>1, <1>5, OthersDoNotWrite
  <2>3. \A r \in Erasers : eraser'[r] = eraser[r] \/ eraser'[r].pc \in {"idle", "edges"}
    BY <1>1, <1>5, OthersLeaveForgets
  <2>4. WorkerReached'
    BY <2>1, <2>2 DEF QuietInv, WorkerReached, LinkedSoFar, NodesToCome, RecordHeld
  <2>5. ForgetReached'
    BY <2>1, <2>3 DEF QuietInv, ForgetReached, OrphansUnused, OrphansDetached, EdgesErased, Links
  <2>6. Promises'
    BY <2>1 DEF QuietInv, Promises, SharedEntitySurvives, GraphGrounded, RecordGoesLast, Links
  <2>. QED
    BY <1>2, <2>4, <2>5, <2>6 DEF QuietInv
<1>. QED
  BY <1>3, <1>4, <1>5

\* The quiet service is the service, so its states are well typed.
LEMMA QuietTypeCorrect == QuietSpec => []TypeOK
<1>1. [QuietNext]_vars => [Next]_vars
  BY DEF QuietNext
<1>. QED
  BY <1>1, TypeCorrect, PTL DEF QuietSpec, Spec

\* The invariant holds of every reachable state of the quiet service.
LEMMA QuietInvariant == QuietSpec => []QuietInv
BY QuietInit, QuietStep, QuietTypeCorrect, PTL DEF QuietSpec

\* When no forget runs while a document is processed, an entity that two stored documents
\* link to is never removed: not by two forgets at once, nor by one that fails part-way
\* and is repeated (entities_in_use is asked before anything is deleted).
THEOREM SharedSurvives == QuietSpec => []SharedEntitySurvives
BY QuietInvariant, PTL DEF QuietInv, Promises

\* When no forget runs while a document is processed, every node of the graph has its
\* canonical entity: nodes are deleted before entities,
\* and written after them.
THEOREM Grounded == QuietSpec => []GraphGrounded
BY QuietInvariant, PTL DEF QuietInv, Promises

\* When no forget runs while a document is processed, a document with edges has its
\* record, so a forget that failed can be repeated and finish the job.
THEOREM RecordLast == QuietSpec => []RecordGoesLast
BY QuietInvariant, PTL DEF QuietInv, Promises

(***************************************************************************)
(* The strengthening of NoUpdateLost.  A job does what its text says, step *)
(* after step; a text put meanwhile has its own trigger; and bytes put     *)
(* after a forget removed the object have theirs.                          *)
(***************************************************************************)

\* a trigger beyond the one the consumer is at
AwaitedLater(d) ==
    \/ \E i \in position + 2 .. Len(log) : log[i] = d
    \/ \E u \in Uploaders : uploader[u].pc = "publish" /\ uploader[u].doc = d

JobOnCourse ==
    /\ worker.pc = "nodes" =>
        /\ records[worker.doc] = EnrichedRecord(worker.text)
        /\ Mentions[worker.text] \subseteq entities
        /\ GraphIds(Mentions[worker.text]) \ worker.ents \subseteq nodes
    /\ worker.pc = "edges" =>
        /\ records[worker.doc] = EnrichedRecord(worker.text)
        /\ Mentions[worker.text] \subseteq entities
        /\ GraphIds(Mentions[worker.text]) \subseteq nodes
        /\ worker.facts \subseteq Facts[worker.text]
        /\ \A x \in Triples :
            edges[worker.doc][x] = (IF x \in Facts[worker.text] \ worker.facts THEN 1 ELSE 0)

JobNotLast ==
    worker # Idle =>
        \/ objects[worker.doc] \in {worker.text, NoText}
        \/ worker.doc \in faulted
        \/ AwaitedLater(worker.doc)

ForgottenAnew ==
    \A r \in Erasers : eraser[r].pc \in {"inuse", "nodes", "ents", "record"} =>
        \/ objects[eraser[r].doc] = NoText
        \/ eraser[r].doc \in faulted
        \/ Awaited(eraser[r].doc)

NothingLost == JobOnCourse /\ JobNotLast /\ ForgottenAnew /\ NoUpdateLost


\* The initial state satisfies it.
LEMMA NothingLostInit == Init => NothingLost
BY DEF Init, StoresInit, WorkerInit, ForgetInit, Idle, NothingLost, JobOnCourse, JobNotLast,
       ForgottenAnew, NoUpdateLost

\* A later trigger is a trigger.
LEMMA LaterIsAwaited == Topic!LogTypeOK => \A d \in Docs : AwaitedLater(d) => Awaited(d)
<1>. SUFFICES ASSUME Topic!LogTypeOK, NEW d \in Docs, AwaitedLater(d) PROVE Awaited(d)
  OBVIOUS
<1>1. CASE \E i \in position + 2 .. Len(log) : log[i] = d
  <2>1. PICK i \in position + 2 .. Len(log) : log[i] = d
    BY <1>1
  <2>2. i \in position + 1 .. Len(log) /\ i # position + 1
    BY DEF Topic!LogTypeOK
  <2>. QED
    BY <2>1, <2>2 DEF Awaited
<1>2. CASE \E u \in Uploaders : uploader[u].pc = "publish" /\ uploader[u].doc = d
  BY <1>2 DEF Awaited
<1>. QED
  BY <1>1, <1>2 DEF AwaitedLater

(***************************************************************************)
(* What the steps that call no store of records, entities or graph do to   *)
(* the bytes, the triggers, the failures and the forgets of a document.    *)
(***************************************************************************)

\* New bytes come with an upload that has their trigger still to publish.
LEMMA BytesStay ==
    ASSUME TypeOK, [Next]_vars, ~\E r \in Erasers : EraserStep(r), NEW d \in Docs
    PROVE  objects'[d] = objects[d] \/ AwaitedLater(d)'
<1>. USE DEF storeVars
<1>1. ASSUME NEW u \in Uploaders, StoreBytes(u)
      PROVE  objects'[d] = objects[d] \/ AwaitedLater(d)'
  <2>1. uploader[u] \in Upload
    BY <1>1 DEF StoreBytes, Put, TypeOK, UploadTypeOK, Idle
  <2>2. uploader'[u].pc = "publish" /\ uploader'[u].doc = uploader[u].doc
    BY <1>1, <2>1 DEF StoreBytes, Put, TypeOK, UploadTypeOK, Upload
  <2>3. objects' = [objects EXCEPT ![uploader[u].doc] = uploader[u].text]
    BY <1>1 DEF StoreBytes, Put, PutObject
  <2>4. CASE uploader[u].doc = d
    BY <2>2, <2>4 DEF AwaitedLater
  <2>5. CASE uploader[u].doc # d
    BY <2>3, <2>5 DEF TypeOK, StoresTypeOK
  <2>. QED
    BY <2>4, <2>5
<1>2. ASSUME NEW u \in Uploaders, NEW c \in Docs, NEW t \in Texts,
             \/ \E force \in BOOLEAN : Remember(u, c, t, force)
             \/ RememberUnchanged(u, c, t)
      PROVE  objects' = objects
  BY <1>2 DEF Remember, Accept, RememberUnchanged, Unchanged
<1>3. ASSUME NEW u \in Uploaders, Publish(u) \/ UploadFails(u)
      PROVE  objects' = objects
  BY <1>3 DEF Publish, UploadFails, EndUpload
<1>4. CASE Deliver \/ SkipMissing \/ DropUnread \/ Finish \/ Drop \/ CommitOffset \/ Rebalance
           \/ Crash \/ UNCHANGED vars
  BY <1>4 DEF Deliver, ReadObject, SkipMissing, MissingObject, DropUnread, Finish, Finished,
              Drop, Dropped, CommitOffset, Rebalance, Crash, vars
<1>5. CASE WorkerStep
  BY <1>5 DEF WorkerStep, UpsertRaw, LinkEntity, UpsertEnriched, UpsertNodeBatch, DropOldEdges,
              WriteTripleBatch
<1>6. ASSUME NEW r \in Erasers, NEW c \in Docs,
             StartForget(r, c) \/ ForgetNotFound(r, c) \/ ForgetFails(r)
      PROVE  objects' = objects
  BY <1>6 DEF StartForget, ReadRecord, ForgetNotFound, NotFound, ForgetFails, AbortErase
<1>. QED
  BY <1>1, <1>2, <1>3, <1>4, <1>5, <1>6 DEF Next

\* A failure is forgotten only when new bytes are put, and those have their trigger.
LEMMA FailuresStay ==
    ASSUME TypeOK, [Next]_vars, NEW d \in faulted
    PROVE  d \in faulted' \/ AwaitedLater(d)'
<1>1. ASSUME NEW u \in Uploaders, StoreBytes(u)
      PROVE  d \in faulted' \/ AwaitedLater(d)'
  <2>1. uploader[u] \in Upload
    BY <1>1 DEF StoreBytes, Put, TypeOK, UploadTypeOK, Idle
  <2>2. uploader'[u].pc = "publish" /\ uploader'[u].doc = uploader[u].doc
    BY <1>1, <2>1 DEF StoreBytes, Put, TypeOK, UploadTypeOK, Upload
  <2>3. faulted' = faulted \ {uploader[u].doc}
    BY <1>1 DEF StoreBytes
  <2>. QED
    BY <2>2, <2>3 DEF AwaitedLater
<1>2. CASE faulted \subseteq faulted'
  BY <1>2
<1>3. faulted \subseteq faulted' \/ \E u \in Uploaders : StoreBytes(u)
  BY DEF Next, Remember, RememberUnchanged, Publish, UploadFails, Deliver, SkipMissing, DropUnread,
         WorkerStep, Finish, Drop, CommitOffset, Rebalance, StartForget, ForgetNotFound,
         EraserStep, ForgetFails, Crash, NoFault, Fault, vars
<1>. QED
  BY <1>1, <1>2, <1>3

\* An upload that has a trigger to publish keeps it, publishes it, or fails.
LEMMA PublishersStay ==
    ASSUME TypeOK, [Next]_vars, NEW u \in Uploaders, uploader[u].pc = "publish"
    PROVE  \/ uploader'[u] = uploader[u]
           \/ log' = Append(log, uploader[u].doc)
           \/ uploader[u].doc \in faulted'
<1>1. uploader[u] \in Upload /\ uploader[u] # Idle
  BY DEF Idle, TypeOK, UploadTypeOK
<1>2. ASSUME NEW v \in Uploaders, NEW c \in Docs, NEW t \in Texts,
             \/ \E force \in BOOLEAN : Remember(v, c, t, force)
             \/ RememberUnchanged(v, c, t)
      PROVE  uploader'[u] = uploader[u]
  BY <1>1, <1>2 DEF TypeOK, UploadTypeOK, Remember, Accept, RememberUnchanged, Unchanged
<1>3. ASSUME NEW v \in Uploaders, StoreBytes(v)
      PROVE  uploader'[u] = uploader[u]
  <2>1. u # v
    BY <1>3 DEF StoreBytes, Put
  <2>. QED
    BY <1>3, <2>1 DEF TypeOK, UploadTypeOK, StoreBytes, Put
<1>4. ASSUME NEW v \in Uploaders, Publish(v) \/ UploadFails(v)
      PROVE  \/ uploader'[u] = uploader[u]
             \/ log' = Append(log, uploader[u].doc)
             \/ uploader[u].doc \in faulted'
  <2>1. CASE u = v
    BY <1>4, <2>1 DEF Publish, Topic!Send, UploadFails, Fault
  <2>2. CASE u # v
    BY <1>4, <2>2 DEF TypeOK, UploadTypeOK, Publish, UploadFails, EndUpload
  <2>. QED
    BY <2>1, <2>2
<1>5. CASE Deliver \/ SkipMissing \/ DropUnread \/ WorkerStep \/ Finish \/ Drop \/ CommitOffset
           \/ Rebalance \/ UNCHANGED vars
  BY <1>5 DEF Deliver, SkipMissing, DropUnread, WorkerStep, Finish, Drop, CommitOffset, Rebalance,
              threadVars, vars
<1>6. ASSUME NEW r \in Erasers, NEW c \in Docs,
             StartForget(r, c) \/ ForgetNotFound(r, c)
      PROVE  uploader' = uploader
  BY <1>6 DEF StartForget, ForgetNotFound
<1>7. ASSUME NEW r \in Erasers, EraserStep(r) \/ ForgetFails(r)
      PROVE  uploader' = uploader
  BY <1>7 DEF EraserStep, ForgetFails
<1>8. CASE Crash
  BY <1>8 DEF Crash, Fault
<1>. QED
  BY <1>2, <1>3, <1>4, <1>5, <1>6, <1>7, <1>8 DEF Next

\* A forget that is under way stays where it is, or its document counts as failed.
LEMMA ForgetsStay ==
    ASSUME TypeOK, [Next]_vars, ~\E r \in Erasers : EraserStep(r),
           NEW q \in Erasers, eraser[q] # Idle
    PROVE  eraser'[q] = eraser[q] \/ eraser[q].doc \in faulted'
<1>. USE DEF TypeOK, ForgetTypeOK
<1>1. ASSUME NEW r \in Erasers, NEW c \in Docs, StartForget(r, c) \/ ForgetNotFound(r, c)
      PROVE  eraser'[q] = eraser[q]
  BY <1>1 DEF StartForget, ReadRecord, ForgetNotFound, NotFound
<1>2. ASSUME NEW r \in Erasers, ForgetFails(r)
      PROVE  eraser'[q] = eraser[q] \/ eraser[q].doc \in faulted'
  BY <1>2 DEF ForgetFails, AbortErase, Fault
<1>3. CASE Crash
  BY <1>3 DEF Crash, Fault
<1>4. ASSUME NEW u \in Uploaders, NEW d \in Docs, NEW t \in Texts,
             \/ \E force \in BOOLEAN : Remember(u, d, t, force)
             \/ RememberUnchanged(u, d, t)
      PROVE  eraser' = eraser
  BY <1>4 DEF Remember, RememberUnchanged
<1>5. CASE Deliver \/ SkipMissing \/ DropUnread \/ WorkerStep \/ Finish \/ Drop \/ CommitOffset
           \/ Rebalance \/ UNCHANGED vars
  BY <1>5 DEF Deliver, SkipMissing, DropUnread, WorkerStep, Finish, Drop, CommitOffset, Rebalance,
              threadVars, vars
<1>6. ASSUME NEW u \in Uploaders, StoreBytes(u) \/ Publish(u) \/ UploadFails(u)
      PROVE  eraser' = eraser
  BY <1>6 DEF StoreBytes, Publish, UploadFails
<1>. QED
  BY <1>1, <1>2, <1>3, <1>4, <1>5, <1>6 DEF Next

\* While the consumer stays where it is, a later trigger stays on its way.
LEMMA LaterStays ==
    ASSUME TypeOK, [Next]_vars, position' = position, NEW d \in Docs, AwaitedLater(d),
           position < Len(log)
    PROVE  AwaitedLater(d)' \/ d \in faulted'
<1>. USE DEF TypeOK, Topic!LogTypeOK
<1>1. log' = log \/ \E c \in Docs : log' = Append(log, c)
  <2>1. CASE Deliver \/ SkipMissing \/ DropUnread \/ WorkerStep \/ Finish \/ Drop \/ CommitOffset
             \/ Rebalance \/ Crash \/ UNCHANGED vars
    BY <2>1 DEF Deliver, SkipMissing, DropUnread, WorkerStep, Finish, Drop, CommitOffset, Rebalance,
                Crash, topicVars, vars, Topic!Handled, Topic!Commit, Topic!Rewind
  <2>. QED
    BY <2>1, RequestsLeaveConsumer
<1>2. CASE \E i \in position + 2 .. Len(log) : log[i] = d
  <2>1. PICK i \in position + 2 .. Len(log) : log[i] = d
    BY <1>2
  <2>2. position \in Nat /\ log \in Seq(Docs) /\ Len(log) \in Nat
    OBVIOUS
  <2>3. i \in 1 .. Len(log) /\ i \in position + 2 .. Len(log)
    BY <2>1, <2>2
  <2>4. i <= Len(log') /\ log'[i] = log[i] /\ Len(log') \in Nat
    <3>1. CASE log' = log
      BY <2>2, <2>3, <3>1
    <3>2. ASSUME NEW c \in Docs, log' = Append(log, c)
          PROVE  i <= Len(log') /\ log'[i] = log[i] /\ Len(log') \in Nat
      <4>1. Len(log') = Len(log) + 1 /\ log'[i] = log[i]
        BY <2>2, <2>3, <3>2
      <4>. QED
        BY <2>2, <2>3, <4>1
    <3>. QED
      BY <1>1, <3>1, <3>2
  <2>5. i \in position' + 2 .. Len(log') /\ log'[i] = d
    BY <2>1, <2>2, <2>3, <2>4
  <2>. QED
    BY <2>5 DEF AwaitedLater
<1>3. ASSUME NEW u \in Uploaders, uploader[u].pc = "publish", uploader[u].doc = d
      PROVE  AwaitedLater(d)' \/ d \in faulted'
  <2>1. CASE uploader'[u] = uploader[u]
    BY <1>3, <2>1 DEF AwaitedLater
  <2>2. CASE log' = Append(log, d)
    <3>1. Len(log) + 1 \in position' + 2 .. Len(log') /\ log'[Len(log) + 1] = d
      BY <2>2
    <3>. QED
      BY <3>1 DEF AwaitedLater
  <2>. QED
    BY <1>3, <2>1, <2>2, PublishersStay
<1>. QED
  BY <1>2, <1>3 DEF AwaitedLater

\* The consumer stays, reads its next trigger, returns from it, or starts again.
LEMMA ConsumerMoves ==
    ASSUME TypeOK, [Next]_vars, ~WorkerStep
    PROVE  \/ /\ worker' = worker /\ position' = position
              /\ log' = log \/ \E d \in Docs : log' = Append(log, d)
           \/ Deliver
           \/ /\ SkipMissing \/ DropUnread \/ Finish \/ Drop
              /\ worker' = Idle /\ position' = position + 1 /\ log' = log
           \/ worker' = Idle /\ position' = committed /\ log' = log
<1>1. CASE SkipMissing \/ DropUnread \/ Finish \/ Drop
  BY <1>1 DEF SkipMissing, MissingObject, DropUnread, threadVars, Finish, Finished, Drop, Dropped,
              Topic!Handled
<1>2. CASE Rebalance \/ Crash
  BY <1>2 DEF Rebalance, Crash, threadVars, Topic!Rewind
<1>3. CASE CommitOffset \/ UNCHANGED vars
  BY <1>3 DEF CommitOffset, Topic!Commit, vars, threadVars, topicVars
<1>. QED
  BY <1>1, <1>2, <1>3, RequestsLeaveConsumer

\* A trigger on its way stays on its way, unless the document fails or is gone, or its own
\* job finishes.
LEMMA AwaitedStays ==
    ASSUME TypeOK, CrashRedelivers, [Next]_vars, ~WorkerStep,
           NEW d \in Docs, Awaited(d), objects'[d] = objects[d]
    PROVE  \/ Awaited(d)'
           \/ d \in faulted'
           \/ objects'[d] = NoText
           \/ Finish /\ worker.doc = d /\ worker.text = objects[d]
<1>. USE DEF TypeOK, Topic!LogTypeOK, Topic!HasNext, Topic!NextTrigger
<1>1. ASSUME NEW u \in Uploaders, uploader[u].pc = "publish", uploader[u].doc = d
      PROVE  Awaited(d)' \/ d \in faulted'
  <2>1. CASE uploader'[u] = uploader[u]
    BY <1>1, <2>1 DEF Awaited
  <2>2. CASE log' = Append(log, d)
    <3>1. worker' = worker /\ position' = position
      <4>1. log' # log
        BY <2>2
      <4>. QED
        BY <4>1, ConsumerMoves DEF Deliver, topicVars
    <3>2. Len(log) + 1 \in position' + 1 .. Len(log') /\ log'[Len(log) + 1] = d
      BY <2>2, <3>1
    <3>3. Len(log) + 1 = position' + 1 => worker' = Idle
      BY <3>1 DEF CrashRedelivers
    <3>. QED
      BY <3>2, <3>3 DEF Awaited
  <2>. QED
    BY <1>1, <2>1, <2>2, PublishersStay
<1>2. ASSUME NEW i \in position + 1 .. Len(log), log[i] = d,
             i = position + 1 => worker = Idle \/ worker.text = objects[d]
      PROVE  \/ Awaited(d)'
             \/ d \in faulted'
             \/ objects'[d] = NoText
             \/ Finish /\ worker.doc = d /\ worker.text = objects[d]
  <2>1. CASE /\ worker' = worker /\ position' = position
             /\ log' = log \/ \E c \in Docs : log' = Append(log, c)
    <3>1. i \in position' + 1 .. Len(log') /\ log'[i] = d
      <4>1. log \in Seq(Docs) /\ position \in Nat
        OBVIOUS
      <4>2. CASE log' = log
        BY <1>2, <2>1, <4>2
      <4>3. ASSUME NEW c \in Docs, log' = Append(log, c)
            PROVE  i \in position + 1 .. Len(log') /\ log'[i] = d
        BY <1>2, <4>1, <4>3
      <4>. QED
        BY <2>1, <4>2, <4>3
    <3>2. i = position' + 1 => worker' = Idle \/ worker'.text = objects'[d]
      BY <1>2, <2>1
    <3>. QED
      BY <3>1, <3>2 DEF Awaited
  <2>2. CASE Deliver
    <3>1. i \in position' + 1 .. Len(log') /\ log'[i] = d
      BY <1>2, <2>2 DEF Deliver, topicVars
    <3>2. i = position' + 1 => worker'.text = objects'[d]
      BY <1>2, <2>2 DEF Deliver, topicVars, ReadObject
    <3>. QED
      BY <3>1, <3>2 DEF Awaited
  <2>3. CASE /\ SkipMissing \/ DropUnread \/ Finish \/ Drop
             /\ worker' = Idle /\ position' = position + 1 /\ log' = log
    <3>1. CASE i = position + 1
      <4>1. SkipMissing => objects[d] = NoText
        BY <1>2, <3>1 DEF SkipMissing, MissingObject
      <4>2. DropUnread => d \in faulted'
        BY <1>2, <3>1 DEF DropUnread, Fault
      <4>3. Finish \/ Drop => worker # Idle
        BY DEF Finish, Finished, Drop, Dropped, Idle
      <4>4. Finish \/ Drop => worker.doc = d /\ worker.text = objects[d]
        BY <1>2, <3>1, <4>3 DEF CrashRedelivers
      <4>5. Drop => d \in faulted'
        BY <4>4 DEF Drop, Fault
      <4>. QED
        BY <2>3, <4>1, <4>2, <4>4, <4>5
    <3>2. CASE i # position + 1
      <4>1. i \in position' + 1 .. Len(log') /\ log'[i] = d /\ worker' = Idle
        BY <1>2, <2>3, <3>2
      <4>. QED
        BY <4>1 DEF Awaited
    <3>. QED
      BY <3>1, <3>2
  <2>4. CASE worker' = Idle /\ position' = committed /\ log' = log
    <3>1. i \in position' + 1 .. Len(log') /\ log'[i] = d /\ worker' = Idle
      BY <1>2, <2>4
    <3>. QED
      BY <3>1 DEF Awaited
  <2>. QED
    BY <2>1, <2>2, <2>3, <2>4, ConsumerMoves
<1>. QED
  BY <1>1, <1>2 DEF Awaited

(***************************************************************************)
(* The strengthening is inductive, one lemma per group of steps.           *)
(***************************************************************************)

\* The pipeline does what its text says; while it runs no forget takes anything away.
LEMMA JobStep ==
    ASSUME TypeOK, QuietInv, JobOnCourse, WorkerStep
    PROVE  JobOnCourse'
<1>. USE DEF TypeOK, StoresTypeOK, JobOnCourse
<1>1. worker \in Job /\ worker.doc \in Docs /\ worker.text \in Texts
  BY StepsStayOnDocument DEF WorkerStep, Job
<1>2. CASE UpsertRaw
  BY <1>1, <1>2 DEF UpsertRaw, Job
<1>3. CASE LinkEntity
  BY <1>1, <1>3 DEF LinkEntity, Job
<1>4. CASE UpsertEnriched
  <2>1. /\ records' = [records EXCEPT ![worker.doc] = EnrichedRecord(worker.text)]
        /\ worker'.pc = "nodes" /\ worker'.doc = worker.doc /\ worker'.text = worker.text
        /\ worker'.ents = GraphIds(Mentions[worker.text])
        /\ worker.pc = "link" /\ worker.ents = {}
        /\ entities' = entities
    BY <1>1, <1>4 DEF UpsertEnriched, UpsertRecord, Job
  <2>2. Mentions[worker.text] \subseteq entities
    BY <2>1 DEF QuietInv, WorkerReached, LinkedSoFar
  <2>. QED
    BY <1>1, <2>1, <2>2
<1>5. CASE UpsertNodeBatch
  <2>1. PICK batch \in SUBSET worker.ents :
            nodes' = nodes \cup batch /\ worker' = [worker EXCEPT !.ents = @ \ batch]
    BY <1>5 DEF UpsertNodeBatch, UpsertNodes
  <2>2. /\ worker'.pc = "nodes" /\ worker'.doc = worker.doc /\ worker'.text = worker.text
        /\ worker'.ents = worker.ents \ batch
        /\ worker.pc = "nodes"
        /\ UNCHANGED <<records, entities>>
    BY <1>1, <1>5, <2>1 DEF UpsertNodeBatch, Job
  <2>. QED
    BY <2>1, <2>2
<1>6. CASE DropOldEdges
  <2>1. /\ edges' = [edges EXCEPT ![worker.doc] = NoEdges]
        /\ worker'.pc = "edges" /\ worker'.doc = worker.doc /\ worker'.text = worker.text
        /\ worker'.facts = Facts[worker.text]
        /\ worker.pc = "nodes" /\ worker.ents = {}
        /\ UNCHANGED <<records, entities, nodes>>
    BY <1>1, <1>6 DEF DropOldEdges, DeleteDocumentEdges, Job
  <2>2. \A x \in Triples : edges'[worker.doc][x] = 0
    BY <1>1, <2>1 DEF NoEdges
  <2>. QED
    BY <2>1, <2>2
<1>7. CASE WriteTripleBatch
  <2>1. PICK p \in Predicates :
          LET batch == {x \in worker.facts : x.p = p}
          IN  /\ CreateEdges(worker.doc, batch)
              /\ worker' = [worker EXCEPT !.facts = @ \ batch]
    BY <1>7 DEF WriteTripleBatch
  <2>. DEFINE batch == {x \in worker.facts : x.p = p}
  <2>2. /\ CreateEdges(worker.doc, batch)
        /\ worker'.pc = "edges" /\ worker'.doc = worker.doc /\ worker'.text = worker.text
        /\ worker'.facts = worker.facts \ batch
        /\ worker.pc = "edges"
        /\ UNCHANGED <<records, entities, nodes>>
    BY <1>1, <1>7, <2>1 DEF WriteTripleBatch, Job
  <2>3. worker.facts \subseteq Facts[worker.text]
    BY <2>2
  <2>4. ASSUME NEW x \in Triples
        PROVE  edges'[worker.doc][x] = (IF x \in Facts[worker.text] \ worker'.facts THEN 1 ELSE 0)
    <3>1. edges'[worker.doc][x] = IF x \in batch /\ {x.s, x.o} \subseteq nodes
                                    THEN edges[worker.doc][x] + 1
                                    ELSE edges[worker.doc][x]
      BY <1>1, <2>2 DEF CreateEdges
    <3>2. edges[worker.doc][x] = (IF x \in Facts[worker.text] \ worker.facts THEN 1 ELSE 0)
      BY <2>2
    <3>3. x \in batch => {x.s, x.o} \subseteq nodes
      BY <1>1, <2>2, <2>3, DataAssumption
    <3>. QED
      BY <2>2, <2>3, <3>1, <3>2, <3>3
  <2>. QED
    BY <2>2, <2>3, <2>4
<1>. QED
  BY <1>2, <1>3, <1>4, <1>5, <1>6, <1>7 DEF WorkerStep

\* The pipeline leaves what the other documents have.
LEMMA JobLeavesOthers ==
    ASSUME TypeOK, WorkerStep, NEW d \in Docs \ {worker.doc}, Current(d)
    PROVE  Current(d)'
<1>. USE DEF TypeOK, StoresTypeOK
<1>1. worker.doc \in Docs
  BY StepsStayOnDocument DEF WorkerStep, Job
<1>2. objects' = objects
  BY DEF WorkerStep, UpsertRaw, LinkEntity, UpsertEnriched, UpsertNodeBatch, DropOldEdges,
         WriteTripleBatch
<1>3. records'[d] = records[d]
  BY <1>1 DEF WorkerStep, UpsertRaw, LinkEntity, UpsertEnriched, UpsertNodeBatch, DropOldEdges,
              WriteTripleBatch, UpsertRecord
<1>4. entities \subseteq entities' /\ nodes \subseteq nodes'
  BY DEF WorkerStep, UpsertRaw, LinkEntity, UpsertEntity, UpsertEnriched, UpsertNodeBatch,
         UpsertNodes, DropOldEdges, WriteTripleBatch
<1>5. edges'[d] = edges[d]
  BY <1>1 DEF WorkerStep, UpsertRaw, LinkEntity, UpsertEnriched, UpsertNodeBatch, DropOldEdges,
              DeleteDocumentEdges, WriteTripleBatch, CreateEdges
<1>. QED
  BY <1>2, <1>3, <1>4, <1>5 DEF Current

\* A pipeline step loses nothing: the trigger it works for is still the next one.
LEMMA NothingLostWorkerStep ==
    ASSUME TypeOK, CrashRedelivers, QuietInv, NothingLost, WorkerStep
    PROVE  NothingLost'
<1>. USE DEF NothingLost
<1>1. /\ worker \in Job /\ worker.doc \in Docs
      /\ worker'.doc = worker.doc /\ worker'.text = worker.text
  BY StepsStayOnDocument DEF WorkerStep, Job, TypeOK
<1>2. worker # Idle
  BY <1>1 DEF Job, Idle
<1>3. UNCHANGED <<objects, uploader, eraser, log, position, faulted>>
  BY DEF WorkerStep, UpsertRaw, LinkEntity, UpsertEnriched, UpsertNodeBatch, DropOldEdges,
         WriteTripleBatch, topicVars, NoFault
<1>4. JobOnCourse'
  BY JobStep
<1>5. JobNotLast'
  BY <1>1, <1>2, <1>3 DEF JobNotLast, AwaitedLater
<1>6. ForgottenAnew'
  BY <1>2, <1>3 DEF QuietInv, NoOverlap, ForgottenAnew, Idle
<1>7. NoUpdateLost'
  <2>1. ASSUME NEW d \in Docs
        PROVE  objects'[d] = NoText \/ d \in faulted' \/ Current(d)' \/ Awaited(d)'
    <3>1. Awaited(d) => Awaited(d)'
      BY <1>1, <1>2, <1>3 DEF Awaited
    <3>2. CASE d # worker.doc
      <4>1. ~BeingForgotten(d)
        BY <1>2 DEF QuietInv, NoOverlap, BeingForgotten, Idle
      <4>. QED
        BY <1>3, <3>1, <3>2, <4>1, JobLeavesOthers DEF NoUpdateLost
    <3>3. CASE d = worker.doc
      <4>1. CASE objects[d] = worker.text
        <5>1. position + 1 \in position + 1 .. Len(log) /\ log[position + 1] = d
          BY <1>2, <3>3 DEF CrashRedelivers, Topic!HasNext, Topic!NextTrigger, TypeOK,
                            Topic!LogTypeOK
        <5>. QED
          BY <3>1, <4>1, <5>1 DEF Awaited
      <4>2. CASE AwaitedLater(d)
        BY <3>1, <4>2, LaterIsAwaited DEF TypeOK
      <4>. QED
        BY <1>2, <1>3, <3>3, <4>1, <4>2 DEF JobNotLast
    <3>. QED
      BY <3>2, <3>3
  <2>. QED
    BY <2>1 DEF NoUpdateLost
<1>. QED
  BY <1>4, <1>5, <1>6, <1>7

\* A forget takes nothing from a document that is stored as its bytes say, unless it is
\* the one being forgotten: its orphans are linked by no other record.
LEMMA ForgetLeavesOthers ==
    ASSUME TypeOK, QuietInv, NEW r \in Erasers, EraserStep(r),
           NEW d \in Docs, d # eraser[r].doc, objects[d] # NoText, Current(d)
    PROVE  Current(d)'
<1>. USE DEF TypeOK, StoresTypeOK
<1>1. eraser[r] \in Erasure /\ eraser[r].doc \in Docs
  BY DEF EraserStep, EraseEdges, EraseObject, FindOrphans, EraseNodes, EraseEntity, EraseRecord,
         ForgetTypeOK, Erasure, Idle
<1>2. objects[d] \in Texts
  OBVIOUS
<1>3. objects'[d] = objects[d] /\ records'[d] = records[d]
  BY <1>1 DEF EraserStep, EraseEdges, EraseObject, DeleteObject, FindOrphans, EraseNodes,
              EraseEntity, EraseRecord, DeleteRecord, storeVars
<1>4. Links(d) = Mentions[objects[d]]
  BY <1>2, CheckpointsWriteRecords DEF Current, Links, EnrichedRecord
<1>5. CASE EraseEdges(r)
  <2>1. edges'[d] = edges[d] /\ UNCHANGED <<entities, nodes>>
    BY <1>1, <1>5 DEF EraseEdges, DeleteDocumentEdges
  <2>. QED
    BY <1>3, <2>1 DEF Current
<1>6. CASE EraseObject(r) \/ FindOrphans(r) \/ EraseRecord(r)
  BY <1>3, <1>6 DEF EraseObject, FindOrphans, EraseRecord, storeVars, Current
<1>7. CASE EraseNodes(r)
  <2>1. eraser[r].orphans \cap Mentions[objects[d]] = {}
    BY <1>4, <1>7 DEF EraseNodes, QuietInv, ForgetReached, OrphansUnused
  <2>2. nodes' = nodes \ eraser[r].orphans /\ entities' = entities
    BY <1>7 DEF EraseNodes, DeleteNodes
  <2>3. GraphIds(Mentions[objects[d]]) \subseteq nodes'
    BY <2>1, <2>2 DEF Current, GraphIds
  <2>4. ASSUME NEW x \in Triples
        PROVE  edges'[d][x] = (IF x \in Facts[objects[d]] THEN 1 ELSE 0)
    <3>1. edges[d][x] = (IF x \in Facts[objects[d]] THEN 1 ELSE 0)
      BY DEF Current
    <3>2. edges'[d][x] = IF {x.s, x.o} \cap eraser[r].orphans = {} THEN edges[d][x] ELSE 0
      BY <1>7 DEF EraseNodes, DeleteNodes
    <3>3. x \in Facts[objects[d]] => {x.s, x.o} \subseteq Mentions[objects[d]]
      BY <1>2, DataAssumption DEF GraphIds
    <3>. QED
      BY <2>1, <3>1, <3>2, <3>3
  <2>. QED
    BY <1>3, <2>2, <2>3, <2>4 DEF Current
<1>8. CASE EraseEntity(r)
  <2>1. PICK e \in eraser[r].orphans : DeleteEntity(e)
    BY <1>8 DEF EraseEntity
  <2>2. e \notin Mentions[objects[d]]
    BY <1>4, <1>8 DEF EraseEntity, QuietInv, ForgetReached, OrphansUnused
  <2>. QED
    BY <1>3, <1>8, <2>1, <2>2 DEF EraseEntity, DeleteEntity, Current
<1>. QED
  BY <1>5, <1>6, <1>7, <1>8 DEF EraserStep

\* A step of a forget loses nothing but what it is asked to forget.
LEMMA NothingLostForgetStep ==
    ASSUME TypeOK, QuietInv, NothingLost, NEW r \in Erasers, EraserStep(r)
    PROVE  NothingLost'
<1>. USE DEF TypeOK, StoresTypeOK, NothingLost
<1>1. eraser[r] \in Erasure /\ eraser[r] # Idle /\ eraser[r].doc \in Docs
  BY DEF EraserStep, EraseEdges, EraseObject, FindOrphans, EraseNodes, EraseEntity, EraseRecord,
         ForgetTypeOK, Erasure, Idle
<1>2. worker = Idle /\ UNCHANGED <<worker, uploader, log, position, faulted>>
  BY <1>1 DEF EraserStep, QuietInv, NoOverlap, topicVars, NoFault
<1>3. \A q \in Erasers \ {r} : eraser'[q] = eraser[q]
  BY OtherForgets
<1>4. \A d \in Docs : objects'[d] \in {objects[d], NoText}
  BY <1>1 DEF EraserStep, EraseEdges, EraseObject, DeleteObject, FindOrphans, EraseNodes,
              EraseEntity, EraseRecord, storeVars
<1>5. \A d \in Docs : Awaited(d) => Awaited(d)'
  BY <1>2 DEF Awaited
<1>6. JobOnCourse' /\ JobNotLast'
  BY <1>2 DEF JobOnCourse, JobNotLast, Idle
<1>7. eraser'[r] = Idle \/ eraser'[r].doc = eraser[r].doc
  <2>1. CASE EraseEntity(r)
    BY <1>1, <2>1 DEF EraseEntity, ForgetTypeOK, Erasure
  <2>2. CASE ~EraseEntity(r)
    BY <1>1, <2>2 DEF EraserStep, EraseEdges, EraseObject, FindOrphans, EraseNodes, EraseRecord,
                      ForgetTypeOK, Erasure
  <2>. QED
    BY <2>1, <2>2
<1>8. ForgottenAnew'
  <2>1. ASSUME NEW q \in Erasers, eraser'[q].pc \in {"inuse", "nodes", "ents", "record"}
        PROVE  \/ objects'[eraser'[q].doc] = NoText
               \/ eraser'[q].doc \in faulted'
               \/ Awaited(eraser[q].doc)'
    <3>1. CASE q # r
      <4>1. eraser[q].doc \in Docs
        BY <1>3, <2>1, <3>1 DEF ForgetTypeOK, Erasure, Idle
      <4>. QED
        BY <1>2, <1>3, <1>4, <1>5, <2>1, <3>1, <4>1 DEF ForgottenAnew
    <3>2. CASE q = r /\ EraseObject(r)
      BY <1>1, <1>7, <2>1, <3>2 DEF EraseObject, DeleteObject, Idle
    <3>3. CASE q = r /\ ~EraseObject(r)
      <4>1. eraser[r].pc \in {"inuse", "nodes", "ents", "record"}
        BY <1>1, <2>1, <3>3 DEF EraserStep, EraseEdges, FindOrphans, EraseNodes, EraseEntity,
                                EraseRecord, ForgetTypeOK, Erasure, Idle
      <4>. QED
        BY <1>1, <1>2, <1>4, <1>5, <1>7, <2>1, <3>3, <4>1 DEF ForgottenAnew, Idle
    <3>. QED
      BY <3>1, <3>2, <3>3
  <2>. QED
    BY <2>1 DEF ForgottenAnew
<1>9. NoUpdateLost'
  <2>1. ASSUME NEW d \in Docs
        PROVE  \/ objects'[d] = NoText \/ d \in faulted' \/ Current(d)' \/ Awaited(d)'
               \/ BeingForgotten(d)'
    <3>1. CASE d = eraser[r].doc /\ EraseEdges(r)
      <4>1. eraser'[r].pc = "object"
        BY <1>1, <3>1 DEF EraseEdges, ForgetTypeOK
      <4>. QED
        BY <1>7, <3>1, <4>1 DEF BeingForgotten, Idle
    <3>2. CASE d = eraser[r].doc /\ EraseObject(r)
      BY <1>1, <3>2 DEF EraseObject, DeleteObject
    <3>3. CASE d = eraser[r].doc /\ ~EraseEdges(r) /\ ~EraseObject(r)
      <4>1. eraser[r].pc \in {"inuse", "nodes", "ents", "record"}
        BY <3>3 DEF EraserStep, FindOrphans, EraseNodes, EraseEntity, EraseRecord
      <4>. QED
        BY <1>1, <1>2, <1>4, <1>5, <3>3, <4>1 DEF ForgottenAnew
    <3>4. CASE d # eraser[r].doc
      <4>1. BeingForgotten(d) => BeingForgotten(d)'
        BY <1>3, <3>4 DEF BeingForgotten
      <4>. QED
        BY <1>2, <1>4, <1>5, <3>4, <4>1, ForgetLeavesOthers DEF NoUpdateLost
    <3>. QED
      BY <3>1, <3>2, <3>3, <3>4
  <2>. QED
    BY <2>1 DEF NoUpdateLost
<1>. QED
  BY <1>6, <1>8, <1>9

\* Every other step: uploads, the topic, failures, and a job that ends.
LEMMA NothingLostOtherStep ==
    ASSUME TypeOK, TypeOK', CrashRedelivers, QuietInv, QuietInv', NothingLost, [Next]_vars,
           ~WorkerStep, ~\E r \in Erasers : EraserStep(r)
    PROVE  NothingLost'
<1>. USE DEF NothingLost
<1>1. UNCHANGED <<records, entities, nodes, edges>>
  BY OthersLeaveStores
<1>2. \A d \in Docs : AwaitedLater(d)' => Awaited(d)'
  <2>1. (Topic!LogTypeOK => \A d \in Docs : AwaitedLater(d) => Awaited(d))'
    BY LaterIsAwaited, PTL
  <2>. QED
    BY <2>1 DEF TypeOK
<1>3. \A d \in Docs : objects'[d] = objects[d] \/ Awaited(d)'
  BY <1>2, BytesStay
<1>4. \A d \in faulted : d \in faulted' \/ Awaited(d)'
  BY <1>2, FailuresStay DEF TypeOK
<1>5. \A d \in Docs : Current(d) /\ objects'[d] = objects[d] => Current(d)'
  BY <1>1 DEF Current
<1>6. ASSUME NEW d \in Docs, Finish, worker.doc = d, worker.text = objects[d],
             objects'[d] = objects[d]
      PROVE  Current(d)'
  <2>1. worker.pc = "edges" /\ worker.facts = {}
    BY <1>6 DEF Finish, Finished
  <2>2. Current(d)
    BY <1>6, <2>1 DEF JobOnCourse, Current
  <2>. QED
    BY <1>5, <1>6, <2>2
<1>7. \A d \in Docs : Awaited(d) => \/ Awaited(d)' \/ d \in faulted' \/ objects'[d] = NoText
                                    \/ Finish /\ Current(d)'
  BY <1>3, <1>6, AwaitedStays
<1>8. JobOnCourse'
  <2>1. worker' = worker \/ worker'.pc \in {"idle", "raw"}
    BY OthersDoNotWrite
  <2>. QED
    BY <1>1, <2>1 DEF JobOnCourse
<1>9. JobNotLast'
  <2>. SUFFICES ASSUME worker' # Idle
                PROVE  \/ objects'[worker'.doc] \in {worker'.text, NoText}
                       \/ worker'.doc \in faulted'
                       \/ AwaitedLater(worker.doc)'
    BY DEF JobNotLast
  <2>1. CASE Deliver
    <3>1. objects' = objects /\ worker'.text = objects[worker'.doc]
      BY <2>1 DEF Deliver, ReadObject, storeVars
    <3>. QED
      BY <3>1
  <2>2. CASE worker' = worker /\ position' = position
    <3>1. worker # Idle /\ worker.doc \in Docs /\ position < Len(log)
      BY <2>2 DEF CrashRedelivers, Topic!HasNext, TypeOK, WorkerTypeOK, Job
    <3>2. objects'[worker.doc] = objects[worker.doc] \/ AwaitedLater(worker.doc)'
      <4>1. \A d \in Docs : objects'[d] = objects[d] \/ AwaitedLater(d)'
        BY BytesStay
      <4>. QED
        BY <2>2, <3>1, <4>1 DEF AwaitedLater
    <3>3. worker.doc \in faulted => worker.doc \in faulted' \/ AwaitedLater(worker.doc)'
      <4>1. \A d \in faulted : d \in faulted' \/ AwaitedLater(d)'
        BY FailuresStay
      <4>. QED
        BY <2>2, <4>1 DEF AwaitedLater
    <3>4. AwaitedLater(worker.doc) => AwaitedLater(worker.doc)' \/ worker.doc \in faulted'
      <4>1. \A d \in Docs : AwaitedLater(d) => AwaitedLater(d)' \/ d \in faulted'
        BY <2>2, <3>1, LaterStays
      <4>. QED
        BY <2>2, <3>1, <4>1 DEF AwaitedLater
    <3>. QED
      BY <2>2, <3>1, <3>2, <3>3, <3>4 DEF JobNotLast
  <2>. QED
    BY <2>1, <2>2, ConsumerMoves
<1>10. ForgottenAnew'
  <2>1. ASSUME NEW r \in Erasers, eraser'[r].pc \in {"inuse", "nodes", "ents", "record"}
        PROVE  \/ objects'[eraser'[r].doc] = NoText
               \/ eraser'[r].doc \in faulted'
               \/ Awaited(eraser[r].doc)'
    <3>1. eraser'[r] = eraser[r] /\ eraser[r].doc \in Docs
      BY <2>1, OthersLeaveForgets DEF TypeOK, ForgetTypeOK, Erasure, Idle
    <3>2. worker = Idle
      BY <2>1, <3>1 DEF QuietInv, NoOverlap, Idle
    <3>3. ~Finish
      BY <3>2 DEF Finish, Finished, Idle
    <3>. QED
      BY <1>3, <1>4, <1>7, <2>1, <3>1, <3>3 DEF ForgottenAnew
  <2>2. \A r \in Erasers : eraser'[r].pc \in {"inuse", "nodes", "ents", "record"}
                             => eraser'[r] = eraser[r]
    BY OthersLeaveForgets
  <2>. QED
    BY <2>1, <2>2 DEF ForgottenAnew
<1>11. NoUpdateLost'
  <2>1. ASSUME NEW d \in Docs, BeingForgotten(d)
        PROVE  BeingForgotten(d)' \/ d \in faulted'
    BY <2>1, ForgetsStay DEF BeingForgotten, Idle
  <2>. QED
    BY <1>3, <1>4, <1>5, <1>7, <2>1 DEF NoUpdateLost
<1>. QED
  BY <1>8, <1>9, <1>10, <1>11

\* Every step of the quiet service keeps it.
LEMMA NothingLostStep ==
    TypeOK /\ TypeOK' /\ CrashRedelivers /\ QuietInv /\ QuietInv' /\ NothingLost /\ [QuietNext]_vars
        => NothingLost'
<1>. SUFFICES ASSUME TypeOK, TypeOK', CrashRedelivers, QuietInv, QuietInv', NothingLost,
                     [QuietNext]_vars
              PROVE  NothingLost'
  OBVIOUS
<1>1. [Next]_vars
  BY DEF QuietNext
<1>. QED
  BY <1>1, NothingLostWorkerStep, NothingLostForgetStep, NothingLostOtherStep

\* When no forget runs while a document is processed, no accepted bytes are lost: unless a
\* failure hit the document, its record, entities, nodes and edges are what its bytes say,
\* or a trigger that will make them so is on its way, or it is being forgotten. So
\* "unchanged" is never the answer for bytes nobody will process, and a job that writes
\* what an older text said is always followed by another (accept puts, then publishes).
THEOREM NoAcceptedBytesLost == QuietSpec => []NoUpdateLost
<1>1. [QuietNext]_vars => [Next]_vars
  BY DEF QuietNext
<1>2. QuietSpec => [](TypeOK /\ CrashRedelivers)
  BY <1>1, ConsumerInvariant, PTL DEF QuietSpec, Spec
<1>3. NothingLost => NoUpdateLost
  BY DEF NothingLost
<1>. QED
  BY <1>2, <1>3, QuietInvariant, NothingLostInit, NothingLostStep, PTL DEF QuietSpec

(***************************************************************************)
(* What a forget sweeps away, when forgets take turns.                     *)
(***************************************************************************)

\* at most one forget is under way
Serial == \A q, r \in Erasers : eraser[q] # Idle /\ eraser[r] # Idle => q = r

\* Of what the forgotten document linked to, only the orphans still to be deleted and
\* what other records link to are left.
Swept ==
    \A r \in Erasers : eraser[r].pc \in {"nodes", "ents", "record"} =>
        eraser[r].linked \cap (entities \cup nodes)
            \subseteq (IF eraser[r].pc = "record" THEN {} ELSE eraser[r].orphans)
                      \cup UNION {Links(d) : d \in Docs \ {eraser[r].doc}}

\* A step of the one forget under way keeps it.
LEMMA SweptForgetStep ==
    ASSUME TypeOK, QuietInv, Serial, Swept, NEW r \in Erasers, EraserStep(r)
    PROVE  Swept'
<1>. USE DEF TypeOK, StoresTypeOK, ForgetTypeOK
<1>1. eraser[r] \in Erasure /\ eraser[r] # Idle /\ eraser[r].doc \in Docs
  BY DEF EraserStep, EraseEdges, EraseObject, FindOrphans, EraseNodes, EraseEntity, EraseRecord,
         Erasure, Idle
<1>2. \A q \in Erasers \ {r} : eraser'[q] = Idle
  BY <1>1, OtherForgets DEF Serial
<1>3. CASE EraseEdges(r) \/ EraseObject(r) \/ EraseRecord(r)
  <2>1. eraser'[r].pc \notin {"nodes", "ents", "record"}
    <3>1. CASE EraseEdges(r) \/ EraseObject(r)
      BY <1>1, <3>1 DEF EraseEdges, EraseObject, Erasure
    <3>2. CASE EraseRecord(r)
      BY <1>1, <3>2 DEF EraseRecord, Idle
    <3>. QED
      BY <1>3, <3>1, <3>2
  <2>. QED
    BY <1>2, <2>1 DEF Swept, Idle
<1>4. CASE FindOrphans(r)
  <2>. DEFINE orphans == eraser[r].linked \ EntitiesInUse(eraser[r].linked, eraser[r].doc)
  <2>1. /\ eraser'[r].pc = (IF orphans = {} THEN "record" ELSE "nodes")
        /\ eraser'[r].doc = eraser[r].doc /\ eraser'[r].linked = eraser[r].linked
        /\ eraser'[r].orphans = orphans
        /\ UNCHANGED <<records, entities, nodes>>
    BY <1>1, <1>4 DEF FindOrphans, storeVars, Erasure
  <2>2. \A e \in eraser[r].linked \ orphans : \E d \in Docs \ {eraser[r].doc} : e \in Links(d)
    BY DEF EntitiesInUse
  <2>3. \A d \in Docs : Links(d)' = Links(d)
    BY <2>1 DEF Links
  <2>. HIDE DEF orphans
  <2>4. eraser'[r].linked \cap (entities' \cup nodes')
            \subseteq (IF eraser'[r].pc = "record" THEN {} ELSE eraser'[r].orphans)
                      \cup UNION {Links(d)' : d \in Docs \ {eraser'[r].doc}}
    BY <2>1, <2>2, <2>3
  <2>. QED
    BY <1>2, <2>4 DEF Swept, Idle
<1>5. CASE EraseNodes(r)
  <2>1. /\ eraser'[r].pc = "ents" /\ eraser[r].pc = "nodes"
        /\ eraser'[r].doc = eraser[r].doc /\ eraser'[r].linked = eraser[r].linked
        /\ eraser'[r].orphans = eraser[r].orphans
        /\ nodes' \subseteq nodes
        /\ UNCHANGED <<records, entities>>
    BY <1>1, <1>5 DEF EraseNodes, DeleteNodes, Erasure
  <2>2. \A d \in Docs : Links(d)' = Links(d)
    BY <2>1 DEF Links
  <2>3. eraser'[r].linked \cap (entities' \cup nodes')
            \subseteq eraser'[r].orphans \cup UNION {Links(d)' : d \in Docs \ {eraser'[r].doc}}
    BY <2>1, <2>2 DEF Swept
  <2>. QED
    BY <1>2, <2>1, <2>3 DEF Swept, Idle
<1>6. CASE EraseEntity(r)
  <2>1. PICK e \in eraser[r].orphans :
            /\ DeleteEntity(e)
            /\ eraser' = [eraser EXCEPT
                 ![r].orphans = @ \ {e},
                 ![r].pc = IF eraser[r].orphans = {e} THEN "record" ELSE "ents"]
    BY <1>6 DEF EraseEntity
  <2>2. /\ eraser'[r].pc = (IF eraser[r].orphans = {e} THEN "record" ELSE "ents")
        /\ eraser[r].pc = "ents"
        /\ eraser'[r].doc = eraser[r].doc /\ eraser'[r].linked = eraser[r].linked
        /\ eraser'[r].orphans = eraser[r].orphans \ {e}
        /\ entities' = entities \ {e}
        /\ UNCHANGED <<records, nodes>>
    BY <1>1, <1>6, <2>1 DEF EraseEntity, DeleteEntity, Erasure
  <2>3. e \notin nodes
    BY <2>2 DEF QuietInv, ForgetReached, OrphansDetached
  <2>4. \A d \in Docs : Links(d)' = Links(d)
    BY <2>2 DEF Links
  <2>5. eraser'[r].linked \cap (entities' \cup nodes')
            \subseteq eraser'[r].orphans \cup UNION {Links(d)' : d \in Docs \ {eraser'[r].doc}}
    BY <2>2, <2>3, <2>4 DEF Swept
  <2>6. eraser'[r].pc = "record" => eraser'[r].orphans = {}
    BY <2>2
  <2>. QED
    BY <1>2, <2>5, <2>6 DEF Swept, Idle
<1>. QED
  BY <1>3, <1>4, <1>5, <1>6 DEF EraserStep

\* Every step of the quiet service with forgets in turn keeps it.
LEMMA SweptStep == TypeOK /\ QuietInv /\ Serial /\ Swept /\ [QuietNext]_vars => Swept'
<1>. SUFFICES ASSUME TypeOK, QuietInv, Serial, Swept, [QuietNext]_vars PROVE Swept'
  OBVIOUS
<1>1. [Next]_vars
  BY DEF QuietNext
<1>2. CASE WorkerStep
  <2>1. worker # Idle /\ eraser' = eraser
    BY <1>2, StepsStayOnDocument DEF WorkerStep, TypeOK, Job, Idle
  <2>. QED
    BY <2>1 DEF QuietInv, NoOverlap, Swept, Idle
<1>3. CASE \E r \in Erasers : EraserStep(r)
  BY <1>3, SweptForgetStep
<1>4. CASE ~WorkerStep /\ ~\E r \in Erasers : EraserStep(r)
  <2>1. UNCHANGED <<records, entities, nodes>>
    BY <1>1, <1>4, OthersLeaveStores
  <2>2. \A r \in Erasers : eraser'[r] = eraser[r] \/ eraser'[r].pc \in {"idle", "edges"}
    BY <1>1, <1>4, OthersLeaveForgets
  <2>3. \A d \in Docs : Links(d)' = Links(d)
    BY <2>1 DEF Links
  <2>. QED
    BY <2>1, <2>2, <2>3 DEF Swept
<1>. QED
  BY <1>2, <1>3, <1>4

\* When forgets take turns and none runs while a document is processed, a forget that runs
\* to its end leaves none of the entities and nodes it read, unless another stored document
\* links to it (delete_document deletes what entities_in_use does not return).
THEOREM ForgetSweepsAll == QuietSpec /\ []Serial => ForgetSweeps
<1>1. Init => Swept
  BY DEF Init, ForgetInit, Idle, Swept
<1>2. Swept => [\A r \in Erasers : EraseRecord(r) =>
                    eraser[r].linked \cap (entities \cup nodes)
                        \subseteq UNION {Links(d) : d \in Docs \ {eraser[r].doc}}]_vars
  BY DEF Swept, EraseRecord
<1>. QED
  BY <1>1, <1>2, SweptStep, QuietTypeCorrect, QuietInvariant, PTL DEF QuietSpec, ForgetSweeps
=============================================================================
