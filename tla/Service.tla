------------------------------- MODULE Service -------------------------------
(***************************************************************************)
(* The running service: request threads that remember and forget, and the *)
(* consumer thread that processes triggers, over the shared stores and the *)
(* trigger topic, in one scope.  main() wires exactly these.               *)
(*                                                                         *)
(* Spec lets every interleaving happen.  QuietSpec is the same system in   *)
(* an environment that never forgets while a document is being processed.  *)
(***************************************************************************)
EXTENDS Stores, Upload, Worker, Forget, Sequences

CONSTANTS MaxAccepts, MaxForgets, MaxFaults     \* bounds of a finite instance

ASSUME BoundsAssumption ==
    /\ MaxAccepts \in Nat
    /\ MaxForgets \in Nat
    /\ MaxFaults \in Nat

VARIABLES
    log, position, committed,   \* the topic, see TriggerLog
    faulted,        \* history: documents a failure hit since their bytes were last put
    spent           \* what was used of each bound

Topic == INSTANCE TriggerLog WITH Messages <- Docs

threadVars == <<uploader, worker, eraser>>
topicVars == <<log, position, committed>>
vars == <<storeVars, threadVars, topicVars, faulted, spent>>

TypeOK ==
    /\ StoresTypeOK
    /\ UploadTypeOK
    /\ WorkerTypeOK
    /\ ForgetTypeOK
    /\ Topic!LogTypeOK
    /\ faulted \in SUBSET Docs
    /\ spent \in [accepts : Nat, forgets : Nat, faults : Nat]

Init ==
    /\ StoresInit
    /\ UploadInit
    /\ WorkerInit
    /\ ForgetInit
    /\ Topic!LogInit
    /\ faulted = {}
    /\ spent = [accepts |-> 0, forgets |-> 0, faults |-> 0]

(***************************************************************************)
(* Something raises, or the process dies: the documents in `docs` may not  *)
(* end up as their bytes say.                                              *)
(***************************************************************************)
Fault(docs) ==
    /\ spent.faults < MaxFaults
    /\ spent' = [spent EXCEPT !.faults = @ + 1]
    /\ faulted' = faulted \cup docs

NoFault == UNCHANGED <<faulted, spent>>

(***************************************************************************)
(* Remember.                                                               *)
(***************************************************************************)
Remember(u, d, t, force) ==
    /\ spent.accepts < MaxAccepts
    /\ spent' = [spent EXCEPT !.accepts = @ + 1]
    /\ Accept(u, d, t, force)
    /\ UNCHANGED <<worker, eraser, topicVars, faulted>>

RememberUnchanged(u, d, t) ==
    /\ Unchanged(u, d, t, FALSE)
    /\ NoFault
    /\ UNCHANGED <<worker, eraser, topicVars>>

StoreBytes(u) ==
    /\ Put(u)
    /\ faulted' = faulted \ {uploader[u].doc}
    /\ UNCHANGED <<worker, eraser, topicVars, spent>>

\* Wrong on purpose: the request ends and no trigger is sent.
PublishNothing(u) ==
    /\ uploader[u].pc = "publish"
    /\ EndUpload(u)
    /\ NoFault
    /\ UNCHANGED <<worker, eraser, topicVars>>

Publish(u) ==
    /\ uploader[u].pc = "publish"
    /\ EndUpload(u)
    /\ Topic!Send(uploader[u].doc)
    /\ NoFault
    /\ UNCHANGED <<worker, eraser>>

\* a call raises, or the producer loses the message without an error: publish
\* flushes but never looks at the future that send returned
UploadFails(u) ==
    /\ EndUpload(u)
    /\ Fault(IF uploader[u].pc = "publish" THEN {uploader[u].doc} ELSE {})
    /\ UNCHANGED <<worker, eraser, topicVars>>

(***************************************************************************)
(* The consumer thread.                                                    *)
(***************************************************************************)
\* Wrong on purpose: the trigger counts as handled as soon as it is read.
DeliverAndAdvance ==
    /\ Topic!HasNext
    /\ ReadObject(Topic!NextTrigger)
    /\ Topic!Handled
    /\ NoFault
    /\ UNCHANGED <<uploader, eraser>>

Deliver ==
    /\ Topic!HasNext
    /\ ReadObject(Topic!NextTrigger)
    /\ NoFault
    /\ UNCHANGED <<uploader, eraser, topicVars>>

\* Wrong on purpose: a missing object wedges the consumer on its trigger.
RetryMissing ==
    /\ Topic!HasNext
    /\ MissingObject(Topic!NextTrigger)
    /\ NoFault
    /\ UNCHANGED <<uploader, eraser, topicVars>>

SkipMissing ==
    /\ Topic!HasNext
    /\ MissingObject(Topic!NextTrigger)
    /\ Topic!Handled
    /\ NoFault
    /\ UNCHANGED <<uploader, eraser>>

\* the object store fails in another way
DropUnread ==
    /\ worker = Idle
    /\ Topic!HasNext
    /\ Topic!Handled
    /\ Fault({Topic!NextTrigger})
    /\ UNCHANGED <<threadVars, storeVars>>

WorkerStep ==
    /\ \/ UpsertRaw
       \/ LinkEntity
       \/ UpsertEnriched
       \/ UpsertNodeBatch
       \/ DropOldEdges
       \/ WriteTripleBatch
    /\ NoFault
    /\ UNCHANGED <<uploader, eraser, topicVars>>

Finish ==
    /\ Finished
    /\ Topic!Handled
    /\ NoFault
    /\ UNCHANGED <<uploader, eraser>>

Drop ==
    /\ Dropped
    /\ Topic!Handled
    /\ Fault({worker.doc})
    /\ UNCHANGED <<uploader, eraser>>

CommitOffset ==
    /\ worker = Idle
    /\ Topic!Commit
    /\ NoFault
    /\ UNCHANGED <<threadVars, storeVars>>

\* a handler slower than the poll interval: the group rebalances and the
\* consumer starts again from the committed offset
Rebalance ==
    /\ worker = Idle
    /\ Topic!Rewind
    /\ Fault({})
    /\ UNCHANGED <<threadVars, storeVars>>

(***************************************************************************)
(* Forget.                                                                 *)
(***************************************************************************)
StartForget(r, d) ==
    /\ spent.forgets < MaxForgets
    /\ spent' = [spent EXCEPT !.forgets = @ + 1]
    /\ ReadRecord(r, d)
    /\ UNCHANGED <<uploader, worker, topicVars, faulted>>

ForgetNotFound(r, d) ==
    /\ NotFound(r, d)
    /\ NoFault
    /\ UNCHANGED <<uploader, worker, topicVars>>

EraserStep(r) ==
    /\ \/ EraseEdges(r)
       \/ EraseObject(r)
       \/ FindOrphans(r)
       \/ EraseNodes(r)
       \/ EraseEntity(r)
       \/ EraseRecord(r)
    /\ NoFault
    /\ UNCHANGED <<uploader, worker, topicVars>>

ForgetFails(r) ==
    /\ AbortErase(r)
    /\ Fault({eraser[r].doc})
    /\ UNCHANGED <<uploader, worker, topicVars>>

(***************************************************************************)
(* The process dies and is started again: every thread's state is gone,    *)
(* the stores and the topic stay.                                          *)
(***************************************************************************)
Crash ==
    /\ uploader' = [u \in Uploaders |-> Idle]
    /\ worker' = Idle
    /\ eraser' = [r \in Erasers |-> Idle]
    /\ Topic!Rewind
    /\ Fault({uploader[u].doc : u \in {v \in Uploaders : uploader[v].pc = "publish"}}
             \cup {eraser[r].doc : r \in {q \in Erasers : eraser[q] # Idle}})
    /\ UNCHANGED storeVars

Next ==
    \/ \E u \in Uploaders, d \in Docs, t \in Texts :
        \/ \E force \in BOOLEAN : Remember(u, d, t, force)
        \/ RememberUnchanged(u, d, t)
    \/ \E u \in Uploaders : StoreBytes(u) \/ Publish(u) \/ UploadFails(u)
    \/ Deliver \/ SkipMissing \/ DropUnread
    \/ WorkerStep \/ Finish \/ Drop
    \/ CommitOffset \/ Rebalance
    \/ \E r \in Erasers, d \in Docs : StartForget(r, d) \/ ForgetNotFound(r, d)
    \/ \E r \in Erasers : EraserStep(r) \/ ForgetFails(r)
    \/ Crash

Spec == Init /\ [][Next]_vars

\* no forget is under way while a document is being processed
NoOverlap == worker = Idle \/ \A r \in Erasers : eraser[r] = Idle

QuietNext == Next /\ NoOverlap'

QuietSpec == Init /\ [][QuietNext]_vars

(***************************************************************************)
(* Each thread goes on with the call it is in, and the consumer loop polls *)
(* forever; nobody has to remember or forget anything.                     *)
(***************************************************************************)
Fairness ==
    /\ WF_vars(Deliver \/ SkipMissing \/ WorkerStep \/ Finish)
    /\ \A u \in Uploaders : WF_vars(StoreBytes(u) \/ Publish(u))
    /\ \A r \in Erasers : WF_vars(EraserStep(r))

FairQuietSpec == QuietSpec /\ Fairness
=============================================================================
