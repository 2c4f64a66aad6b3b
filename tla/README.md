# Verification of graph-rag-demo

`graph_rag` is a memory service: it takes texts, links what they mention to canonical
entities, writes a knowledge graph with provenance, answers questions from it, and forgets a
source on request. Beside it the repository keeps a generator of synthetic corpora with exact
gold (`kggen`, with a page of its own) and a benchmark that scores systems against them
(`kgbench`). This directory holds TLA+ models of all three, TLC configurations that check
them on small instances, and TLAPS proofs that hold for every instance. All paths below are
relative to the repository.

## 1. The system

| Component | State it keeps | Operations | What is hard |
|---|---|---|---|
| Upload API, `graph_rag/api.py`, `agent_api.py` | none of its own | `accept`: compare, put, publish | three calls of one request thread beside others for the same key |
| Object store, `adapters/minio_object_store.py` | bytes of each source | put, get, delete | a trigger names an object that is gone or newer |
| Trigger topic, `messaging/kafka_trigger.py` | log, position, committed offset | publish, poll, dispatch, commit | redelivery after a crash or a rebalance; a lost send |
| Orchestrator, `orchestrator.py` | none of its own | `process_document`, `delete_document` | a dozen remote writes each, in no transaction, in two threads |
| Document store, `adapters/es_document_store.py` | one record per document: raw, or with its links | upsert, get, delete, `entities_in_use` | who still links to an entity |
| Entity store, `adapters/es_entity_store.py` | canonical entities, names, aliases, vectors | upsert, get, delete, block search, kNN | stale copies written back |
| Graph store, `adapters/neo4j_graph_store.py` | nodes, edges with the document they come from | node batches per type, triple batches per predicate, deletes, k-hop read | a batch is a transaction, a document is not |
| Entity linking, `stages/entity_linking.py` | none of its own | block, score, merge or mint | identity of an entity across documents and removals |
| LLM client, `adapters/llm_client.py` | a directory of response files | `complete`, `structured` with retries | concurrent writers without a lock, a death while writing |
| Retriever, `query/retriever.py`, `query/ranking.py` | none of its own | seed, expand, walk, rank | five reads of three stores that others write |
| NER, coreference, KG build, `stages/` | the loaded spaCy model | load, read, cluster, filter, map | language models may answer anything |
| Scopes, ids, `scope.py`, `ids.py`, `adapters/scoping.py` | none of their own | mint, prefix, filter | one index, graph and bucket for all; records older than scopes |
| Generator, `datagen/kggen` | a world, its documents, questions and scenarios; a cache of replies | `generate`, `generate_questions`, `generate_scenario`, `render_documents`, `render_documents_llm` | hundreds of random draws; gold must be certain; threads and replies that are rejected |
| Generator UI, `datagen/kggen_ui` | the signals of a page | generate, derive, render, pick, export | ids start again with every world |
| Benchmark, `bench/kgbench` | what a run extracted, retrieved and answered; a cache of verdicts | ingest, score, judge, replay | a score must mean what it is named for |

`main.py` runs one process: the API's request threads and one consumer thread. They share
nothing but the stores and the topic. Uploads put bytes and send a trigger that names only
the document; the consumer reads the bytes when it gets there and runs the pipeline; forgets
and recalls are request threads that touch the same stores at the same time.

What makes each part correct:

- **ingesting and forgetting**: accepted bytes are not lost; reprocessing neither duplicates
  nor mixes edges; an entity goes exactly when nobody links to it; a call that failed
  part-way can be repeated;
- **linking**: a name has one entity, the same for every document, with a stable id;
- **cache**: what is returned is valid, is what the provider said up to its line ends,
  is settled once nobody is asking, and is paid for once;
- **recall**: the ranking measures what it says it does, whatever happens in between;
- **scopes**: a scope's memory is as if it were alone in the stores;
- **extraction**: nothing mentioned is lost, nothing is invented, readings do not mix;
- **generator**: worlds are what their spec says and gold is what the dated facts say;
- **page**: everything on it is about the world on screen, and a reply is paid for once;
- **benchmark**: spans read their names, scores are the shares they are named for, verdicts
  can be trusted and replayed.

`PROJECT.json` lists every component with its status and the hazards by source line.

## 2. The modules

| Module | Models | Used by |
|---|---|---|
| `Stores` | the four stores and what each remote write does to them | Upload, Worker, Forget |
| `TriggerLog` | the topic with one consumer | Service |
| `Upload` | `create_app.accept` | Service |
| `Worker` | `Orchestrator.process_document` | Service |
| `Forget` | `Orchestrator.delete_document` | Service |
| `Service` | the process: all of these with failures, crashes and fairness | MCService |
| `NameOwnership` | abstract: names and who owns them | EntityLinking |
| `EntityLinking` | `EntityLinkingStage.link` with removals by forgets | MCEntityLinking |
| `LlmCache` | `LiteLLMClient` and its cache directory | MCLlmCache |
| `Recall` | `QueryRetriever.retrieve`, `rank_nodes`, `khop`, with changes by others | MCRecall |
| `ScopeIds` | scopes, minted ids, object paths | the next two |
| `ScopedMemory` | abstract: a memory per scope, as the in-memory fakes keep it | ScopedAdapters |
| `ScopedAdapters` | the adapters' reads and writes with their filters, over shared stores | MCScopes |
| `Extraction` | what `process_document` makes of a text: NER, coreference, doc-level entities, KG build, record | MCExtraction |
| `World` | `generate`, its churn, names and look-alikes, and the statistics of the result | Questions, Scenario |
| `Questions` | `generate_questions`, every kind, and the benchmark's reader of names | MCQuestions |
| `Scenario` | `generate_scenario`, the shuffle and `apply_events` | MCQuestions |
| `GeneratorUI` | the page: `UI`'s handlers with their effects, `graph_view`, cache, export | MCGeneratorUI |
| `Documents` | the template writer, short and long | LlmWriter |
| `LlmWriter` | `render_documents_llm` with its threads, plain and rich | OfflinePipeline, Judging |
| `Scoring` | alignment and the scores of extraction, linking and retrieval, the gate's floors, the odds of a random draw | OfflinePipeline |
| `OfflinePipeline` | the offline NER, linking and KG build, in any order of documents, retrieval from a response, and the shortcut study | MCBenchmark |
| `Answers` | the scorers of typed and open-ended answers | MCBenchmark |
| `Harness` | `BenchmarkHarness` and the dataset metrics | MCBenchmark |
| `Judging` | faithfulness, judge, reader and critique over `CachedChat` | MCBenchmark |

Each has its instance in `MC...` and its proofs in `...Proofs`: `ServiceProofs`
for the service, `ScopesProofs` for `ScopeIds` and `ScopedAdapters`, `GeneratorProofs` for `World`,
`Questions` and `Scenario`, `LinkingAndCacheProofs` for `EntityLinking` and `LlmCache`, `BenchmarkProofs` for
`LlmWriter`, `Answers`, `Harness` and `Judging`, and one each for `Recall`, `Extraction` and `GeneratorUI`. The properties are in `...Properties`, or at the end of
the module where they are few. Operators commented "Wrong on purpose" are no part of any
specification. They are the bugs the properties are tried against.

**Atomicity.** One remote call is one step: an index, get or delete in Elasticsearch with
`refresh=True`, an object put, a Neo4j `execute_query` (one transaction, though the docstring
of `_run` says auto-commit). Between two calls any thread may run. The code
between two calls is local and belongs to the step before it or after it.

**Service.** A document is its scope and key, a text is a model value with the set of
entities it mentions and the set of facts it yields. So linking in `Service` is idempotent
by construction: that it is, is what `EntityLinking` is about. `edges[d]` is a bag, as Neo4j
creates parallel relationships. Node batches (one per type) and triple batches (one per
predicate) are separate steps in any order. Any call may raise (`UploadFails`, `Drop`, `DropUnread`,
`ForgetFails`); a crash clears all threads and rewinds the topic; a rebalance rewinds it. A
send may be lost without an error, as `publish` does not look at the result of `send`.
A remote call that fails has changed nothing: a write whose acknowledgement is lost and that the
driver sends again is not modelled.

**EntityLinking.** A surface form stands for its normalized name, and an id for the digest's
arguments: digests do not collide. kNN is approximate: it returns any `TopK` entities of the
type. The tie-breaker answers either way inside its margin; the run has it on, and with it off
the behaviours are a subset. One consumer links; a forget removes entities between its calls.

**LlmCache.** A response is written in blocks by `write_text` to the open file: truncated,
then block by block at the writer's own position, with other threads writing and reading the same
file. `write_text` keeps a text's line ends and `read_text` makes each a newline (`ReadText`), so who paid
and who asks later get the same text with different line ends. An instance does not show them: `Outcome`
is the text for `complete` and stands for what was parsed of it for `structured`. `Spec` lets threads share keys and die; `SerialSpec` is the environment with one caller
per key and no death while writing.

**Scopes.** A string the code joins with separators is the sequence of its parts, and a digest
is what it hashes, so that distinct names stay distinct just because of how they are joined. What is
older than scopes has no scope field. `Memory!` maps the shared stores to one memory per scope, by
the filter each adapter uses. A step of the adapters is attributed to the scope that calls, so
`OthersAreUntouched` is stated beside the refinement: the refinement alone would let a call
act on another scope, as long as that scope could have done the same.

**Extraction.** What spaCy, the language models and the linker answer is any member of a set of
answers, wrong ones included: clusters of nothing in the text, triples about entities that
were not offered, sentences that are not there. A run may be dropped between any two stores' calls.

**Generator.** Each draw of `random` is a nondeterministic choice, so a property holds for every
seed. An entity stands for its first name. A question is its kind, start, relations and gold;
wording is left out. Text is a sequence of words in `Documents`, where blanks, full stops and
paragraph breaks are symbols of different lengths, so that offsets are real offsets.

**Generator UI.** A handler runs to its end before the next, with the effects its signals
set off. A generation or a rendering may be refused or fail half-way.

**Benchmark.** The parts share only the written documents, so each behaviour exercises one:
writing, extraction, any guess a system could make, any response it could give, answers
sentence by sentence, the harness, the judges. Ratios are pairs
of numbers, so a share is exact where the code rounds floats.

**Recall.** The subgraph is read in three transactions, ids, nodes, edges, and the graph
may change before, between and after them by any of the graph store's writes. kNN may name
any entity, as the index and the graph are different stores. Sets are gone through in any
order. Scores are integers in parts of `Unit`, chosen so that every `1/(1+d)` of the instance
is exact.

## 3. What the runs check

| Run | Instance and bounds | Shows |
|---|---|---|
| `ServiceAll` | 2 documents, 2 texts with one shared entity, 1 uploader, 1 eraser; 2 accepts, 1 forget, 1 failure | under every interleaving edges come from one text, each once; offsets are not committed early |
| `ServiceQuiet` | as above with 2 uploaders and 2 forgets, under fairness | with no forget during processing: shared entities survive, the graph is grounded, the record goes last, no update is lost, a forget sweeps what nobody else uses, and every document no failure hit ends up as its bytes say |
| `CacheAll` | 2 threads, a plain and a structured key, 4 answers of which two differ in their line ends, retries, a crash | only valid instances are returned, an answered key is not paid for again, an answer is settled once nobody is in a call for it, every call ends |
| `CacheSerial` | as above in the serial environment | files are whole, everybody gets the same instance, and the same text up to its line ends |
| `Linking` | 1 type, 3 names of which one normalizes to nothing, 3 vectors, tie-breaker on | names stay disjoint, links agree, ids need no salt, seeds are kept, aliases are earned, and `NameOwnership` is implemented |
| `Recall` | 4 entities in a row, 2 seeds, depth 2, 2 changes | hop distances are shortest and are the graph's, seeds decide the answer, recalls end |
| `Scopes` | the default scope, a tenant and its namespace; 3 keys, 2 documents and 2 entities a scope, old records in each store | every query answers as if the scope were alone, nobody else's memory changes, and `ScopedMemory` is implemented |
| `Extraction` | 2 documents, a text with 4 mentions and an empty one, 2 spaCy models, 3 runs, answers that overlap, mix and invent | `ReadingIsFaithful` |
| `Questions` | worlds of 4 entities, 3 types, 2 relations and 3 years, ten specs that turn one knob each; 18 question specs, two scenarios | worlds are as specified, gold is right, names lead to it, scenarios replay |
| `GeneratorUI` | 3 worlds, one drawn whole and two too big in different ways; 2 forms each for questions and documents; 3 requests | the page is of one world and nothing is paid twice |
| `Benchmark` | 3 entities of which two share a name, 4 facts; 4 writers, 10 replies of the model, one of them with a name across two sentences, any linking of 4 mentions, responses of 2 edges and 2 sentences, 2 sentences an answer, 2 examples whose titles collide, 2 threads asking | the corpus is exact, scores and grades are fair, the harness stays warm, verdicts hold |
| `ReingestThenForget` | as `ServiceQuiet`, 1 uploader and 1 eraser | expected to fail, see below |

A property of the five runs from `Scopes` to `Benchmark` is a conjunction of named parts, each defined next to it with what
it means and the code it is about. `CorpusIsExact`, say, is that spans read their names,
mentions do not overlap, every fact is stated once, can be read and is found again, no answer is
asked for twice, and the altered documents, passages and labelled cases made of it are what they claim.

Why the bounds are enough: a shared entity needs two documents; a lost or mixed update needs
two accepts of one key; redelivery, a partial failure and a crash need one failure. The runs
that check interleavings have both kinds of thread at once. In `Recall` four nodes in a row are the
smallest graph on which a last-in-first-out walk gets a distance wrong, and two changes
delete a node and bring it back. Three scopes are a default, a tenant and a namespace of it,
the three shapes of a key; the keys include one that reads like another scope's. Four entities allow
a chain of three facts, a triangle, a tie, a branch and a pair of look-alikes; three years, a
fact that was replaced and one that was withdrawn. Each spec turns one knob because together
they only multiply the worlds. In the benchmark one name belongs to two entities, one name is
inside another and one has a full stop, which is where offsets, spans and sentences go wrong.
Where a property has a theorem (below) the bound matters for the
counterexamples only.

**Bounds.** `MaxAccepts`, `MaxForgets`, `MaxFaults`, `MaxCalls`, `MaxChanges`, `MaxRuns` bound how often the
environment acts, and are guards of its actions; `MCSmall` in `MCScopes` and `MCAnswered` in
`MCBenchmark` bound two instances. The other `Max...` constants are the code's own limits. The
runs of the service, the cache, extraction, questions and the benchmark switch deadlock checking off: when
what the environment may do is used up, or a batch program has finished, everything is idle.
`Linking`, `Recall`, `Scopes` and `GeneratorUI` are checked for deadlock.

**Fairness.** `run_forever` polls in a loop and never gives up on a trigger it was handed,
so the consumer's own steps are weakly fair; a request thread goes on with the request it has, so
its steps are. Nothing makes anybody upload, forget, ask, fail or crash. Failures are bounded
in liveness runs, as a provider or broker that always fails makes no promise.

### Disagreements with what the repository says

One run is expected to end in a violation; it checks what the API document and a test say.

- `ReingestThenForget`: a source remembered again with other text forgets which entities its first
  text named; a later forget leaves them behind.

More were met while modelling and have no run of their own.

In the service:

- `delete_document` asks who else uses an entity (`orchestrator.py:148`) and deletes it later. A
  document being linked at that moment has merged into the entity but its record says so only
  later (238), so the entity of a stored document may go. Two concurrent forgets of documents
  that share an entity each see the other's record at 148, and the entity stays for ever.
  `QuietSpec` excludes the first; `ForgetSweeps` is checked with one forget at a time, and
  proved under that hypothesis (`Serial`).
- `_write_cache` writes in place (`llm_client.py:253`). A death before the last byte leaves a file
  that is a hit for ever and makes every `structured` call for that key raise, while the docstring (175-176)
  says a malformed response is never cached. A second thread may read the truncated file and
  return it (161-165). `CacheSerial` excludes both; `CacheAll` shows what holds all the same.
- A hit of `complete` "returns the stored text" (`llm_client.py:158`), except that `read_text` (248) turns `"\r\n"` and
  `"\r"` into `"\n"`: the first caller gets the provider's text, later callers the other. `Repeatable` and
  `AnswersSettle` say what they have in common.
- Under `Spec`, where forgets overlap processing, `GraphGrounded` and `RecordGoesLast` fail too.
- The comments at `entity_linking.py:49-53` and `237-241` say that homonyms below the threshold get salted
  ids or reach the tie-breaker, while a block match always merges: `IdsAreDerived` holds just
  because the salted branch is never taken.
- KG build may write an edge from a node to itself, and each later document overwrites the name and
  aliases a node shows.

Between the fakes and the adapters: the fake graph keeps a triple whose endpoint is missing
(`fakes.py:269-271`) where Neo4j drops it silently, and keeps vectors; the fake object store takes `_scopes/`
keys in the default scope; the real `upsert_entities` leaves a node alone that another scope
owns. Which of equally near sentences or entities makes the cut is arbitrary in both.

In the generator and its page:

- A set or count question names the type of its first member and counts members of every type
  (`questions.py:304-371`).
- The stale name of an `as_of` or `latest` question may be a homonym of the gold, so that a right
  answer scores as stale. `cycle_rate` 1 and `homonym_rate` 1 raise, and the third loop at
  `world.py:210` is never entered. A tolerance of one hides an off-by-one in the statistics.
- `render_documents` says "covering every fact exactly once", and long documents repeat
  their neighbours' facts. In the rich style homonyms are attributed to the last
  entity of a name, and an object's name is accepted inside a longer listed one (`render_llm.py:161`), where line 7
  promises gold "as exact as the template renderer's": `StatedFactsCanBeRead` exempts
  exactly those lists of names.
- The subject's name is looked for in the sentences joined by blanks (`render_llm.py:165`), so one with a blank in it may
  end one sentence and begin the next, and the reply is kept although no sentence mentions the subject. The
  prompt asks for it "exactly as written in that sentence or an earlier one" (85). `StatedFactsCanBeRead` says that
  this is the only other way a subject goes without a mention. Extraction's oracle then
  misses the facts of an entity the gold mentions nowhere (`ScoresAreShares`).
- The response cache is per prompt, and namesakes may have documents with one prompt. Two threads that ask before either
  keeps its reply both pay; no later run does (`NothingIsAskedTwice`). A thread that reads a file
  while another writes it raises (`kggen/llm.py:60`, 65), which ends the run.
- The second ring of an open-ended question lists a fact at each near end of it
  (`questions.py:770-777`), so a fact between two near entities counts twice against `MAX_CONTEXT` and twice in the coverage.
- A scenario's update that finds no object while the deletes are used up is dropped.
- The page's highlight says "Only what is drawn" (`app.py:193-195`), and a graph drawn whole is handed
  ended facts, which have no edge. A mention's sentence is looked up by fact, so it may
  be another document's. An export after a refused form uses the default specs.

In the benchmark:

- Titles that make one object key drop a paragraph silently (`harness.py:134-137`, `164-166`). A half-failed
  ingest followed by one of other examples could title another text; examples given after
  the first ingest are scored without their paragraphs. A question that raises ends a run
  whose paragraphs are ingested, with no report (`QueryRaises`), and the next run starts warm.
- `_locate` falls back to the sentence's number (`graph_retriever.py`) and then credits facts of
  another sentence, where its docstring says evidence carries "the facts it truly expresses".
- "Precision is the share of listed items that name a gold entity" (`answers.py:11`), and only commas,
  semicolons, line breaks and "and" separate items (52): names written one a sentence are one item, where an unknown
  name costs nothing. `ListsAreExact` states what the code counts. An alias with a full stop ("M. Voss") is cut in
  two by `sentences_of`, so what is asked of single sentences, coverage and stale claims, never finds it.
- One item of a list that names two gold entities of one name is credited for both, and a right
  answer that also declines counts as a false refusal.
- A control that removes a fact expects MISSING; when another sentence relates the same two entities,
  the prompt's wording for WRONG fits as well. A reversed fact is true when the world has
  it, or when both ends share a name.
- Two threads that ask an identical prompt may report two verdicts of which one is kept, so a
  replay can differ from the live report in that row; and a run with an unreadable reply cannot be
  replayed from its own cache.
- The reader's passage "names the answer", and so does the last fact's sentence in the shortcut
  study (`shortcut.py:11`), except in rich text whose subject is a pronoun, and the
  judge's pronoun trap is seen through when one name is inside the other.

A point about ranking that is no disagreement but worth knowing: by `SeedsDecide`, with the default
weights no node that only the expansion found is ever the answer while a
seed with a non-negative similarity is in the graph.

## 4. What is proved

Every theorem is checked by TLAPS to the last step, for all documents, texts, keys, threads
and bounds the named assumptions allow.

- **Service, every interleaving** (`ServiceProofs`): `TypeCorrect`, `AtLeastOnce`, `OneText`.
  `OneText` needs what holds in between: from the delete of the old edges to the last
  batch the document has no edges but those the batches so far have written, each once
  (`WrittenOnce`). `AtLeastOnce` needs that the position never passes a trigger whose
  document is being processed.
- **Service, no forget during processing** (`ServiceProofs`): `SharedSurvives`, `Grounded`,
  `RecordLast`, `NoAcceptedBytesLost`, and `ForgetSweepsAll` with at most one forget at a time
  (`Serial`, without which it is false, see above). They are not inductive as they stand. `QuietInv`
  adds what each thread has established and may still rely on: a worker, that the entities it has
  linked are stored and its record is there; an eraser, that no record but its own names an orphan
  it is about to remove, that an orphan's node goes before the entity, and that the edges of its
  document are gone. For `ForgetSweepsAll` one more invariant follows an eraser's own orphans from
  the question who uses them to the two deletes.
- **Linking** (`LinkingAndCacheProofs`): all six properties, `LinkingImplementsOwnership` among
  them. `LinkInv` says what the linking thread knows while removals go on: nobody else has the
  mention's name, a copy it read is still the stored entity or that entity is gone, and nobody
  took one of its names in between, since only one thread links.
- **Cache** (`LinkingAndCacheProofs`): `ReturnedIsValid`, `NeverPaidTwice` and `AnswersAreSettled` for all behaviours,
  `WholeFiles` and `SameAnswer` in the serial environment. `SerialInv` ties the blocks in a file to
  its only writer's position.
- **Recall** (`RecallProofs`): `TypeCorrect`, `ShortestHops`, `SeedsAlwaysDecide`, `HopsAlwaysMatch`.
  The invariant is that of a breadth-first search: the queue holds reached nodes in order of distance,
  at most one apart, and a node that left it has handed its distance on and is no farther than any
  in it. `HopsAlwaysMatch` compares the walk with balls of growing radius, a recursive function. The
  library's induction cannot be used, so each induction takes the least number at which the claim
  fails and contradicts it (`LeastNat`): that the balls exist, that they are unique and grow, and that
  each is what the walk reached within that distance.
- **Scopes** (`ScopesProofs`): `QueriesAlwaysStay`, `OthersStayUntouched`, `EdgesAlwaysStay`, and
  `AdaptersImplementMemory`, that the adapters over one index, one graph and one bucket implement a
  memory per scope. First, names of different scopes are different: what ids hash and where
  `object_key` puts a key (`MintedApart`, `PathsApart`). Then `ScopesInv`: what is stored under an
  id that a scope minted is that scope's, the sentences of a stored document all have a vector or
  none has, the names an entity is searched by are its own, and an edge joins nodes of one scope. From these each action of the adapters is one
  of the memory it is attributed to and no step for any other.
- **Extraction** (`ExtractionProofs`): `FaithfulReading`, for any models and answers. The lemmas
  are about what the stages compute: doc-level entities cover every mention once, links go to
  entities of the mention's type, and triples are grounded in entities that were offered. `FaithfulInv`
  carries them from stage to stage, and from the record's checkpoint on ties the run under way to
  the record, also when the run before was dropped between two stores.
- **Generator UI** (`GeneratorUIProofs`): `PageStaysOfOneWorld` and `AnswersArePaidOnce`, for worlds,
  specs and caps of any size. `PageInv` says where each signal came from: the questions
  and documents on the page were derived from the world on it, what is picked is shown, and no
  more than one thing is emphasised. `PaidInv` counts: a prompt was sent once for its stored answer
  and once for every reply that was rejected, and what a model wrote is on the page only if it is stored. Below them are lemmas about `graph_view` and the layout: entities can
  be ranked by degree, the sample is the largest that fits, and the groups of facts that become
  documents use each fact once.

- **Corpus generator** (`GeneratorProofs`): `WorldIsRight`, `ScenariosAreRight`, `GoldIsAlwaysRight`,
  `NamesAlwaysReachTheGold`, for worlds, question specs and scenarios of any size.
  - `WorldInv` follows `generate` through its stages: which entities have a name yet and whose
    alias it may be, how many facts of each sort have been drawn against the budget the rates were rounded to, that a fact
    drawn later never states what an earlier one does, and that a successor starts in the year its
    predecessor ends. The knobs are realised because largest remainders give every
    share away and no more (`Apportion`), and the statistics agree because the breadth-first rounds are
    the entities at each distance: one round is what the last one touches, and a shortest chain of edges has
    one entity in each.
  - `ScenarioInv`: the changes of a scenario are about different current facts, and what
    its store holds is decided by which events have arrived. Any two orders then end alike.
  - `GoldInv`: each recorded question is right, shown per kind, and the jobs' quotas add up to what was
    asked for. The first part has lemmas on walks (no entity twice, so the facts of a walk are as many as
    its steps), on the answers of a path (all entities some chain typed alike ends at), and on shortest chains (those
    built through the layers are exactly the chains of that length). Worlds stay what they were
    while questions are made, so what `WorldInv` said of the facts is there to use.
  - The reader of names: entities that share a name are merged one name at a time, and each merge keeps the classes a partition of
    all that are named, so every entity is one thing to the reader. Following a question's path, the reader has reached
    the path's own entity after each step, and where every class is one entity is only where the
    relations lead. `LabelsInv` keeps what this needs: real entities have names, each finitely many.
  - Recursive functions and folds are unrolled once, from their equations at a number and the next, and
    induction is again over the least number at which a claim fails; sums over sets grow by one
    member at a time.
- **Benchmark** (`BenchmarkProofs`): `GradesAreAlwaysFair` for any questions, sentences and structures,
  `HarnessIsAlwaysWarm` for any files, subsets, object keys, answers and number of runs,
  `VerdictsAlwaysHold` for any batches, replies, interleavings of the threads and number of runs, and
  `NothingIsEverAskedTwice`, a part of `CorpusIsExact`.
  - Grades: an answer is made of sentences said and structures filled in (`AnswersInv`), so a step adds one
    sentence, fills in an empty answer or leaves it (`AnswersGrow`). The items of a text are
    a list of sets of names however its sentences run on into each other (`ItemsAreLists`, by the least number of sentences
    for which they would not be); a list's F1 is one only when precision and recall are; and
    a sentence joins two names by itself or not at all.
  - The harness: `HarnessInv` keeps, while an ingest goes on, that each paragraph's key has been seen or the
    paragraph is to come, that a seen key is indexed with the paragraph it is titled with, and that nothing
    was reported before; afterwards the titles never change. Examples are
    sorted by rank, and every rank is taken (`EveryPlaceIsTaken`). Token F1 counts
    words one after the other or each as often as it is there (`WordsCounted`): two answers share at most
    the words of each, and all of both only when they are alike, and of finitely many scores one is the best.
  - The language model as a writer: `LlmInv` says that what is kept for a prompt is valid, that a document paid for
    has its reply kept or about to be, and that namesakes with one prompt pay in the same run or not at all. Valid replies
    depend on the prompt alone, so what one thread kept another accepts.
  - The judges: two threads may ask one prompt at once and get different verdicts, of which one is kept; and a
    run that starts over is told nothing yet while the replies of earlier runs are kept. That a kept reply
    is one somebody was told is therefore not inductive, and `JudgingInv` says where every reply stands. What is kept
    can be read and came from the endpoint; some row was told it, or nobody was told anything of that
    prompt and whoever is at it holds the kept reply itself (`KeptIsRead`). A prompt with a verdict in the last report is
    kept with one that was reported, and a thread that holds a reply to it holds that one and never
    writes it again (`Replayed`), so nobody reads its file half-written. A move of
    a thread either waits (`QuietMove`) or takes one more verdict (`NextMove`), and each
    action is one of the two, or sends threads away or starts over. The rates count the judged rows by label and
    verdict (`TallyAddsUp`, sums by columns).

Only model-checked:

- **Liveness**: `EventuallyCurrent`, `CallsEnd`, `RecallEnds`. TLAPS does not treat `ENABLED`, so what
  rests on fairness stays with TLC.
- **The rest of the benchmark** (`ScoresAreFair`, and `CorpusIsExact` but for `NothingIsAskedTwice`): what batch
  programs compute of texts, folds over words, sentences and mentions.

**Assumptions.** They are named `...Assumption` in the modules that declare the constants, and TLC
evaluates them in every run. Most give types to what constants stand for: models, worlds, forms, records.
Those with content:

- `Recall`: `WProx > 0` (the default is 0.3), and a finite set of ids.
- `ScopeIds`: scopes include the default one, and the fixed words of an object path and of scope
  keys are told apart. `ScopedAdapters`: what is older than scopes has only ids and keys the default
  scope could have made, its edges join nodes that exist, and there are finitely many old documents.
- `Extraction`: a reading is a finite sequence of mentions; a linker that is asked for a type answers
  with an entity of that type, which `EntityLinking` shows of the stage; predicates that no rule maps fall
  back to one that is in the table.
- `World`: what the validator of the spec accepts, sets of entities and types that are finite, and for
  each name finitely many forms, one of which no entity has for its name. `Questions`: what the validator of a question spec
  accepts. `IsMix` is what both demand of weights.
- `Answers`: an open-ended question has something to cover (it is asked of entities with three facts or
  more), what a system knows apart from text has no sentences, and a sentence with no item is nothing but separators. `Harness`: ids can be compared, and an
  example has finitely many gold answers. `Judging`: a batch is a finite sequence of rows, a row a finite
  sequence of at least one prompt, and a check's reply that has one line a fact holds the words the
  parser accepts.
- `LlmCache`: valid answers stay valid with other line ends, and as many blocks long.
- `GeneratorUI`: facts and questions of a world are about its own entities, which `Questions` is
  about; a document is asked to hold at least one fact; no model is called "templates".

## 5. What is not modelled

- **Language models and spaCy**: any answer of a set. **Prose**: the wording of prompts,
  answers and sentences.
- **Character offsets of coreference chunks**, the prompts' layout, file formats, command lines,
  charts, status lines, counts that only tests read.
- **The benchmark's baselines, sweeps and published data sets** (`baselines.py`, `sweep.py`,
  `compare.py`, `real.py`, `cli.py`): they call what is modelled, take means over questions and
  seeds, and print.
- **The community mixing check** of the statistics: its tolerance needs 25 entities in each
  community to say anything.
- **Construction and configuration**, the demo script, the site: no behaviour of their own.
- **Acknowledgements lost after a write**, and Elasticsearch or Neo4j failing inside one call.

## 6. Plan

1. An abstract memory (sources, and what they entail) that `Service` under `QuietSpec`
   implements; the recall composed with it, so that an answer cites only sources that were
   remembered while it ran.
2. Proofs: that refinement, from `QuietInv`; and the parts of `CorpusIsExact` that say how offsets
   and mentions follow from the sentences put together.

The runs are one to a question; a new question is asked of the run of its component.
