---------------------------- MODULE GeneratorUI ----------------------------
(***************************************************************************)
(* The page of the corpus generator (kggen_ui): one viewer generates       *)
(* worlds, derives questions, renders documents with templates or with an  *)
(* LLM behind a cache on disk, picks things to see them on the graph and   *)
(* prepares an export.  A handler runs to its end before the next, with    *)
(* the effects its changes set off.  The forms are read by the handlers    *)
(* only, so what they hold is an input of each; what a form the generator  *)
(* refuses changes is a status line, which is left out.                    *)
(*                                                                         *)
(* Ids are positions: the second question, document, fact or entity of two *)
(* worlds has the same id.                                                 *)
(***************************************************************************)
EXTENDS Integers, Sequences, FiniteSets, FiniteSetsExt

CONSTANTS
    Worlds,             \* the forms that generate
    Entities,           \* Worlds -> how many entities
    WorldFacts,         \* Worlds -> sequence of [subject, object, ended], by subject
    QuestionForms,
    Derivation,         \* Worlds -> QuestionForms -> the questions, <<>> when there are too few
    DefaultQuestions,   \* QuestionSpec()
    RenderForms,        \* [perDoc, words, context]
    DefaultRender,      \* RenderSpec()
    MaxWords,           \* MAX_RENDER_WORDS
    MaxGraphNodes, MaxGraphEdges,   \* what the graph component draws at most
    Models,             \* the language models behind the endpoint
    MaxCalls,           \* bound: requests the endpoint takes
    None                \* a signal without a value; a form that is refused

\* a question starts at an entity of its world and uses facts of it
Question(w) == [start : 1 .. Entities[w], facts : SUBSET (DOMAIN WorldFacts[w])]

ASSUME GeneratorUIAssumption ==
    /\ MaxGraphNodes \in Nat \ {0} /\ MaxGraphEdges \in Nat
    /\ Entities \in [Worlds -> Nat]
    /\ \A w \in Worlds :
        /\ WorldFacts[w] \in Seq([subject : 1 .. Entities[w], object : 1 .. Entities[w], ended : BOOLEAN])
        /\ \A form \in QuestionForms : Derivation[w][form] \in Seq(Question(w))
    /\ DefaultQuestions \in QuestionForms /\ DefaultRender \in RenderForms
    /\ RenderForms \subseteq [perDoc : Nat \ {0}, words : Nat, context : Nat]
    /\ "templates" \notin Models
    /\ None \notin Worlds \cup QuestionForms \cup RenderForms \cup Models

VARIABLES
    world,              \* the world on screen
    selected,           \* the entity clicked on the graph
    questions, questionSpec, picked,
    documents, docSource, renderSpec, pickedDoc, pickedFact,
    export,             \* export_file: what the zip on offer holds
    cache,              \* the answers on disk, by model and prompt
    calls,              \* history: model and prompt -> requests to the endpoint
    rejected            \* history: model and prompt -> answers that were not valid

screen == <<world, selected, questions, questionSpec, picked, documents, docSource,
            renderSpec, pickedDoc, pickedFact>>
disk == <<cache, calls, rejected>>
vars == <<screen, export, disk>>

(***************************************************************************)
(* What is drawn of a world: all of it, or, when it is too big for the     *)
(* graph component, the most connected entities that fit both of its limits,*)
(* with the facts between them.                                            *)
(***************************************************************************)

Degree(i, links) ==
    Cardinality({f \in links : f.subject = i}) + Cardinality({f \in links : f.object = i})

\* the position from which on an edge is drawn: that of its later end
CameIn(f, rank) == IF rank[f.subject] < rank[f.object] THEN rank[f.object] ELSE rank[f.subject]

Fits(nodes, links) ==
    Cardinality(nodes) <= MaxGraphNodes /\ Cardinality(links) <= MaxGraphEdges

\* how many entities are kept: the most connected, up to the one that brings the first edge
\* too many
Room(nodes, links, rank) ==
    LET crowded == {c \in 0 .. Cardinality(nodes) - 1 :
                      Cardinality({f \in links : CameIn(f, rank) <= c}) > MaxGraphEdges}
    IN  Min({MaxGraphNodes, Cardinality(nodes)} \cup crowded)

\* rank: nodes -> 0 .. n - 1, by falling degree
Shown(nodes, links, rank) ==
    IF Fits(nodes, links) THEN [nodes |-> nodes, edges |-> links, sampled |-> FALSE]
    ELSE LET kept == {i \in nodes : rank[i] < Room(nodes, links, rank)}
         IN  [nodes |-> kept,
              edges |-> {f \in links : f.subject \in kept /\ f.object \in kept},
              sampled |-> TRUE]

\* orders in which an entity never comes before a better connected one
Rankings(nodes, links) ==
    {r \in [nodes -> 0 .. Cardinality(nodes) - 1] :
        \A i, j \in nodes :
            /\ i # j => r[i] # r[j]
            /\ Degree(i, links) > Degree(j, links) => r[i] < r[j]}

(***************************************************************************)
(* The world on screen.                                                    *)
(***************************************************************************)
Nodes(w) == 1 .. Entities[w]

\* the facts with their ids
Facts ==
    [w \in Worlds |-> {[id |-> i, subject |-> WorldFacts[w][i].subject, object |-> WorldFacts[w][i].object,
      ended |-> WorldFacts[w][i].ended] : i \in DOMAIN WorldFacts[w]}]

FactWith(w, id) == CHOOSE f \in Facts[w] : f.id = id

\* the facts still true at the end, which is what the graph draws
Links == [w \in Worlds |-> {f \in Facts[w] : ~f.ended}]

\* by degree, then by id
Ranking(w) ==
    CHOOSE r \in Rankings(Nodes(w), Links[w]) :
        \A i, j \in Nodes(w) :
            Degree(i, Links[w]) = Degree(j, Links[w]) /\ i < j => r[i] < r[j]

Graph == [w \in Worlds |-> Shown(Nodes(w), Links[w], Ranking(w))]

(***************************************************************************)
(* Documents.                                                              *)
(***************************************************************************)
FactsAbout(w, i) == {f.id : f \in {x \in Facts[w] : x.subject = i}}

\* the facts of one document: the n-th group of at most perDoc facts about the subject
Group(w, i, n, perDoc) ==
    LET first == Min(FactsAbout(w, i)) + (n - 1) * perDoc
    IN  FactsAbout(w, i) \cap (first .. first + perDoc - 1)

\* a subject and the number of one of its groups
Groups(w, perDoc) ==
    {g \in Nodes(w) \X (1 .. Cardinality(Facts[w])) :
        FactsAbout(w, g[1]) # {} /\ Group(w, g[1], g[2], perDoc) # {}}

\* subjects in order, their groups in order: where a document stands says what it is about
LayoutOf(w, perDoc) ==
    LET groups == Groups(w, perDoc)
        before(g) == {h \in groups : h[1] < g[1] \/ (h[1] = g[1] /\ h[2] < g[2])}
    IN  [d \in 1 .. Cardinality(groups) |->
            LET g == CHOOSE x \in groups : Cardinality(before(x)) = d - 1
            IN  [subject |-> g[1], facts |-> Group(w, g[1], g[2], perDoc)]]

Layout == [w \in Worlds |-> [n \in {form.perDoc : form \in RenderForms} |-> LayoutOf(w, n)]]

\* facts about the objects of these facts, for context
Neighbouring(w, doc) ==
    {f.id : f \in {x \in Facts[w] :
        /\ x.subject # doc.subject
        /\ \E own \in doc.facts : FactWith(w, own).object = x.subject}}

Fewest(a, b) == IF a < b THEN a ELSE b

\* a long document also states some facts of its neighbours; the draw follows from the seeds
WithContext(w, doc, form) ==
    IF form.words = 0 THEN doc
    ELSE LET near == Neighbouring(w, doc)
         IN  [doc EXCEPT !.facts = @ \cup
                (CHOOSE S \in SUBSET near : Cardinality(S) = Fewest(form.context, Cardinality(near)))]

\* render_documents
Templates ==
    [w \in Worlds |-> [form \in RenderForms |->
        [d \in DOMAIN Layout[w][form.perDoc] |-> WithContext(w, Layout[w][form.perDoc][d], form)]]]

\* render_world: more words than the page renders at once is refused
Rendered(w, form) ==
    IF form = None THEN <<>>
    ELSE IF Entities[w] * form.words > MaxWords THEN <<>>
    ELSE Templates[w][form]

(***************************************************************************)
(* What the setters of the page change together.                           *)
(***************************************************************************)
Derived(w, form) == IF form = None THEN <<>> ELSE Derivation[w][form]

DropExport == export' = None

\* Wrong on purpose: the export stays on offer.
StillOnOffer(w, form) ==
    /\ UNCHANGED export
    /\ questions' = Derived(w, form) /\ questionSpec' = form
    /\ picked' = None

\* _set_questions
SetQuestions(w, form) ==
    /\ DropExport
    /\ questions' = Derived(w, form) /\ questionSpec' = form
    /\ picked' = None

\* _set_documents
SetDocuments(docs, form, source) ==
    /\ DropExport
    /\ documents' = docs /\ docSource' = source /\ renderSpec' = form
    /\ pickedDoc' = None /\ pickedFact' = None

(***************************************************************************)
(* The buttons.                                                            *)
(***************************************************************************)
Init ==
    /\ world = None /\ selected = None
    /\ questions = <<>> /\ questionSpec = None /\ picked = None
    /\ documents = <<>> /\ docSource = "templates" /\ renderSpec = None
    /\ pickedDoc = None /\ pickedFact = None
    /\ export = None
    /\ cache = {} /\ calls = <<>> /\ rejected = <<>>

\* Generate: always with templates
Generate(w, asks, renders) ==
    /\ world' = w /\ selected' = None
    /\ SetQuestions(w, asks)
    /\ SetDocuments(Rendered(w, renders), renders, "templates")
    /\ UNCHANGED disk

\* Derive questions
Derive(form) ==
    /\ world # None
    /\ SetQuestions(world, form)
    /\ UNCHANGED <<world, selected, documents, docSource, renderSpec, pickedDoc, pickedFact,
                   disk>>

\* Render documents, with the switch off
RenderTemplates(form) ==
    /\ world # None
    /\ SetDocuments(Rendered(world, form), form, "templates")
    /\ UNCHANGED <<world, selected, questions, questionSpec, picked, disk>>

(***************************************************************************)
(* Render documents, with the LLM.                                         *)
(***************************************************************************)

\* a prompt is the facts it lists and the model it is for
Prompt(w, doc, model) == <<model, w, doc.facts>>

Count(bag, k) == IF k \in DOMAIN bag THEN bag[k] ELSE 0

Counted(bag, S) ==
    [k \in DOMAIN bag \cup S |-> Count(bag, k) + (IF k \in S THEN 1 ELSE 0)]

Total(bag) == MapThenSumSet(LAMBDA k : bag[k], DOMAIN bag)

\* Wrong on purpose: the answers are stored when all of them are there.
StoredAtTheEnd(valid, complete) == IF complete THEN cache \cup valid ELSE cache

\* an answer is stored as soon as it proves valid
Stored(valid, complete) == cache \cup valid

\* a failed rendering leaves the documents on screen
LeaveAsIs(form) == UNCHANGED <<screen, export>>

\* The documents asked for and those that failed when the jobs up to one have been started and
\* the answers to some were not valid.  Without an endpoint what is not cached fails.
Attempt(jobs, model, online, started, bad) ==
    LET missing == {d \in 1..started : Prompt(world, jobs[d], model) \notin cache}
    IN  [asked |-> IF online THEN missing ELSE {},
         failed |-> IF online THEN bad \cap missing ELSE missing]

\* The jobs run in order on one worker.  The first that fails stops the rendering, but jobs
\* behind it may have been started before the rest are cancelled.
RenderLLM(form, model, online) ==
    /\ world # None
    /\ LET jobs == Layout[world][form.perDoc]
           prompts(D) == {Prompt(world, jobs[d], model) : d \in D}
       IN  \E started \in 1 .. Len(jobs) : \E bad \in SUBSET (1..started) :
            LET try == Attempt(jobs, model, online, started, bad)
                complete == try.failed = {} /\ started = Len(jobs)
            IN  /\ bad \subseteq try.asked
                /\ try.failed = {} => complete
                /\ Total(calls) + Cardinality(try.asked) <= MaxCalls
                /\ calls' = Counted(calls, prompts(try.asked))
                /\ rejected' = Counted(rejected, prompts(bad))
                /\ cache' = Stored(prompts(try.asked \ bad), complete)
                /\ IF complete
                     THEN /\ SetDocuments(jobs, form, model)
                          /\ UNCHANGED <<world, selected, questions, questionSpec, picked>>
                     ELSE LeaveAsIs(form)

(***************************************************************************)
(* Export.                                                                 *)
(***************************************************************************)
OrDefault(form, default) == IF form = None THEN default ELSE form

\* the zip is made again from the world and the specs, its documents from the templates; a
\* world that cannot supply the questions is exported without them
Archive ==
    [world |-> world,
     questions |-> Derivation[world][OrDefault(questionSpec, DefaultQuestions)],
     documents |-> Templates[world][OrDefault(renderSpec, DefaultRender)]]

PrepareExport ==
    /\ world # None
    /\ export' = Archive
    /\ UNCHANGED <<screen, disk>>

(***************************************************************************)
(* Picks, and the effects they set off.                                    *)
(***************************************************************************)
ClickEntity(i) ==
    /\ world # None /\ i \in Graph[world].nodes
    /\ selected' = i
    /\ UNCHANGED <<world, questions, questionSpec, picked, documents, docSource, renderSpec,
                   pickedDoc, pickedFact, export, disk>>

\* question_picked clears the sentence
PickQuestion(q) ==
    /\ q \in DOMAIN questions
    /\ picked' = q /\ pickedFact' = None
    /\ UNCHANGED <<world, selected, questions, questionSpec, documents, docSource, renderSpec,
                   pickedDoc, export, disk>>

\* document_opened clears the sentence
OpenDocument(d) ==
    /\ d \in DOMAIN documents /\ d # pickedDoc
    /\ pickedDoc' = d /\ pickedFact' = None
    /\ UNCHANGED <<world, selected, questions, questionSpec, picked, documents, docSource,
                   renderSpec, export, disk>>

\* a sentence of the open document; fact_picked clears the question
ClickSentence(f) ==
    /\ pickedDoc # None /\ f \in documents[pickedDoc].facts
    /\ pickedFact' = f /\ picked' = None
    /\ UNCHANGED <<world, selected, questions, questionSpec, documents, docSource, renderSpec,
                   pickedDoc, export, disk>>

Next ==
    \/ \E w \in Worlds, asks \in QuestionForms \cup {None}, renders \in RenderForms \cup {None} :
            Generate(w, asks, renders)
    \/ \E form \in QuestionForms \cup {None} : Derive(form)
    \/ \E form \in RenderForms \cup {None} : RenderTemplates(form)
    \/ \E form \in RenderForms, model \in Models, online \in BOOLEAN :
            RenderLLM(form, model, online)
    \/ PrepareExport
    \/ \E i \in UNION {Nodes(w) : w \in Worlds} : ClickEntity(i)
    \/ \E q \in DOMAIN questions : PickQuestion(q)
    \/ \E d \in DOMAIN documents : OpenDocument(d)
    \/ \E f \in UNION {DOMAIN WorldFacts[w] : w \in Worlds} : ClickSentence(f)

Spec == Init /\ [][Next]_vars

(***************************************************************************)
(* What the graph emphasises.                                              *)
(***************************************************************************)
Nothing == [nodes |-> {}, edges |-> {}]

\* gold_path: the entities and facts of the question, from its start
GoldPath(q) ==
    LET used == {FactWith(world, id) : id \in q.facts}
    IN  [nodes |-> {q.start} \cup UNION {{f.subject, f.object} : f \in used},
         edges |-> q.facts]

\* fact_highlight: a fact that ended has no edge to show
FactPath(f) == [nodes |-> {f.subject, f.object}, edges |-> IF f.ended THEN {} ELSE {f.id}]

\* the clicked sentence's fact, else the picked question's path
Wanted ==
    IF pickedFact # None THEN FactPath(FactWith(world, pickedFact))
    ELSE IF picked # None THEN GoldPath(questions[picked])
    ELSE Nothing

\* a sampled graph may lack part of a path
Restricted(wanted, drawn) ==
    IF ~drawn.sampled THEN wanted
    ELSE [nodes |-> wanted.nodes \cap drawn.nodes,
          edges |-> wanted.edges \cap {f.id : f \in drawn.edges}]

Highlight == IF world = None THEN Nothing ELSE Restricted(Wanted, Graph[world])

\* where the graph centres
Target ==
    IF pickedFact # None THEN FactWith(world, pickedFact).subject
    ELSE IF picked # None THEN questions[picked].start
    ELSE None

Focus ==
    IF world = None THEN None
    ELSE IF Graph[world].sampled /\ Target \notin Graph[world].nodes THEN None
    ELSE Target

(***************************************************************************)
(* What a viewer may rely on: everything on the page is about the world on *)
(* screen, whatever was pressed before, and a request is paid for once.    *)
(***************************************************************************)

\* A zip on offer holds the world, the questions and, unless an LLM wrote them, the documents
\* on the page: every change of one of them takes the old zip off.
ExportIsWhatIsShown ==
    export # None =>
        /\ export.world = world
        /\ questions # <<>> => export.questions = questions
        /\ (documents # <<>> /\ docSource = "templates") => export.documents = documents

\* What is picked is on the page: ids are reused by the next world, question set and
\* rendering, and a clicked sentence is one of the open document.
PicksAreShown ==
    /\ selected # None => world # None /\ selected \in Graph[world].nodes
    /\ picked # None => picked \in DOMAIN questions
    /\ pickedDoc # None => pickedDoc \in DOMAIN documents
    /\ pickedFact # None => pickedDoc # None /\ pickedFact \in documents[pickedDoc].facts

\* A question and a sentence are never emphasised together.
OneEmphasis == picked = None \/ pickedFact = None

\* The graph is asked to emphasise, and to centre on, only what it draws.  The exception is
\* the code's: a graph drawn whole is handed a question's facts that ended, which have no edge.
HighlightIsDrawn ==
    world # None =>
        LET drawn == Graph[world]
            ended == {f.id : f \in {x \in Facts[world] : x.ended}}
        IN  /\ Highlight.nodes \subseteq drawn.nodes
            /\ Highlight.edges \subseteq {f.id : f \in drawn.edges}
                 \cup (IF drawn.sampled \/ pickedFact # None THEN {} ELSE ended)
            /\ Focus # None => Focus \in Highlight.nodes

\* A sample keeps within both limits, leaves out nobody better connected than someone in it,
\* and has room for no one more.
SampleIsLargest ==
    world # None =>
        LET drawn == Graph[world]
            left == Nodes(world) \ drawn.nodes
            with(i) == {f \in Links[world] : {f.subject, f.object} \subseteq drawn.nodes \cup {i}}
        IN  /\ Fits(drawn.nodes, drawn.edges)
            /\ \A i \in drawn.nodes, j \in left : Degree(i, Links[world]) >= Degree(j, Links[world])
            /\ left # {} => \E i \in left : ~Fits(drawn.nodes \cup {i}, with(i))

\* Every fact is stated by a document about its subject, wherever else it is repeated.
FactsAreStatedAtHome ==
    documents # <<>> =>
        \A f \in Facts[world] :
            Cardinality({d \in DOMAIN documents :
                documents[d].subject = f.subject /\ f.id \in documents[d].facts}) = 1

\* One valid answer is paid for once per model and prompt, in whatever order renderings of
\* several worlds and forms stop and are retried, and what the page shows as written by a model
\* can be shown again without a request.
NothingIsPaidTwice ==
    /\ \A k \in DOMAIN calls : calls[k] = Count(rejected, k) + (IF k \in cache THEN 1 ELSE 0)
    /\ docSource # "templates" =>
        \A d \in DOMAIN documents : Prompt(world, documents[d], docSource) \in cache

\* Whatever was pressed before, the page is about one world: what is picked, emphasised, drawn,
\* stated and offered for download belongs to what is on screen now.
PageIsOfOneWorld ==
    /\ ExportIsWhatIsShown
    /\ PicksAreShown
    /\ OneEmphasis
    /\ HighlightIsDrawn
    /\ SampleIsLargest
    /\ FactsAreStatedAtHome
=============================================================================
