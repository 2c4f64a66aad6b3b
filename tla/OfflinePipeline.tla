-------------------------- MODULE OfflinePipeline --------------------------
(***************************************************************************)
(* The written documents go through the offline pipeline of the benchmark: *)
(* sentences and capitalized names found by regular expressions, linking   *)
(* by name, edges between whatever a sentence names.  The documents are    *)
(* ingested in any order; what was extracted is collected for the scorers. *)
(***************************************************************************)
EXTENDS LlmWriter, Scoring

CONSTANTS
    Capitalized,    \* words that start with a capital
    Leading,        \* those that are stop words when they lead a name
    Folded,         \* word -> the word in lower case
    Digits,         \* the lower-case words, as digests order them
    RelatedTo       \* the predicate of every edge

VARIABLES
    waiting,        \* documents to ingest, by number
    ingested,       \* the documents that went through, in order
    extraction      \* what was collected from them

pipelineVars == <<waiting, ingested, extraction>>

Empty == [mentions |-> <<>>, triples |-> {}]

PipelineInit == waiting = {} /\ ingested = <<>> /\ extraction = Empty

(***************************************************************************)
(* HeuristicNerStage.                                                      *)
(***************************************************************************)
Blank == {Space, Newline}
Ends(text) == {k \in DOMAIN text : text[k] = Stop}

\* up to a full stop each, without the blanks in front
Segments(text) ==
    {x \in [start : 0 .. Len(text), end : 1 .. Len(text)] :
        /\ x.start < x.end /\ text[x.start + 1] \notin Blank \cup {Stop}
        /\ x.end = Len(text) \/ x.end \in Ends(text)
        /\ \A k \in x.start + 1 .. x.end - 1 : text[k] # Stop
        /\ \E z \in 0 .. x.start : /\ z = 0 \/ z \in Ends(text)
                                   /\ \A k \in z + 1 .. x.start : text[k] \in Blank}

Words(text, span) == SubSeq(text, span.start + 1, span.end)

\* runs of capitalized words, less the stop words that lead them
Names(text) ==
    LET titles == {x \in [start : 0 .. Len(text), end : 1 .. Len(text)] :
                        /\ x.start < x.end
                        /\ \A k \in x.start + 1 .. x.end : text[k] \in Capitalized
                        /\ x.start = 0 \/ text[x.start] \notin Capitalized
                        /\ x.end = Len(text) \/ text[x.end + 1] \notin Capitalized}
        led(r) == Max({0} \cup {n \in 1 .. r.end - r.start :
                        \A k \in r.start + 1 .. r.start + n : text[k] \in Leading})
    IN  {[r EXCEPT !.start = @ + led(r)] : r \in {x \in titles : led(x) < x.end - x.start}}

(***************************************************************************)
(* Linking by name, and HeuristicKgBuildStage.                             *)
(***************************************************************************)

\* the id is a digest of the name in lower case (and of the type, which is always the same)
Canonical(name) == [i \in DOMAIN name |-> Folded[name[i]]]

\* digests are ordered, in no way that means anything
Digest(id) ==
    FoldLeft(LAMBDA n, w : n * (Len(Digits) + 1) + (CHOOSE i \in DOMAIN Digits : Digits[i] = w),
             0, id)

Edge(a, b) == [subject |-> a, predicate |-> RelatedTo, object |-> b]

\* edges between the entities a sentence has a name of anywhere in it
Build(text) ==
    LET surfaces == {Words(text, r) : r \in Names(text)}
        present(s) == {Canonical(n) : n \in {x \in surfaces : Spans(Words(text, s), x) # {}}}
    IN  UNION {{Edge(p[1], p[2]) : p \in {x \in present(s) \X present(s) : Digest(x[1]) < Digest(x[2])}} :
                 s \in Segments(text)}

Found(d) ==
    LET names == InOrder(Names(docs[d].text), LAMBDA a, b : a.start < b.start)
    IN  [i \in DOMAIN names |->
            [span |-> [doc |-> d, start |-> names[i].start, end |-> names[i].end],
             id |-> Canonical(Words(docs[d].text, names[i]))]]

(***************************************************************************)
(* run_pipeline.                                                           *)
(***************************************************************************)
Corpus ==
    /\ jobs = <<>> /\ docs # <<>> /\ waiting = {} /\ ingested = <<>>
    /\ waiting' = DOMAIN docs
    /\ UNCHANGED <<ingested, extraction>>

\* a document that the pipeline drops leaves nothing: all in it is missed
Drop(d) == waiting' = waiting \ {d} /\ UNCHANGED <<ingested, extraction>>

Collected(so_far, d) ==
    [mentions |-> so_far.mentions \o Found(d), triples |-> so_far.triples \cup Build(docs[d].text)]

Ingest(d) ==
    /\ waiting' = waiting \ {d}
    /\ ingested' = Append(ingested, d)
    /\ extraction' = Collected(extraction, d)

Extract == Corpus \/ \E d \in waiting : Ingest(d) \/ Drop(d)

(***************************************************************************)
(* The gold of the written documents.                                      *)
(***************************************************************************)
GoldSpans == UNION {{[doc |-> d, start |-> m.start, end |-> m.end, surface |-> m.surface,
                      entity |-> m.entity] :
                        m \in UNION {docs[d].sentences[i].mentions :
                                       i \in DOMAIN docs[d].sentences}} : d \in DOMAIN docs}

SpanOf(g) == [doc |-> g.doc, start |-> g.start, end |-> g.end]

Stated == UNION {UNION {ToSet(docs[d].sentences[i].facts) : i \in DOMAIN docs[d].sentences} :
                   d \in DOMAIN docs}

GoldFrom ==
    [mentions |-> [span \in {SpanOf(g) : g \in GoldSpans} |->
                      (CHOOSE g \in GoldSpans : SpanOf(g) = span).entity],
     triples |-> {[subject |-> f.subject, predicate |-> f.predicate, object |-> f.object] :
                     f \in Stated}]

(***************************************************************************)
(* Evidence back to gold sentences.                                        *)
(***************************************************************************)

\* a sentence of a document, by its text, else by its number, else with no facts
Locate(d, text, index) ==
    LET sentences == docs[d].sentences
        same == {i \in DOMAIN sentences : sentences[i].text = text}
        credit(i) == [doc |-> d, text |-> sentences[i].text, facts |-> sentences[i].facts]
    IN  IF same # {} THEN credit(Min(same))
        ELSE IF index \in DOMAIN sentences THEN credit(index)
        ELSE [doc |-> d, text |-> text, facts |-> <<>>]

\* edges by the better rank of their ends, then the supporting sentences
Evidence(response) ==
    LET last == Len(response.nodes) + 1
        place(id) == IF id \in ToSet(response.nodes)
                     THEN CHOOSE i \in DOMAIN response.nodes : response.nodes[i] = id ELSE last
        best(e) == IF place(e.subject) < place(e.object) THEN place(e.subject)
                   ELSE place(e.object)
        at(i) == best(response.edges[i])
        order == InOrder(DOMAIN response.edges,
                              LAMBDA i, k : at(i) < at(k) \/ (at(i) = at(k) /\ i < k))
    IN  [i \in DOMAIN order |-> response.edges[order[i]].from] \o response.supporting

\* located, each sentence once
Ranking(evidence) ==
    LET located == [i \in DOMAIN evidence |->
                        Locate(evidence[i].doc, evidence[i].text, evidence[i].index)]
        same(x, y) == x.doc = y.doc /\ x.text = y.text
    IN  FoldLeft(LAMBDA kept, x : IF \E i \in DOMAIN kept : same(kept[i], x) THEN kept
                                 ELSE Append(kept, x), <<>>, located)

(***************************************************************************)
(* Shortcuts: what of a question can be had without its chain.  A question *)
(* is the path of facts it is about and its answer.                        *)
(***************************************************************************)

\* the last fact of the path, when the answer is one of its ends
FinalFacts(q) == {f \in {Last(q.path)} : q.answer \in {f.subject, f.object}}

\* who could fill the answer's place in the last fact, for all a guess knows
Pool(q, facts) ==
    LET place(f) == IF Last(q.path).subject = q.answer THEN f.subject ELSE f.object
    IN  {place(f) : f \in {x \in facts : x.predicate = Last(q.path).predicate}}

NamesAnswer(q, text) == \E name \in Surfaces(q.answer) : Spans(text, name) # {}

\* what the best k sentences give away, and what k random ones would
Measure(q, facts, sentences, ranking, k) ==
    LET final == Last(q.path)
        top == {ranking[i] : i \in {x \in DOMAIN ranking : x <= k}}
        path == ToSet(q.path) \subseteq FactsInTop(ranking, k)
        last == final \in FactsInTop(ranking, k)
        answer == \E s \in top : NamesAnswer(q, s.text)
        odds(S) == Chance(Cardinality(S), Cardinality(sentences), k)
    IN  [path |-> path, last |-> last, lastOnly |-> last /\ ~path,
         answer |-> answer, answerOnly |-> answer /\ ~path,
         chanceLast |-> odds({s \in sentences : final \in ToSet(s.facts)}),
         chanceAnswer |-> odds({s \in sentences : NamesAnswer(q, s.text)}),
         prior |-> <<1, Cardinality(Pool(q, facts))>>]
=============================================================================
