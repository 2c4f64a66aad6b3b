------------------------ MODULE BenchmarkProperties ------------------------
(***************************************************************************)
(* What makes a score of the benchmark mean what it says.                  *)
(***************************************************************************)
EXTENDS OfflinePipeline, Answers, Harness, Judging

VARIABLES
    response,       \* what a retriever came back with
    part            \* the part of the benchmark a behaviour exercises

(***************************************************************************)
(* The written documents.                                                  *)
(***************************************************************************)

\* Every offset of the gold reads, in the text of the document, the sentence or the name it is
\* the offset of, and the name is one of its entity's: sentences are worded apart, at offset
\* zero or behind the one before, and moved (render.sentence, shifted; render_llm._mentions).
SpansReadTheirNames ==
    \A d \in DOMAIN docs : \A i \in DOMAIN docs[d].sentences :
        LET s == docs[d].sentences[i]
        IN  /\ SubSeq(docs[d].text, s.start + 1, s.end) = s.text
            /\ \A m \in s.mentions : /\ SubSeq(docs[d].text, m.start + 1, m.end) = m.surface
                                     /\ m.surface \in Surfaces(m.entity)

\* No two mentions of a document share a character, so a span is of one entity: a name inside a
\* longer one, or one name given to two entities, is no second mention (render_llm._mentions,
\* _find_spans).
MentionsDoNotOverlap ==
    \A d \in DOMAIN docs :
        LET mentions == UNION {docs[d].sentences[i].mentions : i \in DOMAIN docs[d].sentences}
        IN  \A m, n \in mentions : m = n \/ m.end <= n.start \/ n.end <= m.start

StatesOf(d, f) == {i \in DOMAIN docs[d].sentences : f \in ToSet(docs[d].sentences[i].facts)}

\* When writing is over, every fact of the world is stated once: chunks leave none out, whatever
\* their number, and an answer of the model that states one twice is not taken.  A long document
\* states all of its own, once each (render_documents, parse_rich).
FactsAreStatedOnce ==
    part = "corpus" /\ jobs = <<>> =>
        IF style = "long"
        THEN \E job \in ToSet(AllJobs) :
                /\ job.subject = docs[1].subject
                /\ \A f \in ToSet(job.facts) : Cardinality(StatesOf(1, f)) = 1
        ELSE \A f \in UNION {ToSet(FactsOf[e]) : e \in DOMAIN FactsOf} :
                Cardinality(UNION {{d} \X StatesOf(d, f) : d \in DOMAIN docs}) = 1

\* no listed name contains another one, and none is of two entities
Unmistakable(order) ==
    \A i, k \in DOMAIN order :
        \A a \in {<<order[i].subject, order[i].fact.subject>>, <<order[i].object, order[i].fact.object>>},
           b \in {<<order[k].subject, order[k].fact.subject>>, <<order[k].object, order[k].fact.object>>} :
            a = b \/ Spans(a[1], b[1]) = {}

\* the name is found in the text so far, but across the blank between two sentences
AcrossSentences(sentences, i, name) ==
    \E x \in Spans(UpTo(sentences, i), name) : \E k \in 1 .. i - 1 :
        x < Len(UpTo(sentences, k)) /\ Len(UpTo(sentences, k)) < x + Len(name)

SubjectName(order, f) == order[CHOOSE k \in DOMAIN order : order[k].fact = f].subject

\* A reader can find a stated fact: the sentence mentions its object, it or one before mentions
\* its subject, and its years are said.  The model's prose is trusted with this only when no
\* listed name hides in another; and a subject whose name begins in one sentence and ends in the
\* next is accepted although no sentence mentions it (parse_response, parse_rich).
StatedFactsCanBeRead ==
    \A d \in DOMAIN docs : \A i \in DOMAIN docs[d].sentences :
        (style = "rich" => Unmistakable(orders[d])) =>
            \A f \in ToSet(docs[d].sentences[i].facts) :
                /\ \E m \in docs[d].sentences[i].mentions : m.entity = f.object
                /\ \/ \E k \in 1..i : \E m \in docs[d].sentences[k].mentions : m.entity = f.subject
                   \/ /\ style = "rich"
                      /\ AcrossSentences(docs[d].sentences, i, SubjectName(orders[d], f))
                /\ f.to # Never \/ f.from > FirstYear =>
                      {f.to, f.from} \cap ToSet(docs[d].sentences[i].text) # {}

\* A good answer is not asked for again: not for the document it was for, by the run after one
\* that another document's answer ended, nor for a namesake's with the same prompt, but by
\* threads that all asked before the first of them kept its answer (render_documents_llm).
NothingIsAskedTwice ==
    \A i, j \in Jobs :
        /\ Len(paid[j]) <= 1
        /\ \A m \in DOMAIN paid[i], n \in DOMAIN paid[j] :
              PromptOf(i) = PromptOf(j) => paid[i][m] = paid[j][n]

(***************************************************************************)
(* Extraction and linking.                                                 *)
(***************************************************************************)
Done == docs # <<>> /\ waiting = {}

InFileOrder == FoldLeft(Collected, Empty, SortSeq(ingested, LAMBDA d, e : d < e))

\* The order documents are ingested in changes no score of the offline pipeline: ids are digests
\* of names, and the scorer breaks ties by entity (order.measure, extraction._align).
OrderIsIrrelevant ==
    Done /\ ingested # <<>> =>
        LET spans == DOMAIN Predicted(GoldFrom, extraction)
        IN  /\ Score(GoldFrom, extraction) = Score(GoldFrom, InFileOrder)
            /\ BCubed(GoldFrom, extraction, spans) = BCubed(GoldFrom, InFileOrder, spans)

\* A sentence of the template writer is found as written by the pipeline's regular expressions,
\* blanks and paragraph breaks apart, unless a name in it has a full stop: that is what lets
\* evidence be credited with the facts of its sentence (_segment, graph_retriever._locate).
SentencesAreFound ==
    \A d \in DOMAIN docs : \A i \in DOMAIN docs[d].sentences :
        LET s == docs[d].sentences[i]
        IN  Ends(s.text) = {Len(s.text)} =>
                [start |-> s.start, end |-> s.end] \in Segments(docs[d].text)
                    \/ \E m \in UNION {docs[d].sentences[k].mentions : k \in DOMAIN docs[d].sentences} :
                          Ends(m.surface) # {}

Fair(prf) ==
    /\ prf.correct <= prf.predicted /\ prf.found <= prf.gold
    /\ prf.found = 0 <=> prf.correct = 0

\* Recall is a share of the gold however often a fact is predicted: several canonical entities of
\* one entity may all predict it, and that costs precision only.  A triple right in direction and
\* predicate is right as an edge, the counts of the predicates add up, and what says exactly the
\* gold scores everything but the facts with an end that the gold mentions nowhere, which nothing
\* can be aligned with (extraction.score, oracle).
ScoresAreShares ==
    Done =>
        LET score == Score(GoldFrom, extraction)
            predicates == {t.predicate : t \in GoldFrom.triples \cup extraction.triples}
            each(p) == ScorePredicate(GoldFrom, extraction, p)
            oracle == Score(GoldFrom, Oracle(GoldFrom))
            mentioned == {t \in GoldFrom.triples :
                             {t.subject, t.object} \subseteq Range(GoldFrom.mentions)}
        IN  /\ \A x \in DOMAIN score : Fair(score[x])
            /\ ingested = <<>> /\ extraction = Empty =>
                  /\ oracle.triples.correct = Cardinality(mentioned)
                  /\ \A x \in DOMAIN oracle :
                        x \in {"mentions", "entities"} \/ mentioned = GoldFrom.triples =>
                            /\ oracle[x].correct = oracle[x].predicted
                            /\ oracle[x].found = oracle[x].gold
            /\ score.triples.correct <= score.edges.correct
            /\ score.triples.correct = MapThenSumSet(LAMBDA p : each(p).correct, predicates)
            /\ score.triples.found = MapThenSumSet(LAMBDA p : each(p).found, predicates)

SameParts(f, g) == \A x, y \in DOMAIN f : f[x] = f[y] <=> g[x] = g[y]

\* B-cubed is about the mentions that were found: full precision when no cluster mixes entities,
\* full recall when no entity found is split, and both when the clusters are the entities, under
\* whatever ids (linking.score_linking).
LinkingIsGrouping ==
    Done =>
        LET predicted == Predicted(GoldFrom, extraction)
            truth == Restrict(GoldFrom.mentions, DOMAIN predicted)
            full == Unit * Cardinality(DOMAIN predicted)
            b == BCubed(GoldFrom, extraction, DOMAIN predicted)
            mixed == \E x, y \in DOMAIN predicted : predicted[x] = predicted[y] /\ truth[x] # truth[y]
            split == \E x, y \in DOMAIN predicted : predicted[x] # predicted[y] /\ truth[x] = truth[y]
        IN  /\ b.precision = full <=> ~mixed
            /\ b.recall = full <=> ~split
            /\ (b.precision = full /\ b.recall = full) <=> SameParts(predicted, truth)

Ambiguous == SharedIds([e \in Entities |-> Surfaces(e)])

\* What is counted apart for entities that share a name, and for those that do not, adds up to
\* what is counted together (split.extraction).
SplitsAddUp ==
    Done =>
        LET apart == Split(GoldFrom, extraction, Ambiguous, TRUE)
            rest == Split(GoldFrom, extraction, Ambiguous, FALSE)
            score == Score(GoldFrom, extraction)
        IN  /\ apart.mentions[1] + rest.mentions[1] = score.mentions.found
            /\ apart.mentions[2] + rest.mentions[2] = score.mentions.gold
            /\ apart.triples[1] + rest.triples[1] = score.triples.found
            /\ apart.triples[2] + rest.triples[2] = score.triples.gold

Margins == {0, 200}

\* A gate never fails on the measurement its floors were taken from: they are rounded down. A
\* metric may then lose the margin and no more than the rounding beyond it, and one that is not
\* measured any more fails (gate.floors_from, check).
GateHoldsItsFloors ==
    Done =>
        LET best == Metrics(Score(GoldFrom, Oracle(GoldFrom)))
            now == Metrics(Score(GoldFrom, extraction))
            lost(n) == best[n][1] * now[n][2] - now[n][1] * best[n][2]     \* of best[n][2] * now[n][2]
        IN  \A margin \in Margins :
                LET floors == FloorsFrom(best, margin)
                IN  /\ Failures(now, FloorsFrom(now, margin)) = {}
                    /\ \A n \in DOMAIN now :
                          LET over(m) == lost(n) * Parts > m * best[n][2] * now[n][2]
                          IN  /\ n \in Failures(now, floors) => over(margin)
                              /\ n \in DOMAIN floors /\ over(margin + 1) => n \in Failures(now, floors)
                    /\ Failures(<<>>, floors) = DOMAIN floors

(***************************************************************************)
(* Retrieval.                                                              *)
(***************************************************************************)
Ranked == Ranking(Evidence(response))

\* Evidence is credited with facts that its document states, a sentence takes one place however
\* many edges it comes with, and a longer cut never finds less: so that recall at k, and having
\* the whole path by k, do not depend on repeats (graph_retriever.retrieve, retrieval.evaluate).
CutsAreMonotone ==
    response.asked =>
        /\ \A i, k \in DOMAIN Ranked :
              (Ranked[i].doc = Ranked[k].doc /\ Ranked[i].text = Ranked[k].text) => i = k
        /\ \A i \in DOMAIN Ranked :
              \A f \in ToSet(Ranked[i].facts) : StatesOf(Ranked[i].doc, f) # {}
        /\ \A gold \in SUBSET Stated : \A k \in 0 .. Len(Ranked) :
              LET score == ScoreRetrieval(gold, Ranked, k)
                  next == ScoreRetrieval(gold, Ranked, k + 1)
              IN  /\ score.found <= next.found /\ (score.path => next.path)
                  /\ k = 0 => score.found = 0
                  /\ score.path <=> gold # {} /\ score.found = score.gold

WorldFacts == UNION {ToSet(FactsOf[e]) : e \in DOMAIN FactsOf}

Chains ==
    {[path |-> p, answer |-> a] :
        p \in {<<f>> : f \in WorldFacts}
             \cup {p \in WorldFacts \X WorldFacts :
                      /\ p[1] # p[2]
                      /\ {p[1].subject, p[1].object} \cap {p[2].subject, p[2].object} # {}},
        a \in Entities}

\* The share of the k-subsets of all sentences with one that matches.
Share(matching, all, k) == <<Cardinality({S \in kSubset(k, all) : S \cap matching # {}}),
                             Cardinality(kSubset(k, all))>>

SameShare(x, y) == x[1] * y[2] = y[1] * x[2]

\* A shortcut is one: with the whole path there is no shortcut but its last fact is there; the last
\* fact's sentence names the answer, so that nothing else is needed; a guess can be right; and the
\* odds it is compared with are those of sentences drawn at random (shortcut.measure).
ShortcutsAreShortcuts ==
    response.asked =>
        LET all == {[doc |-> 1, text |-> s.text, facts |-> s.facts] : s \in ToSet(docs[1].sentences)}
        IN  \A q \in {x \in Chains : FinalFacts(x) # {}} : \A k \in 1..2 :
                LET m == Measure(q, WorldFacts, all, Ranked, k)
                    final == {s \in all : Last(q.path) \in ToSet(s.facts)}
                IN  /\ m.path => m.last /\ ~m.lastOnly /\ ~m.answerOnly
                    /\ m.last => m.answer
                    /\ m.lastOnly => m.answerOnly
                    /\ q.answer \in Pool(q, WorldFacts)
                    /\ SameShare(m.chanceLast, Share(final, all, k))
                    /\ SameShare(m.chanceAnswer, Share({s \in all : NamesAnswer(q, s.text)}, all, k))

(***************************************************************************)
(* Answers.                                                                *)
(***************************************************************************)
OnlyRefuses(answer) ==
    /\ answer = [NoText EXCEPT !.text = answer.text] /\ answer # NoText
    /\ \A i \in DOMAIN answer.text : /\ answer.text[i].declines
                                     /\ NamedIn(answer.text[i]) \cup answer.text[i].opens = {}
                                     /\ answer.text[i].number = Unsaid

\* A system that declines gets no question right that has an answer, and every one of them is
\* counted as declined; saying nothing is wrong too, but is no refusal (answers.evaluate).
RefusingPaysNothing ==
    LET refusing == {q \in Can : OnlyRefuses(answers[q])}
        silent == {q \in QuestionSet : answers[q] = NoText}
    IN  /\ refusing \subseteq Declined \ Right(Can)
        /\ silent \cap (Declined \cup Right(QuestionSet)) = {}
        /\ Report.falseRefusals[1] >= Cardinality(refusing)
        /\ Report.answerable[1] + Cardinality(refusing) + Cardinality(silent \cap Can)
              <= Report.answerable[2]

\* A list in text is right exactly when each of its items names something asked for and nothing
\* asked for is left out.  What commas, "and" and line breaks separate is an item, and one that
\* names nobody asked for costs precision; sentences separate nothing, so a name that shares its
\* item with one asked for, be it in the next sentence, costs none (answers._set).
ListsAreExact ==
    \A q \in {x \in QuestionSet : x.kind = "set" /\ answers[x].entities = Unsaid} :
        q \in Right(QuestionSet) <=>
            /\ Items(answers[q]) # <<>>
            /\ \A i \in DOMAIN Items(answers[q]) : \E k \in DOMAIN q.names :
                  q.names[k] \cap Items(answers[q])[i] # {}
            /\ \A k \in DOMAIN q.names : q.names[k] \cap NamedBy(answers[q]) # {}

Alone(answer, i) == [answer EXCEPT !.text = <<answer.text[i]>>]

\* A claim is made by one sentence: an answer covers, and wrongly claims, what its sentences do
\* each by itself, so names scattered over a text earn nothing (openended.covers, violates).
ClaimsAreMadeInASentence ==
    \A q \in {x \in QuestionSet : x.kind = "open_ended"} :
        /\ Covered(q, answers[q]) =
              UNION {Covered(q, Alone(answers[q], i)) : i \in DOMAIN answers[q].text}
        /\ Forbidden(q, answers[q]) =
              UNION {Forbidden(q, Alone(answers[q], i)) : i \in DOMAIN answers[q].text}

PastIsFree(q) ==
    LET said == Last(answers'[q].text)
    IN  Len(answers'[q].text) > Len(answers[q].text) =>
          CASE q.kind = "entity" ->
                  said.past /\ Grade(q, answers[q]).ok => Grade(q, answers'[q]).ok
            [] q.kind = "open_ended" ->
                  /\ Covered(q, answers[q]) \subseteq Covered(q, answers'[q])
                  /\ said.past => Forbidden(q, answers'[q]) = Forbidden(q, answers[q])
            [] OTHER -> TRUE

\* Adding a sentence about the past never makes a right answer to a question about the present
\* wrong, and adding any sentence never takes back what was covered (answers._entity,
\* openended.covers).
TalkOfThePastIsFree == [][\A q \in QuestionSet : PastIsFree(q)]_answers

(***************************************************************************)
(* The harness.                                                            *)
(***************************************************************************)

\* When sentences are scored, the corpus of the ingest that completed is indexed, and each key is
\* titled with the paragraph whose text is indexed under it: the first of the titles that make
\* one key, also when an earlier call raised half way (BenchmarkHarness.ingest_corpus).
TitlesMatchTexts ==
    call.stage = "scoring" /\ call.cold =>
        /\ \A i \in DOMAIN Paragraphs(call.examples) :
              KeyOf[Paragraphs(call.examples)[i].title] \in DOMAIN indexed
        /\ \A key \in call.seen : harness.titles[key] = indexed[key].title

\* Only one run pays: after it the corpus is never ingested again, and no report but the first
\* counts a call or another number of documents, also when the run that paid raised before it
\* could report (BenchmarkHarness.run).
LaterRunsAreFree ==
    \A i \in DOMAIN reports :
        /\ reports[i].cold => i = 1
        /\ ~reports[i].cold => reports[i].calls = 0
        /\ reports[i].documents = reports[1].documents

\* The two answer metrics agree at the top, for every answer there may be: an exact match has full
\* token F1, full token F1 has the words of some gold answer each as often, and none exceeds one
\* (metrics.exact_match, token_f1).
MetricsAgree ==
    call.stage = "scoring" =>
        \A i \in DOMAIN call.examples, p \in Predictions :
            LET golds == call.examples[i].golds
                f1 == TokenF1(p, golds)
                words(x) == NormalizeAnswer(x)
            IN  /\ f1[1] <= f1[2]
                /\ ExactMatch(p, golds) => f1[1] = f1[2]
                /\ f1[1] = f1[2] => \E g \in golds : /\ Len(words(p)) = Len(words(g))
                                                     /\ \A w \in ToSet(words(p)) :
                                                          Times(words(p), w) = Times(words(g), w)


(***************************************************************************)
(* Judging.                                                                *)
(***************************************************************************)
Delivered == part = "corpus" /\ jobs = <<>>

Told(sentences) ==
    {Statement(f, f.subject, f.object) :
        f \in UNION {ToSet(sentences[i].facts) : i \in DOMAIN sentences}}

\* An altered document is wrong about the one fact it was altered for and about no other: what is
\* left of the text states every listed fact but that one, whatever else the sentence that was
\* taken out might have said; and a reversed fact is one that no sentence states
\* (faithfulness._without_fact, _reversed_fact).
ControlsAreAltered ==
    Delivered =>
        \A i \in DOMAIN WithFacts(docs) :
            \A c \in WithoutFact(WithFacts(docs)[i]) \cup ReversedFact(WithFacts(docs)[i]) :
                \A k \in DOMAIN c.facts : c.facts[k] \in Told(c.sentences) <=> k # c.index

\* A chain's passage, or its documents, hold every fact of the path, the last fact's only if its sentences state the
\* others too, and what a template wrote names both ends of the last fact, subject first: so that
\* a right answer to it needs no chain, and is not read off the wrong way round
\* (reader.passages, faithfulness.word_order).
PassagesSuffice ==
    Delivered =>
        LET stated == UNION {ToSet(FactsIn(docs[d])) : d \in DOMAIN docs}
            named(text, e) == \E n \in Surfaces(e) : Spans(text, n) # {}
        IN  /\ \A path \in {<<f>> : f \in stated} \cup {<<f, g>> : f, g \in stated} :
                 LET p == Passages(path, docs)
                     last == path[Len(path)]
                 IN  /\ p["chain"].whole
                     /\ \A f \in ToSet(path) : \E d \in ToSet(ContextFor(path, docs)) :
                          f \in ToSet(FactsIn(d))
                     /\ p["last"].whole <=> ToSet(path) \subseteq Expressed(docs, Texts(docs, {last}))
                     /\ style \in {"short", "long"} =>
                          \A text \in p["last"].texts :
                             named(text, last.subject) /\ named(text, last.object)
            /\ style \in {"short", "long"} => LET order == WordOrder(docs)
                                              IN  order.objectFirst = 0 /\ order.subjectNotNamed = 0

\* the answer says the fact, under whichever names
Claims(c) ==
    \E claim \in c.claims : /\ claim.predicate = c.fact.predicate
                            /\ claim.subject \in Surfaces(c.fact.subject)
                            /\ claim.object \in Surfaces(c.fact.object)

\* no name of one end is inside the other's
Apart(f) == /\ ~NamesAny(Name[f.subject], f.object)
            /\ ~NamesAny(Name[f.object], f.subject)

\* A case's label is what its answer says of the fact, whatever other fact was drawn and whoever
\* shares a name with it; and the offline matcher is right on the cases it is meant to be right on
\* and wrong on the traps (judge.build_cases).
LabelsAreTrue ==
    \A c \in Cases(pool) :
        /\ c.label <=> Claims(c)
        /\ Apart(c.fact) =>
              (Covers(c.answer, c.fact) <=> c.kind \in {"stated", "negated", "co_mention"})

Reported(report, prompt) ==
    UNION {{report[r][k] : k \in {i \in DOMAIN report[r] : chat.rows[r][i] = prompt}} :
             r \in DOMAIN report}

\* Asked again, with an endpoint or from the cache alone, a prompt that some row had a verdict for
\* gets a verdict that was reported, also when two threads asked it at once; and when nothing was
\* unreadable the cache is all a replay needs (CachedChat and its callers).
ReplaysAgree ==
    chat.reports # <<>> =>
        LET report == Last(chat.reports)
        IN  /\ \A r \in DOMAIN chat.rows : \A k \in DOMAIN Got[r] :
                 LET before == Reported(report, chat.rows[r][k]) \ {None}
                 IN  before # {} => Got[r][k] \in before
            /\ ~chat.live /\ (\A r \in DOMAIN report : \A k \in DOMAIN report[r] : report[r][k] # None) =>
                 \A r \in DOMAIN chat.rows : chat.threads[r].stage # "failed"

Labelled(rates, label) == rates[<<label, TRUE>>] + rates[<<label, FALSE>>]

\* A judge that has no verdict leaves the case to the matcher, so that the two are compared over the
\* same cases; and every fact of a document that was read has one verdict (judge.evaluate,
\* faithfulness.tally).
RatesAddUp ==
    Finished /\ chat.rows # <<>> =>
        LET report == JudgeReport
            tally == Tally
        IN  /\ \A label \in BOOLEAN : Labelled(report.judge, label) = Labelled(report.matcher, label)
            /\ report.abstained = report.n => report.judge = report.matcher
            /\ (\A r \in Judged : Got[r][1] # None => (Got[r][1] = "YES" <=> CaseOf(r).label)) =>
                 \A label \in BOOLEAN :
                    report.judge[<<label, ~label>>] <= report.matcher[<<label, ~label>>]
            /\ tally.facts = SumFunction(tally.verdicts)

(***************************************************************************)
(* What the run checks.                                                    *)
(***************************************************************************)

\* The gold of the written documents is exact, whichever of the four writers wrote them, however
\* its threads took turns and whatever the language model answered: spans read their names,
\* every fact is stated, can be read and is found again, and no answer is paid for in two runs.
\* So are the altered documents, the passages and the labelled cases that are made of it.
CorpusIsExact ==
    /\ SpansReadTheirNames
    /\ MentionsDoNotOverlap
    /\ FactsAreStatedOnce
    /\ StatedFactsCanBeRead
    /\ SentencesAreFound
    /\ NothingIsAskedTwice
    /\ ControlsAreAltered
    /\ PassagesSuffice
    /\ LabelsAreTrue

\* A score of extraction, linking or retrieval is the share it is named for, in whatever order
\* documents came, entities were merged and evidence was ranked.
ScoresAreFair ==
    /\ OrderIsIrrelevant
    /\ ScoresAreShares
    /\ LinkingIsGrouping
    /\ SplitsAddUp
    /\ GateHoldsItsFloors
    /\ CutsAreMonotone
    /\ ShortcutsAreShortcuts

\* An answer is graded by what it says: declining, listing more or fewer, scattering names and
\* talking of the past earn and cost what they should, however the answer was built up.
GradesAreFair ==
    /\ [](RefusingPaysNothing /\ ListsAreExact /\ ClaimsAreMadeInASentence)
    /\ TalkOfThePastIsFree

\* One ingest feeds every later run of the harness, also after ingests that raised half way, and
\* what is scored against it is scored by metrics that agree.
HarnessIsWarm ==
    /\ TitlesMatchTexts
    /\ LaterRunsAreFree
    /\ MetricsAgree

\* What a model said of a document or an answer holds: asked again it is what was reported, and the
\* rates count every case once, whether or not there was a verdict.
VerdictsHold ==
    /\ ReplaysAgree
    /\ RatesAddUp
=============================================================================
