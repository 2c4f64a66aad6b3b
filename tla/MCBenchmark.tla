---------------------------- MODULE MCBenchmark ----------------------------
(***************************************************************************)
(* A world of three entities: a company whose alias is the name of another *)
(* one and whose other alias has a full stop, and a person.  The parts of  *)
(* the benchmark share nothing but the written documents, so a behaviour   *)
(* exercises one of them.                                                  *)
(***************************************************************************)
EXTENDS BenchmarkProperties

CONSTANTS zobiLabs, zobi, mara,                             \* entities
          Zobi, Labs, Mara, Voss, M, The,                   \* words
          zobi_, labs_, mara_, voss_, m_, the_,             \* the same in lower case
          foundedBy, employs, owns, has, offices, it, rained,
          passage, question, rater                          \* what a prompt is about

mcVars == <<documentVars, llmVars, pipelineVars, answers, harnessVars, judgingVars, response,
            part>>

(***************************************************************************)
(* The world and its writers.                                              *)
(***************************************************************************)
MCName == zobiLabs :> <<Zobi, Labs>> @@ zobi :> <<Zobi>> @@ mara :> <<Mara, Voss>>
MCAliases == zobiLabs :> {<<Zobi>>, <<M, Stop, Labs>>} @@ zobi :> {} @@ mara :> {}

Fact(s, p, o, from, to) == [subject |-> s, predicate |-> p, object |-> o, from |-> from, to |-> to]

MCFactsOf ==
    zobiLabs :> <<Fact(zobiLabs, foundedBy, mara, 2020, Never),
                  Fact(zobiLabs, owns, zobi, 2010, Never),
                  Fact(zobiLabs, employs, mara, 2010, 2015)>>
    @@ zobi :> <<Fact(zobi, employs, mara, 2010, 2015)>>

MCFrames == {<<<<The>>, <<has, offices>>>>}
MCPlain == <<it, rained>>
MCStyles == {"short", "long", "plain", "rich"}

MCFolded == Zobi :> zobi_ @@ Labs :> labs_ @@ Mara :> mara_ @@ Voss :> voss_ @@ M :> m_
            @@ The :> the_
MCCapitalized == DOMAIN MCFolded
MCDigits == <<mara_, zobi_, labs_, m_, voss_, the_>>
MCEntityOrder == <<zobiLabs, zobi, mara>>

Says(text, facts) == [facts |-> facts, text |-> text]

LabsSentence == <<Zobi, Labs, foundedBy, Mara, Voss, 2020, Stop>>

MCReplies == {
    \* a fact a sentence, the second in the passive, or the same name twice
    <<Says(LabsSentence, <<1>>), Says(<<Zobi, it, Zobi, Labs, Stop>>, <<2>>)>>,
    <<Says(<<M, Stop, Labs, foundedBy, Mara, Voss, 2020, Stop>>, <<1>>),
      Says(<<M, Stop, Labs, owns, Zobi, Stop>>, <<2>>)>>,
    \* both facts in one sentence, and one that calls the subject by no name
    <<Says(<<Zobi, Labs, foundedBy, owns, Mara, Voss, 2020, Zobi, Stop>>, <<2, 1>>)>>,
    <<Says(LabsSentence, <<1>>), Says(<<it, owns, Zobi, Stop>>, <<2>>)>>,
    \* the object of the first is named in the second; a fact said twice
    <<Says(<<Zobi, Labs, foundedBy, it, 2020, Stop>>, <<1>>),
      Says(<<it, owns, Mara, Voss, Zobi, Stop>>, <<2>>)>>,
    <<Says(LabsSentence, <<1>>), Says(LabsSentence, <<1>>)>>,
    \* one fact, with its year and without
    <<Says(<<Zobi, Labs, employs, Mara, Voss, 2015, Stop>>, <<1>>)>>,
    <<Says(<<Zobi, employs, Mara, Voss, 2015, Stop>>, <<1>>)>>,
    <<Says(<<Zobi, employs, Mara, Voss, Stop>>, <<1>>)>>,
    \* a name that begins in one sentence and ends in the next
    <<Says(<<it, rained, M, Stop>>, <<>>), Says(<<Labs, employs, Mara, Voss, 2015, Stop>>, <<1>>)>>}

\* the documents that guesses and rankings are about
Written(text, fact, s, o, at) ==
    Sentence(text, at, <<fact>>,
             {Mention(fact.subject, s, at), Mention(fact.object, o, at + Len(s) + 1)})

GivenDocs ==
    LET f == MCFactsOf[zobiLabs]
        one == Written(LabsSentence, f[1], <<Zobi, Labs>>, <<Mara, Voss>>, 0)
        two == Written(<<Zobi, owns, Zobi, Stop>>, f[2], <<Zobi>>, <<Zobi>>, 8)
    IN  <<[subject |-> zobiLabs, sentences |-> <<one, two>>, decoy |-> FALSE,
           text |-> one.text \o <<Space>> \o two.text]>>

Span(start, end) == [doc |-> 1, start |-> start, end |-> end]
GivenSpans == <<Span(0, 2), Span(3, 5), Span(8, 9), Span(10, 11)>>

Missed == "missed"
GuessIds == {Missed, NoId, "k1", "k2", "k3"}

Triple(a, p, b) == [subject |-> a, predicate |-> p, object |-> b]
GuessTriples == {Triple("k1", foundedBy, "k2"), Triple("k2", foundedBy, "k1"),
                 Triple("k3", foundedBy, "k2")}

\* any entity for any mention, then a span of none or a span found twice, or any triples
Linked(ids) == [mentions |-> SelectSeq([i \in 1..4 |-> [span |-> GivenSpans[i], id |-> ids[i]]],
                                       LAMBDA m : m.id # Missed),
                triples |-> {}]

Guess ==
    /\ \/ extraction = Empty /\ extraction' \in {Linked(ids) : ids \in [1..4 -> GuessIds]}
       \/ /\ extraction.triples = {} /\ Len(extraction.mentions) <= 4
          /\ Cardinality(SpansOf(extraction) \cap ToSet(GivenSpans)) = Len(extraction.mentions)
          /\ \/ extraction' \in {[extraction EXCEPT !.mentions = Append(@, m)] :
                    m \in {[span |-> Span(3, 4), id |-> "k1"], [span |-> Span(0, 2), id |-> "k2"]}}
             \/ extraction' \in {[extraction EXCEPT !.triples = t] : t \in SUBSET GuessTriples}
    /\ UNCHANGED <<waiting, ingested>>

(***************************************************************************)
(* What a retriever may come back with.                                    *)
(***************************************************************************)
Evidenced(text, index) == [doc |-> 1, text |-> text, index |-> index]

\* gold sentences, one cut by a full stop, and one that has no number in the gold
MCEvidence == {Evidenced(GivenDocs[1].sentences[1].text, 1),
               Evidenced(GivenDocs[1].sentences[2].text, 2),
               Evidenced(<<Labs, it>>, 2), Evidenced(<<it, rained>>, 3)}

EdgesFrom == {[subject |-> e[1], object |-> e[2], from |-> x] :
                 e \in {<<zobiLabs, mara>>, <<zobiLabs, zobi>>, <<mara, zobi>>},
                 x \in {Evidenced(GivenDocs[1].sentences[2].text, 2), Evidenced(<<Labs, it>>, 2)}}

Responses ==
    {[asked |-> TRUE, nodes |-> n, edges |-> e, supporting |-> s] :
        n \in {<<>>, <<mara>>, <<zobi, zobiLabs>>, <<zobiLabs, mara>>},
        e \in SeqOf(EdgesFrom, 2), s \in SeqOf(MCEvidence, 2)}

(***************************************************************************)
(* Questions and what may be answered.                                     *)
(***************************************************************************)
EntityQuestion == [kind |-> "entity", answers |-> {"e1"}, names |-> <<{"acme", "acme inc"}>>,
                   stale |-> {"bolt"}]
SetQuestion == [kind |-> "set", answers |-> {"e1", "e2"}, names |-> <<{"acme"}, {"cora", "c", "m. cora"}>>]
NumberQuestion == [kind |-> "number", number |-> 2]
PathQuestion == [kind |-> "path", paths |-> {{"f1", "f2"}, {"f3"}}]
Relation(s, o, weight) == [subject |-> s, object |-> o, weight |-> weight]
OpenQuestion == [kind |-> "open_ended",
                 required |-> {Relation({"acme"}, {"cora"}, 2), Relation({"cora"}, {"dee"}, 1)},
                 forbidden |-> {Relation({"acme"}, {"bolt"}, 1)}]
AbstainQuestion == [kind |-> "abstain"]

MCQuestions == {EntityQuestion, SetQuestion, NumberQuestion, PathQuestion, OpenQuestion,
                AbstainQuestion}

\* sentences, one after the other on one line unless they say so
Phrase(items, past, declines, number) ==
    [items |-> items, past |-> past, declines |-> declines, number |-> number,
     line |-> FALSE, apart |-> FALSE, opens |-> {}, closes |-> {}]

Refusal == Phrase(<<{}>>, FALSE, TRUE, Unsaid)
Naming(items) == Phrase(items, FALSE, FALSE, Unsaid)
Before(items) == Phrase(items, TRUE, FALSE, Unsaid)

\* the answer ends its line, begins with "and", or gives the name "m. cora" at its ends
OnALine(items) == [Naming(items) EXCEPT !.line = TRUE]
AndThen(items) == [Naming(items) EXCEPT !.apart = TRUE]
Comma == [AndThen(<<>>) EXCEPT !.line = TRUE]
Beginning(items) == [Naming(items) EXCEPT !.opens = {"m. cora"}]
Ending(items) == [Naming(items) EXCEPT !.closes = {"m. cora"}]

MCPhrases == [q \in MCQuestions |-> {Refusal} \cup
    CASE q.kind = "entity" -> {Naming(<<{"acme"}>>), Naming(<<{"bolt"}>>), Before(<<{"bolt"}>>)}
      [] q.kind = "set" -> {Naming(<<{"acme"}, {"c"}>>), Naming(<<{"cora"}>>), AndThen(<<{"cora"}>>),
                            Naming(<<{"acme"}, {}>>), OnALine(<<{"acme"}, {}>>),
                            Naming(<<{"acme", "cora"}>>), Comma,
                            Beginning(<<{"acme"}, {}>>), Ending(<<{}>>)}
      [] q.kind = "number" -> {Phrase(<<{}>>, FALSE, FALSE, n) : n \in {2, 3}}
      [] q.kind = "path" -> {Naming(<<{"acme"}>>)}
      [] q.kind = "open_ended" -> {Naming(<<{"acme", "cora"}>>), Naming(<<{"cora"}, {"dee"}>>),
                                   Naming(<<{"dee"}>>), Naming(<<{"bolt", "acme"}>>),
                                   Before(<<{"bolt", "acme"}>>)}
      [] q.kind = "abstain" -> {Naming(<<{"acme"}>>)}]

Structured(field, values) == {[NoText EXCEPT ![field] = v] : v \in values}

MCStructures == [q \in MCQuestions |->
    CASE q.kind = "entity" -> Structured("entities", {{"e1"}, {"e1", "e2"}, {}})
      [] q.kind = "set" -> Structured("entities", {{"e1", "e2"}, {"e2", "e3"}})
      [] q.kind = "number" -> Structured("number", {2, 3})
      [] q.kind = "path" -> Structured("path", {{"f1", "f2"}, {"f1"}, {"f1", "f2", "f3"}})
      [] q.kind \in {"open_ended", "abstain"} -> Structured("refused", {TRUE, FALSE})]

\* questions with an answer (bounds the instance)
MCAnswered == Cardinality({q \in MCQuestions : answers[q] # NoText})

(***************************************************************************)
(* Examples of a dataset.                                                  *)
(***************************************************************************)
MCKeyOf == [t \in {"A B", "A_B", "C"} |-> IF t = "C" THEN "C.txt" ELSE "A_B.txt"]
Paragraph(title, text, sentences) == [title |-> title, text |-> text, sentences |-> sentences]
ParagraphA == Paragraph("A B", "about a b", 2)
ParagraphC == Paragraph("C", "about c", 1)
Example(id, context, golds, facts) ==
    [id |-> id, context |-> context, golds |-> golds, facts |-> facts]
MCExamples == <<
    Example(1, <<ParagraphA, ParagraphC>>, {<<The, Zobi, Labs>>, <<Zobi, Zobi>>}, {<<"A B", 1>>}),
    Example(2, <<ParagraphC, Paragraph("A_B", "about a_b", 1)>>, {<<Mara>>}, {<<"A_B", 1>>})>>
MCFiles == {MCExamples, Reverse(MCExamples)}
MCSizes == {1, 9}
MCPredictions == {<<>>, <<The>>, <<Zobi, Labs, Stop>>, <<Zobi, zobi_>>, <<Zobi>>, <<Labs, Zobi>>}
MCLower == MCFolded @@ [w \in {zobi_, Stop} |-> w]

(***************************************************************************)
(* What a model is asked about.                                            *)
(***************************************************************************)
Required == ToSet(MCFactsOf[zobiLabs]) \cup ToSet(MCFactsOf[zobi])
MCPools == {<<f>> : f \in Required} \cup {<<f, g>> : f, g \in Required}
JudgedPool == <<MCFactsOf[zobi][1], MCFactsOf[zobiLabs][1]>>

\* a question of one hop, whose two passages are one, and another with that passage; two questions
\* of one wording about namesakes; a document and an altered one
MCBatches(facts) ==
    CASE facts = JudgedPool ->
            {<<JudgeRow(c), JudgeRow(d)>> :
                c \in {x \in Cases(facts) : x.kind \in {"stated", "negated"}},
                d \in {x \in Cases(facts) : x.kind \in {"pronoun", "wrong_object"}}}
      [] facts = Reverse(JudgedPool) ->
            {<<ReaderRow(question, passage, passage), <<ReaderRow(question, passage, rater)[1]>>>>,
             <<CritiqueRow(question, passage), <<CritiqueRow(question, rater)[2]>>>>,
             <<CheckRow(passage, <<it, rained>>), CheckRow(passage, <<it>>)>>}
      [] OTHER -> {<<>>}

MCEndpoint(prompt) ==
    CASE prompt.kind = "judge" -> {"YES", "NO", "PERHAPS"}
      [] prompt.kind = "rate"  -> {0, 3, 5} \ (IF prompt.about[1] = "standalone" THEN {0, 5} ELSE {})
      [] prompt.kind = "read"  -> {"", "Zobi", "unknown"}
      [] prompt.kind = "check" -> {[verdicts |-> <<"STATED">>, extra |-> TRUE],
                                   [verdicts |-> <<"WRONG", "MISSING">>, extra |-> TRUE],
                                   [verdicts |-> <<"STATED">>, extra |-> FALSE]}

(***************************************************************************)
(* The parts.                                                              *)
(***************************************************************************)
NoAnswer == [asked |-> FALSE, nodes |-> <<>>, edges |-> <<>>, supporting |-> <<>>]

Given ==
    /\ style = "short" /\ jobs = <<>> /\ draft = NoDraft
    /\ docs = IF part \in {"guess", "retrieve"} THEN GivenDocs ELSE <<>>

MCInit ==
    /\ part \in {"corpus", "guess", "retrieve", "answers", "harness", "judging"}
    /\ IF part = "corpus" THEN DocumentsInit ELSE Given
    /\ IF style \in {"plain", "rich"} THEN LlmInit
       ELSE /\ orders = <<>> /\ cache = <<>> /\ thread = <<>> /\ reply = <<>>
            /\ runs = 0 /\ paid = [j \in Jobs |-> <<>>]
    /\ PipelineInit /\ AnswersInit /\ HarnessInit
    /\ response = NoAnswer
    /\ IF part = "judging" THEN JudgingInit
       ELSE pool = <<>> /\ chat = [rows |-> <<>>, threads |-> <<>>, kept |-> <<>>, live |-> TRUE,
                                   attempt |-> 1, reports |-> <<>>]

\* which documents are extracted from, of those a model wrote (bounds the instance)
MCExtracts ==
    style \in {"plain", "rich"} =>
        runs = 1 /\ \A j \in Jobs : orders[j][1].subject = <<Zobi>>

Ask == response = NoAnswer /\ response' \in Responses

MCNext ==
    /\ UNCHANGED part
    /\ \/ /\ part = "corpus"
          /\ \/ WriteFromTemplates /\ UNCHANGED <<llmVars, pipelineVars>>
             \/ WriteByModel /\ UNCHANGED pipelineVars
             \/ Extract /\ MCExtracts /\ UNCHANGED <<documentVars, llmVars>>
          /\ UNCHANGED <<answers, harnessVars, response, judgingVars>>
       \/ /\ part = "guess" /\ Guess
          /\ UNCHANGED <<documentVars, llmVars, answers, harnessVars, response, judgingVars>>
       \/ /\ part = "retrieve" /\ Ask
          /\ UNCHANGED <<documentVars, llmVars, pipelineVars, answers, harnessVars, judgingVars>>
       \/ /\ part = "answers" /\ Respond /\ MCAnswered' <= 2
          /\ UNCHANGED <<documentVars, llmVars, pipelineVars, harnessVars, response, judgingVars>>
       \/ /\ part = "harness" /\ RunHarness
          /\ UNCHANGED <<documentVars, llmVars, pipelineVars, answers, response, judgingVars>>
       \/ /\ part = "judging" /\ Judge
          /\ UNCHANGED <<documentVars, llmVars, pipelineVars, answers, harnessVars, response>>

MCSpec == MCInit /\ [][MCNext]_mcVars
=============================================================================
