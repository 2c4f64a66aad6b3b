------------------------------ MODULE Harness ------------------------------
(***************************************************************************)
(* kgbench's harness for multi-hop datasets: the paragraphs of a subset of *)
(* examples are ingested once, every example is then asked, and answers    *)
(* and supporting sentences are scored without a model.  A document or a   *)
(* question that raises ends the run; the harness can be run again.        *)
(***************************************************************************)
EXTENDS Integers, Sequences, FiniteSets, FiniteSetsExt, SequencesExt, Functions

CONSTANTS
    Files,          \* orders the examples may be in
    Sizes,          \* sizes of a subset
    KeyOf,          \* title -> object key, its slug
    Predictions,    \* the answers a retriever may give
    Lower,          \* word -> the word in lower case
    Punctuation, Articles,
    MaxCalls        \* calls of run (bounds the instance)

\* Words of a text, paragraphs of an example and examples of a file come in an order; ids can be
\* compared; an example has finitely many gold answers.
ASSUME HarnessAssumption ==
    /\ Sizes \subseteq Nat
    /\ \A prediction \in Predictions : prediction \in Seq(ToSet(prediction))
    /\ \A file \in Files :
        /\ file \in Seq(ToSet(file))
        /\ \A example \in ToSet(file) :
            /\ example.id \in Int
            /\ example.context \in Seq(ToSet(example.context))
            /\ IsFiniteSet(example.golds)
            /\ \A gold \in example.golds : gold \in Seq(ToSet(gold))

VARIABLES
    harness,    \* the harness object
    bucket,     \* key -> paragraph in the object store
    indexed,    \* key -> paragraph the pipeline last processed
    call,       \* the run going on
    llmCalls,   \* calls to the model ever
    answered,   \* texts whose model calls are in the response cache
    reports     \* results of the runs that returned

harnessVars == <<harness, bucket, indexed, call, llmCalls, answered, reports>>

Idle == [stage |-> "idle"]

HarnessInit ==
    /\ harness = [ingested |-> FALSE, titles |-> <<>>]
    /\ bucket = <<>> /\ indexed = <<>>
    /\ call = Idle
    /\ llmCalls = 0 /\ answered = {}
    /\ reports = <<>>

(***************************************************************************)
(* The subset.                                                             *)
(***************************************************************************)

\* what a stable sort by id puts before the i-th
Ahead(examples, i) ==
    {k \in DOMAIN examples :
        \/ examples[k].id < examples[i].id
        \/ (examples[k].id = examples[i].id /\ k < i)}

ById(examples, n) == CHOOSE i \in DOMAIN examples : Cardinality(Ahead(examples, i)) = n - 1

\* the first by id, whatever the order of the file
SelectSubset(examples, size) ==
    [n \in 1 .. Min({size, Len(examples)}) |-> examples[ById(examples, n)]]

(***************************************************************************)
(* The metrics; words for texts, and ratios as pairs.                      *)
(***************************************************************************)
NormalizeAnswer(words) ==
    FlattenSeq([i \in DOMAIN words |->
        IF Lower[words[i]] \in Punctuation \cup Articles THEN <<>> ELSE <<Lower[words[i]]>>])

ExactMatch(prediction, golds) ==
    \E g \in golds : NormalizeAnswer(g) = NormalizeAnswer(prediction)

Times(words, w) == Cardinality({i \in DOMAIN words : words[i] = w})

\* words in common, each as often as both have it
Shared(p, g) == SumFunction([w \in ToSet(p) |-> Min({Times(p, w), Times(g, w)})])

TokenF1Single(prediction, gold) ==
    LET p == NormalizeAnswer(prediction)
        g == NormalizeAnswer(gold)
    IN  IF p = <<>> \/ g = <<>> THEN <<IF p = g THEN 1 ELSE 0, 1>>
        ELSE <<2 * Shared(p, g), Len(p) + Len(g)>>

AtLeast(a, b) == a[1] * b[2] >= b[1] * a[2]

TokenF1(prediction, golds) ==
    IF golds = {} THEN <<0, 1>>
    ELSE LET all == {TokenF1Single(prediction, g) : g \in golds}
         IN  CHOOSE a \in all : \A b \in all : AtLeast(a, b)

SupportingFacts(predicted, gold) ==
    [hits |-> Cardinality(predicted \cap gold), predicted |-> Cardinality(predicted),
     gold |-> Cardinality(gold)]

(***************************************************************************)
(* A run.                                                                  *)
(***************************************************************************)
Paragraphs(examples) == FlattenSeq([i \in DOMAIN examples |-> examples[i].context])

\* a harness that has ingested a corpus goes straight to the questions
Run(examples) ==
    /\ call = Idle /\ Len(reports) < MaxCalls
    /\ call' = [stage |-> IF harness.ingested THEN "scoring" ELSE "ingesting",
                examples |-> examples, left |-> Paragraphs(examples), seen |-> {},
                before |-> llmCalls, cold |-> ~harness.ingested, scores |-> <<>>]
    /\ UNCHANGED <<harness, bucket, indexed, llmCalls, answered, reports>>

Ingesting == call.stage = "ingesting" /\ call.left # <<>>
NextKey == KeyOf[Head(call.left).title]

\* f with a value stored under a key
Stored(f, key, value) == [x \in DOMAIN f \cup {key} |-> IF x = key THEN value ELSE f[x]]

\* Wrong on purpose: a paragraph that is not ingested still names its key.
SkipNamed ==
    /\ Ingesting /\ NextKey \in call.seen
    /\ call' = [call EXCEPT !.left = Tail(@)]
    /\ harness' = [harness EXCEPT !.titles = Stored(@, NextKey, Head(call.left).title)]
    /\ UNCHANGED <<bucket, indexed, llmCalls, answered, reports>>

\* the key was seen in this call
Skip ==
    /\ Ingesting /\ NextKey \in call.seen
    /\ call' = [call EXCEPT !.left = Tail(@)]
    /\ UNCHANGED <<harness, bucket, indexed, llmCalls, answered, reports>>

\* the model is called once for a text it was not called for before
Extracted(text) ==
    /\ answered' = answered \cup {text}
    /\ llmCalls' = IF text \in answered THEN llmCalls ELSE llmCalls + 1

Process ==
    /\ Ingesting /\ NextKey \notin call.seen
    /\ bucket' = Stored(bucket, NextKey, Head(call.left))
    /\ indexed' = Stored(indexed, NextKey, Head(call.left))
    /\ Extracted(Head(call.left).text)
    /\ harness' = [harness EXCEPT !.titles = Stored(@, NextKey, Head(call.left).title)]
    /\ call' = [call EXCEPT !.left = Tail(@), !.seen = @ \cup {NextKey}]
    /\ UNCHANGED reports

\* the store or the pipeline raises, before or after the text was processed
Raise ==
    /\ Ingesting /\ NextKey \notin call.seen
    /\ \/ UNCHANGED <<bucket, indexed, answered, llmCalls>>
       \/ /\ bucket' = Stored(bucket, NextKey, Head(call.left))
          /\ \/ UNCHANGED <<indexed, answered, llmCalls>>
             \/ Extracted(Head(call.left).text) /\ UNCHANGED indexed
             \/ /\ Extracted(Head(call.left).text)
                /\ indexed' = Stored(indexed, NextKey, Head(call.left))
    /\ call' = Idle
    /\ UNCHANGED <<harness, reports>>

Ingested ==
    /\ call.stage = "ingesting" /\ call.left = <<>>
    /\ harness' = [harness EXCEPT !.ingested = TRUE]
    /\ call' = [call EXCEPT !.stage = "scoring"]
    /\ UNCHANGED <<bucket, indexed, llmCalls, answered, reports>>

\* sentences a retriever can come back with
Retrievable ==
    UNION {{<<key, i>> : i \in 1 .. indexed[key].sentences} : key \in DOMAIN indexed}

Titled(sentences) ==
    {<<harness.titles[s[1]], s[2]>> : s \in {x \in sentences : x[1] \in DOMAIN harness.titles}}

ScoreOf(example, prediction, sentences) ==
    [match |-> ExactMatch(prediction, example.golds),
     f1 |-> TokenF1(prediction, example.golds),
     facts |-> SupportingFacts(Titled(sentences), example.facts)]

ScoreExample ==
    /\ call.stage = "scoring" /\ Len(call.scores) < Len(call.examples)
    /\ \E prediction \in Predictions :
       \E sentences \in {{}} \cup {{s} : s \in Retrievable} \cup {Retrievable} :
         call' = [call EXCEPT !.scores = Append(@,
                    ScoreOf(call.examples[Len(call.scores) + 1], prediction, sentences))]
    /\ UNCHANGED <<harness, bucket, indexed, llmCalls, answered, reports>>

\* the retriever raises: no report, but the corpus stays ingested
QueryRaises ==
    /\ call.stage = "scoring" /\ Len(call.scores) < Len(call.examples)
    /\ call' = Idle
    /\ UNCHANGED <<harness, bucket, indexed, llmCalls, answered, reports>>

Return ==
    /\ call.stage = "scoring" /\ Len(call.scores) = Len(call.examples)
    /\ reports' = Append(reports,
          [documents |-> Cardinality(DOMAIN harness.titles), calls |-> llmCalls - call.before,
           matches |-> Cardinality({i \in DOMAIN call.scores : call.scores[i].match}),
           cold |-> call.cold])
    /\ call' = Idle
    /\ UNCHANGED <<harness, bucket, indexed, llmCalls, answered>>

RunHarness ==
    \/ \E file \in Files, size \in Sizes : Run(SelectSubset(file, size))
    \/ Skip \/ Process \/ Raise \/ Ingested \/ ScoreExample \/ QueryRaises \/ Return

HarnessSpec == HarnessInit /\ [][RunHarness]_harnessVars
=============================================================================
