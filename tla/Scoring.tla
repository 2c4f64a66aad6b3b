------------------------------ MODULE Scoring ------------------------------
(***************************************************************************)
(* kgbench's scorers of extraction, linking and retrieval.  They compare   *)
(* what a system found with the gold of the written documents; ratios are  *)
(* pairs of numbers, and means over mentions share a common denominator.   *)
(*                                                                         *)
(* gold:       [mentions |-> span -> entity, triples |-> set]              *)
(* extraction: [mentions |-> sequence of [span, id], triples |-> set]      *)
(***************************************************************************)
EXTENDS Integers, Sequences, FiniteSets, FiniteSetsExt, SequencesExt, Functions, Combinatorics

CONSTANTS
    NoId,           \* a mention linked to nothing
    EntityOrder,    \* the entities in the order of their ids
    Unit            \* a multiple of the sizes of all clusters

ASSUME UnitAssumption == Unit \in Nat \ {0}

Rank(e) == CHOOSE i \in DOMAIN EntityOrder : EntityOrder[i] = e

(***************************************************************************)
(* Extraction.                                                             *)
(***************************************************************************)
PRF(correct, predicted, found, gold) ==
    [correct |-> correct, predicted |-> predicted, found |-> found, gold |-> gold]

\* a perfect extractor
Oracle(gold) ==
    [mentions |-> FoldSet(LAMBDA s, found : Append(found, [span |-> s, id |-> gold.mentions[s]]),
                          <<>>, DOMAIN gold.mentions),
     triples |-> gold.triples]

SpansOf(extraction) == {m.span : m \in ToSet(extraction.mentions)}

Ids(extraction) == {m.id : m \in ToSet(extraction.mentions)} \ {NoId}

\* how many mentions of a canonical are an entity's
Votes(gold, extraction, id, e) ==
    Cardinality({i \in DOMAIN extraction.mentions :
        /\ extraction.mentions[i].id = id
        /\ extraction.mentions[i].span \in DOMAIN gold.mentions
        /\ gold.mentions[extraction.mentions[i].span] = e})

Candidates(gold, extraction, id) ==
    {e \in Range(gold.mentions) : Votes(gold, extraction, id, e) > 0}

\* Wrong on purpose: a tie goes to the entity met first.
AlignFirst(gold, extraction) ==
    LET grounded == {id \in Ids(extraction) : Candidates(gold, extraction, id) # {}}
        meets(id, e) == Min({i \in DOMAIN extraction.mentions :
            /\ extraction.mentions[i].id = id
            /\ extraction.mentions[i].span \in DOMAIN gold.mentions
            /\ gold.mentions[extraction.mentions[i].span] = e})
    IN  [id \in grounded |->
            CHOOSE e \in Candidates(gold, extraction, id) :
                \A x \in Candidates(gold, extraction, id) \ {e} :
                    \/ Votes(gold, extraction, id, e) > Votes(gold, extraction, id, x)
                    \/ /\ Votes(gold, extraction, id, e) = Votes(gold, extraction, id, x)
                       /\ meets(id, e) < meets(id, x)]

\* canonical -> the entity most of its mentions are of; a tie goes to the lower id
Align(gold, extraction) ==
    LET grounded == {id \in Ids(extraction) : Candidates(gold, extraction, id) # {}}
    IN  [id \in grounded |->
            CHOOSE e \in Candidates(gold, extraction, id) :
                \A x \in Candidates(gold, extraction, id) \ {e} :
                    \/ Votes(gold, extraction, id, e) > Votes(gold, extraction, id, x)
                    \/ /\ Votes(gold, extraction, id, e) = Votes(gold, extraction, id, x)
                       /\ Rank(e) < Rank(x)]

Aligned(alignment, id) == IF id \in DOMAIN alignment THEN alignment[id] ELSE NoId

\* a predicted triple, through the alignment
Mapped(alignment, t) ==
    [subject |-> Aligned(alignment, t.subject), predicate |-> t.predicate,
     object |-> Aligned(alignment, t.object)]

\* the two ends of a triple, unless one is unknown or both are the same
Pairs(triples) ==
    {{t.subject, t.object} :
        t \in {x \in triples : x.subject # NoId /\ x.object # NoId /\ x.subject # x.object}}

ScoreMentions(gold, extraction) ==
    LET hits == Cardinality(SpansOf(extraction) \cap DOMAIN gold.mentions)
    IN  PRF(hits, Cardinality(SpansOf(extraction)), hits, Cardinality(DOMAIN gold.mentions))

ScoreEntities(gold, extraction) ==
    LET hits == Cardinality(Range(Align(gold, extraction)))
    IN  PRF(hits, Cardinality(Ids(extraction)), hits, Cardinality(Range(gold.mentions)))

Correct(gold, extraction) ==
    {t \in extraction.triples : Mapped(Align(gold, extraction), t) \in gold.triples}

Recovered(gold, extraction) ==
    {Mapped(Align(gold, extraction), t) : t \in Correct(gold, extraction)}

\* strict: same ends, same predicate, same direction
ScoreTriples(gold, extraction) ==
    PRF(Cardinality(Correct(gold, extraction)), Cardinality(extraction.triples),
        Cardinality(Recovered(gold, extraction)), Cardinality(gold.triples))

\* edge: the same two ends
ScoreEdges(gold, extraction) ==
    LET alignment == Align(gold, extraction)
        goldPairs == Pairs(gold.triples)
        predicted == Pairs({Mapped(alignment, t) : t \in extraction.triples})
        right == {t \in extraction.triples : Pairs({Mapped(alignment, t)}) \cap goldPairs # {}}
    IN  PRF(Cardinality(right), Cardinality(extraction.triples),
            Cardinality(predicted \cap goldPairs), Cardinality(goldPairs))

OfPredicate(triples, p) == {t \in triples : t.predicate = p}

\* one predicate's strict score
ScorePredicate(gold, extraction, p) ==
    PRF(Cardinality(OfPredicate(Correct(gold, extraction), p)),
        Cardinality(OfPredicate(extraction.triples, p)),
        Cardinality(OfPredicate(gold.triples, p) \cap Recovered(gold, extraction)),
        Cardinality(OfPredicate(gold.triples, p)))

Score(gold, extraction) ==
    [mentions |-> ScoreMentions(gold, extraction), entities |-> ScoreEntities(gold, extraction),
     triples |-> ScoreTriples(gold, extraction), edges |-> ScoreEdges(gold, extraction)]

(***************************************************************************)
(* Linking: B-cubed over the mentions found by exact span.                 *)
(***************************************************************************)

\* span -> predicted cluster; an unlinked mention is a cluster of its own, and the last mention
\* of a span counts
Predicted(gold, extraction) ==
    LET spans == SpansOf(extraction) \cap DOMAIN gold.mentions
        last(span) == Max({i \in DOMAIN extraction.mentions : extraction.mentions[i].span = span})
    IN  [span \in spans |->
            LET m == extraction.mentions[last(span)]
            IN  IF m.id = NoId THEN [unlinked |-> last(span)] ELSE [id |-> m.id]]

Together(clusters, span) == {x \in DOMAIN clusters : clusters[x] = clusters[span]}

\* sums of the mentions' shares, in Units
BCubed(gold, extraction, spans) ==
    LET predicted == Predicted(gold, extraction)
        truth == Restrict(gold.mentions, DOMAIN predicted)
        overlap(s) == Cardinality(Together(predicted, s) \cap Together(truth, s))
    IN  [precision |-> MapThenSumSet(LAMBDA s :
                          (overlap(s) * Unit) \div Cardinality(Together(predicted, s)), spans),
         recall |-> MapThenSumSet(LAMBDA s :
                          (overlap(s) * Unit) \div Cardinality(Together(truth, s)), spans),
         mentions |-> Cardinality(spans)]

(***************************************************************************)
(* The same counts, apart for entities that share a name.                  *)
(***************************************************************************)
SharedIds(labels) ==
    {e \in DOMAIN labels : \E x \in DOMAIN labels \ {e} : labels[e] \cap labels[x] # {}}

Split(gold, extraction, shared, flag) ==
    LET spans == {s \in DOMAIN gold.mentions : (gold.mentions[s] \in shared) = flag}
        triples == {t \in gold.triples : (t.subject \in shared \/ t.object \in shared) = flag}
    IN  [mentions |-> <<Cardinality(spans \cap SpansOf(extraction)), Cardinality(spans)>>,
         triples |-> <<Cardinality(triples \cap Recovered(gold, extraction)),
                       Cardinality(triples)>>]

(***************************************************************************)
(* Retrieval: rankings are sequences of sentences with the facts they say. *)
(***************************************************************************)

FactsInTop(ranking, k) ==
    UNION {ToSet(ranking[i].facts) : i \in {x \in DOMAIN ranking : x <= k}}

\* recall as found out of gold, and whether the whole path is there
ScoreRetrieval(gold, ranking, k) ==
    LET found == FactsInTop(ranking, k) \cap gold
    IN  [found |-> Cardinality(found), gold |-> Cardinality(gold),
         path |-> gold # {} /\ found = gold]

(***************************************************************************)
(* The gate: floors a margin under what was measured.  A metric is a       *)
(* fraction, kept exact; margins and floors are in parts of Parts.         *)
(***************************************************************************)
Parts == 10000

\* the harmonic mean of precision and recall
F1Of(prf) ==
    IF prf.correct = 0 \/ prf.found = 0 THEN <<0, 1>>
    ELSE <<2 * prf.correct * prf.found, prf.correct * prf.gold + prf.found * prf.predicted>>

Metrics(score) == [name \in DOMAIN score |-> F1Of(score[name])]

\* a metric in whole parts
InParts(metric) == (metric[1] * Parts) \div metric[2]

\* rounded down; what measured no more than the margin is not guarded
FloorsFrom(metrics, margin) ==
    [name \in {n \in DOMAIN metrics : metrics[n][1] * Parts > margin * metrics[n][2]} |->
        InParts(metrics[name]) - margin]

\* the metrics below their floor, or not measured
Failures(metrics, floors) ==
    {name \in DOMAIN floors :
        name \notin DOMAIN metrics \/ metrics[name][1] * Parts < floors[name] * metrics[name][2]}

(***************************************************************************)
(* The odds that k sentences drawn at random include one that matches.     *)
(***************************************************************************)
Ways(n, k) == IF k > n THEN 0 ELSE choose(n, k)

Chance(matching, total, k) ==
    IF k > total THEN <<1, 1>>
    ELSE <<Ways(total, k) - Ways(total - matching, k), Ways(total, k)>>
=============================================================================
