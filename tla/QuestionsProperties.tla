------------------------ MODULE QuestionsProperties ------------------------
(***************************************************************************)
(* What makes a generated benchmark usable: its gold is right whatever the *)
(* random draws were.  The properties read the gold off the dated facts of *)
(* the world by definitions of their own, not by the generator's walks.    *)
(***************************************************************************)
EXTENDS Questions, Scenario

Named == stage \in {"look-alikes", "world", "asking", "asked"}
Dated == stage = "naming" \/ Named

\* Every fact, also one that churn put in another's place or that closes a triangle, joins
\* two different entities of types its relation may join; noise is the only exception.
FactsFitTheirRelation ==
    \A f \in facts :
        /\ f.subject # f.object
        /\ f.predicate # Vague => <<type[f.subject], type[f.object]>> \in Signatures[f.predicate]

\* Churn moves facts and withdraws the number asked for: every original fact but those is
\* true, itself or through a successor, in the last year, and what is true in the last year
\* is exactly the current edges.
ChurnAddsUp ==
    Dated =>
        /\ EdgesAsOf(EndYear) = CurrentEdges
        /\ Cardinality({f \in CurrentEdges : f.subject \in Real})
              = spec.edges - spec.retracted
        /\ EdgesAsOf(StartYear) = {f \in facts : f.from = StartYear}

\* An alternative name never is the name of another real entity, and look-alikes share
\* neither names nor facts with the real entities.
NamesAreKept ==
    Named =>
        /\ \A i, j \in Real : name[j] \notin aliases[i]
        /\ \A d \in DOMAIN name \ Real : UniquelyNamed(d)
        /\ \A f \in facts : f.subject \in Real <=> f.object \in Real

(***************************************************************************)
(* Gold, by definition.                                                    *)
(***************************************************************************)

\* the typed facts between real entities that are true in a year
TrueIn(year) ==
    {f \in facts : /\ f.from <= year /\ (f.to = Never \/ year < f.to)
                   /\ f.predicate \in Predicates /\ f.subject \in Real /\ f.object \in Real}

Holds(f, x, relation, y) ==
    /\ f.predicate = relation.predicate
    /\ IF relation.forward THEN f.subject = x /\ f.object = y
       ELSE f.subject = y /\ f.object = x

\* the entities some way along these relations leads to
Denoted(start, relations, year) ==
    LET n == Len(relations)
    IN  {p[n] : p \in {q \in [0..n -> Real] :
            /\ q[0] = start
            /\ \A i \in 1..n : \E f \in TrueIn(year) : Holds(f, q[i - 1], relations[i], q[i])}}

\* a gold path is true, follows the relations from the start and ends at an answer
Supports(path, q) ==
    \E p \in [0..Len(path) -> Real] :
        /\ p[0] = q.start /\ p[Len(path)] \in q.answers
        /\ \A i \in 1..Len(path) :
            path[i] \in TrueIn(EndYear) /\ Holds(path[i], p[i - 1], q.relations[i], p[i])

OfKind(kinds) == {q \in asked : q.kind \in kinds}

\* A question that follows relations has for its answers exactly what they lead to in the
\* last year, one entity for "Name", and each gold path supports an answer.
AnswersAreDenoted ==
    \A q \in OfKind({"entity", "set", "count"}) :
        /\ q.answers = Denoted(q.start, q.relations, EndYear)
        /\ q.kind = "entity" => Cardinality(q.answers) = 1
        /\ q.kind = "count" => q.number = Cardinality(q.answers)
        /\ \A path \in q.paths : Len(path) = q.hops /\ Supports(path, q)
        /\ Cardinality(q.paths) = Cardinality(q.answers)

CountOf(i, relation) ==
    Cardinality({f \in TrueIn(EndYear) : \E x \in Real : Holds(f, i, relation, x)})

\* The winner of a comparison has more than the other, and a superlative's entity more than
\* anyone: no tie is asked about.
WinnersAreAlone ==
    /\ \A q \in OfKind({"superlative"}) : \A i \in Real \ q.answers :
        \A top \in q.answers : CountOf(i, q.relations[1]) < CountOf(top, q.relations[1])
    /\ \A q \in OfKind({"compare"}) : \E loser \in Real : \A winner \in q.answers :
        /\ CountOf(loser, q.relations[1]) < CountOf(winner, q.relations[1])
        /\ Cardinality(q.paths)
              = CountOf(loser, q.relations[1]) + CountOf(winner, q.relations[1])

\* Declining is right: nothing an unanswerable question asks was ever true, and a false
\* premise was never true either, while the fact that corrects it is true and the only one.
DecliningIsRight ==
    /\ \A q \in OfKind({"unanswerable"}) : \A year \in StartYear..EndYear :
        Denoted(q.start, q.relations, year) = {}
    /\ \A q \in OfKind({"false_premise"}) :
        /\ \A f \in facts : TripleOf(f) # q.claim
        /\ \A path \in q.paths :
            /\ path[1] \in TrueIn(EndYear)
            /\ Cardinality(Denoted(q.start, q.relations, EndYear)) = 1

\* what was true of a topic in a year
TopicIn(q, year) ==
    {f.object : f \in {x \in TrueIn(year) :
        /\ x.subject = q.start /\ x.predicate = q.relations[1].predicate
        /\ type[x.object] = q.label}}

\* A question about change has one answer in its year, one now, or none any more, and what it
\* calls stale was true in some year and is not the answer.
ChangeIsDated ==
    \A q \in OfKind({"as_of", "latest", "retracted"}) :
        /\ q.kind = "as_of" => TopicIn(q, q.year) = q.answers /\ Cardinality(q.answers) = 1
        /\ q.kind = "latest" => TopicIn(q, EndYear) = q.answers /\ Cardinality(q.answers) = 1
        /\ q.kind = "retracted" => TopicIn(q, EndYear) = {}
        /\ q.stale \cap q.answers = {}
        /\ \A x \in q.stale : \E year \in StartYear..EndYear : x \in TopicIn(q, year)

\* the chains of this many facts that link the two, whatever the direction of each
ChainsBetween(a, b, n) ==
    {c \in [1..n -> TrueIn(EndYear)] :
        \E p \in [0..n -> Real] :
            /\ p[0] = a /\ p[n] = b
            /\ \A i \in 1..n : Ends(c[i]) = {p[i - 1], p[i]}}

\* A path question's gold is every shortest chain between the two entities, and no other.
PathsAreShortest ==
    \A q \in OfKind({"path"}) : \A end \in q.answers :
        /\ q.paths = ChainsBetween(q.start, end, q.hops)
        /\ \A n \in 0 .. q.hops - 1 : ChainsBetween(q.start, end, n) = {}

\* A summary is never asked to state what is not true now, and never forbidden a claim about
\* a pair that something true now links.
SummariesAreFair ==
    \A q \in OfKind({"open_ended"}) :
        /\ q.required \subseteq TrueIn(EndYear) /\ q.required # {}
        /\ \A f \in q.forbidden :
            /\ f \notin TrueIn(EndYear)
            /\ \A x \in TrueIn(EndYear) : Ends(x) # Ends(f)

\* A run that does not fail derives exactly the number of questions asked for, whichever
\* kinds fell short.
QuotaIsMet == stage = "asked" => Cardinality(asked) = wanted.n

\* A reader who knows only names finds every answer of a chain question whose path is typed like
\* the one walked again, and where no two entities share a name finds nothing else: what is left
\* over is the doing of the names (ambiguity.read_by_names).
NamesReachTheGold ==
    \A q \in OfKind({"entity", "set", "count"}) :
        LET classes == Classes
        IN  \A path \in q.paths :
            LET steps == Along(q.start, path)
            IN  /\ \A p \in q.paths : Along(q.start, p) = steps =>
                      \E i \in q.answers :
                          /\ i \in Ends(p[Len(p)])
                          /\ Thing(i, classes) \in ReadByNames(q.start, steps, classes)
                /\ (\A c \in classes : Cardinality(c) = 1) => Extra(q, path, classes) = {}

(***************************************************************************)
(* The scenarios made from a world.                                        *)
(***************************************************************************)

\* An update moves a fact to another object its relation allows, never to the fact's own
\* subject, and what it says was true in no year and is said by no other update.
UpdatesStayTyped ==
    \A e \in OfChange("update") :
        /\ e.fact.subject # e.fact.object
        /\ e.fact.predicate # Vague
        /\ <<type[e.fact.subject], type[e.fact.object]>> \in Signatures[e.fact.predicate]
        /\ \A f \in facts : TripleOf(f) # e.fact
        /\ \A other \in OfChange("update") \ {e} : other.fact # e.fact

\* No event comes before the one it needs: whenever an update or a delete may be next, the
\* fact it removes is in the store (the code's `del` would raise).
NoEventComesEarly ==
    stage = "arriving" =>
        \A e \in ready \cap changes : Item(Id(e.target), e.target) \in stored

\* Every order the shuffle may give ends with the same facts, those of the canonical order.
EveryOrderEndsAlike == stage = "arriving" /\ ready = {} => stored = Expected

(***************************************************************************)
(* The statistics of a finished world.                                     *)
(***************************************************************************)
Measured == stage = "world" /\ spec \in StatSpecs

\* A world that did not fail has what its spec asked for, knob by knob, whatever the draws
\* that were refused and the order churn took the edges in.
KnobsAreRealised == Measured => \A knob \in DOMAIN CheckAgainstSpec : CheckAgainstSpec[knob]

Apart(i, j, n) ==
    \E p \in [0..n -> Real] :
        /\ p[0] = i /\ p[n] = j
        /\ \A k \in 1..n : \E f \in BaseEdges : Ends(f) = {p[k - 1], p[k]}

\* The search finds each entity at the length of a shortest chain to it, and the components
\* it reports split the entities: none is counted in two.
DistancesAreShortest ==
    Measured =>
        /\ \A i, j \in Real : \A n \in 0 .. Cardinality(Real) - 1 :
            (j \in Search(i)[n]) <=> (Apart(i, j, n) /\ \A m \in 0 .. n - 1 : ~Apart(i, j, m))
        /\ SumFunction([c \in Components |-> Cardinality(c)]) = Cardinality(Real)

(***************************************************************************)
(* What the runs check.                                                    *)
(***************************************************************************)

\* A world that `generate` did not give up is the one its spec describes, whatever was drawn,
\* refused, replaced and withdrawn on the way: its facts are typed, its dates add up, its names
\* can be kept apart, every knob is realised and its statistics say so.
WorldIsAsSpecified ==
    /\ FactsFitTheirRelation
    /\ ChurnAddsUp
    /\ NamesAreKept
    /\ KnobsAreRealised
    /\ DistancesAreShortest

\* The gold of a question of any kind is what the dated facts say, no more and no less, when it
\* asks for names, numbers, winners, chains, changes or summaries, and when the right answer is
\* to decline; and as many are derived as were asked for.
GoldIsRight ==
    /\ AnswersAreDenoted
    /\ WinnersAreAlone
    /\ PathsAreShortest
    /\ ChangeIsDated
    /\ DecliningIsRight
    /\ SummariesAreFair
    /\ QuotaIsMet

\* A scenario can be replayed in any order it may be shuffled to: its updates are facts a world
\* could have, no event needs one that comes later, and every order ends alike.
ScenariosReplay ==
    /\ UpdatesStayTyped
    /\ NoEventComesEarly
    /\ EveryOrderEndsAlike

GeneratorInit == QuestionsInit /\ ScenarioInit

GeneratorNext ==
    \/ QuestionsNext /\ UNCHANGED scenarioVars
    \/ ScenarioNext /\ UNCHANGED questionVars

GeneratorSpec == GeneratorInit /\ [][GeneratorNext]_<<vars, scenarioVars>>
=============================================================================
