----------------------------- MODULE Questions -----------------------------
(***************************************************************************)
(* kggen's questions: each is derived from a finished world by a random    *)
(* walk or a random pick that is kept only when its gold is certain, and   *)
(* carries the facts that support it.  `generate_questions` fills a quota  *)
(* per kind and hop count; what a kind cannot supply is made up by entity  *)
(* questions, and those by set questions.  Wording is left out: a question *)
(* is its start, the relations it follows and the kind of thing it asks.   *)
(***************************************************************************)
EXTENDS World, SequencesExt

CONSTANTS
    QuestionSpecs,              \* [n, typeMix, hopMix]
    MinSet, MaxSet,             \* how many answers a set question may have
    MaxFrontier,                \* how far a path may fan out
    MaxPaths,                   \* how many shortest chains a path question may have
    MaxRequired, MaxContext,    \* how many facts an open-ended question may require
    Enough                      \* the live facts an open-ended question's subject needs

MaxHops == 4

Hopped == <<"set", "count", "path", "open_ended">>
Unhopped == <<"compare", "superlative", "unanswerable", "false_premise", "as_of", "latest",
              "retracted">>

Kinds == {"entity"} \cup {Hopped[i] : i \in DOMAIN Hopped} \cup {Unhopped[i] : i \in DOMAIN Unhopped}

\* what the model validator of QuestionSpec accepts
ASSUME QuestionsAssumption ==
    /\ MaxRequired \in Nat \ {0}
    /\ \A q \in QuestionSpecs :
        /\ q.n \in Nat \ {0}
        /\ IsMix(q.typeMix, Kinds) /\ Weighted(q.typeMix) # {}
        /\ IsMix(q.hopMix, 1..MaxHops) /\ Weighted(q.hopMix) # {}

VARIABLES
    wanted,         \* the QuestionSpec
    todo,           \* job -> questions it still owes
    short,          \* questions other kinds could not supply
    asked           \* the questions derived

questionVars == <<wanted, todo, short, asked>>
vars == <<spec, stage, type, community, edges, budget, unvisited, facts, name, aliases,
          wanted, todo, short, asked>>

(***************************************************************************)
(* What the questions are read off.                                        *)
(***************************************************************************)

\* typed facts between real entities that are still true at the end
Live ==
    {f \in CurrentEdges : f.predicate # Vague /\ f.subject \in Real /\ f.object \in Real}

UniquelyNamed(i) == \A j \in DOMAIN name : name[j] = name[i] => j = i

Touches(f, i) == i \in {f.subject, f.object}

Starts == {i \in Real : UniquelyNamed(i) /\ \E f \in Live : Touches(f, i)}

\* a fact followed forward, from subject to object, or backward
Steps == [fact : Live, forward : BOOLEAN]

Source(st) == IF st.forward THEN st.fact.subject ELSE st.fact.object
Target(st) == IF st.forward THEN st.fact.object ELSE st.fact.subject

\* what the wording of a step keeps
Relation(st) == [predicate |-> st.fact.predicate, forward |-> st.forward]

EndOf(start, steps) == IF steps = <<>> THEN start ELSE Target(steps[Len(steps)])

Visited(start, steps) == {start} \cup {Target(steps[i]) : i \in 1..Len(steps)}

\* the simple paths one step longer than these
Further(start, walks) ==
    {Append(x[1], x[2]) : x \in
       {y \in walks \X Steps :
          /\ Source(y[2]) = EndOf(start, y[1])
          /\ Target(y[2]) \notin Visited(start, y[1])}}

\* the simple paths of this many steps
Walks(start, hops) ==
    LET from[n \in 0..hops] == IF n = 0 THEN {<<>>} ELSE Further(start, from[n - 1])
    IN  from[hops]

Reach(frontier, relation) ==
    {Target(st) : st \in {x \in Steps : Relation(x) = relation /\ Source(x) \in frontier}}

\* Wrong on purpose: only the last relation is looked at.
LeadsOnlyLast(start, steps) ==
    steps # <<>> =>
        Reach({Source(steps[Len(steps)])}, Relation(steps[Len(steps)])) = {EndOf(start, steps)}

\* following the same relations reaches this one entity, and never fans out too far
LeadsOnlyThere(start, steps) ==
    LET frontier[n \in 0..Len(steps)] ==
          IF n = 0 THEN {start} ELSE Reach(frontier[n - 1], Relation(steps[n]))
    IN  /\ frontier[Len(steps)] = {EndOf(start, steps)}
        /\ \A n \in 1..Len(steps) : Cardinality(frontier[n]) <= MaxFrontier

FactsOf(steps) == [i \in DOMAIN steps |-> steps[i].fact]
RelationsOf(steps) == [i \in DOMAIN steps |-> Relation(steps[i])]

Blank == [kind |-> "entity", hops |-> 1, start |-> Vague, relations |-> <<>>, label |-> Vague,
          answers |-> {}, number |-> 0, paths |-> {}, year |-> Never, stale |-> {},
          claim |-> Vague, required |-> {}, forbidden |-> {}]

(***************************************************************************)
(* The jobs, in the code's order.                                          *)
(***************************************************************************)
Job(kind, hops) == [kind |-> kind, hops |-> hops]

\* jobs by the order they run in; entity questions come last, and sets in their place
Rank(job) ==
    CASE \E i \in DOMAIN Hopped : Hopped[i] = job.kind ->
            10 * (CHOOSE i \in DOMAIN Hopped : Hopped[i] = job.kind) + job.hops
      [] \E i \in DOMAIN Unhopped : Unhopped[i] = job.kind ->
            100 + (CHOOSE i \in DOMAIN Unhopped : Unhopped[i] = job.kind)
      [] job.kind = "entity"    -> 200 + 2 * job.hops
      [] job.kind = "make_up"   -> 201 + 2 * job.hops

Current(job) ==
    /\ stage = "asking"
    /\ todo[job] > 0
    /\ \A j \in DOMAIN todo : todo[j] > 0 => Rank(job) <= Rank(j)

Quota(kind) == Share(Apportion(wanted.n, wanted.typeMix), kind)

\* a quota for every kind but entity, split over the hop counts where a kind has hops
Plan ==
    /\ stage = "world"
    /\ Starts # {}
    /\ \E q \in QuestionSpecs :
        LET quota(k) == Share(Apportion(q.n, q.typeMix), k)
            hops == DOMAIN q.hopMix
            jobs == {Job(Hopped[i], h) : i \in DOMAIN Hopped, h \in hops}
                      \cup {Job(Unhopped[i], 1) : i \in DOMAIN Unhopped}
        IN  /\ wanted' = q
            /\ todo' = [j \in {j \in jobs :
                                j.kind \in {Hopped[i] : i \in DOMAIN Hopped}
                                  => q.hopMix[j.hops] > 0} |->
                          IF j.kind \in {Hopped[i] : i \in DOMAIN Hopped}
                          THEN Apportion(quota(j.kind), q.hopMix)[j.hops]
                          ELSE quota(j.kind)]
    /\ stage' = "asking"
    /\ UNCHANGED <<spec, type, community, edges, budget, unvisited, facts, name, aliases,
                   short, asked>>

\* no entity to ask about
NothingToAsk ==
    /\ stage = "world" /\ Starts = {}
    /\ Fail /\ UNCHANGED questionVars

Keep(job, q) ==
    /\ asked' = asked \cup {q}
    /\ todo' = [todo EXCEPT ![job] = @ - 1]
    /\ UNCHANGED <<spec, stage, type, community, edges, budget, unvisited, facts, name, aliases,
                   wanted, short>>

\* the draws of a job run out; entity questions are replaced by sets, other kinds by entities
GiveUp(job) ==
    /\ Current(job)
    /\ IF job.kind = "make_up" THEN Fail /\ UNCHANGED questionVars
       ELSE /\ IF job.kind = "entity"
                 THEN /\ todo' = [todo EXCEPT ![job] = 0,
                                              ![Job("make_up", job.hops)] = todo[job]]
                      /\ UNCHANGED short
                 ELSE /\ todo' = [todo EXCEPT ![job] = 0]
                      /\ short' = short + todo[job]
            /\ UNCHANGED <<spec, stage, type, community, edges, budget, unvisited, facts, name,
                           aliases, wanted, asked>>

EntityTotal == Quota("entity") + short

\* the other kinds are through: plan the entity questions, or end
PlanEntities ==
    /\ stage = "asking"
    /\ \A j \in DOMAIN todo : todo[j] = 0
    /\ IF \E j \in DOMAIN todo : j.kind = "entity"
         THEN stage' = "asked" /\ UNCHANGED todo
         ELSE LET share == Apportion(EntityTotal, wanted.hopMix)
              IN  /\ todo' = [j \in {Job(k, h) : k \in {"entity", "make_up"},
                                                 h \in DOMAIN share} |->
                                IF j.kind = "entity" THEN share[j.hops] ELSE 0]
                  /\ UNCHANGED stage
    /\ UNCHANGED <<spec, type, community, edges, budget, unvisited, facts, name, aliases,
                   wanted, short, asked>>

(***************************************************************************)
(* One action per kind of question.                                        *)
(***************************************************************************)
New(kind, P(_)) == ~ \E q \in asked : q.kind = kind /\ P(q)

\* "Name ...": the one entity at the end of a walk
AskEntity(job) ==
    /\ Current(job) /\ job.kind = "entity"
    /\ \E start \in Starts : \E steps \in Walks(start, job.hops) :
        /\ LeadsOnlyThere(start, steps)
        /\ New("entity", LAMBDA q : q.start = start /\ q.paths = {FactsOf(steps)})
        /\ Keep(job, [Blank EXCEPT !.hops = job.hops, !.start = start,
                        !.relations = RelationsOf(steps),
                        !.answers = {EndOf(start, steps)}, !.paths = {FactsOf(steps)}])

\* the live facts of an entity for one relation and direction
FactsFor(i, relation) ==
    {st.fact : st \in {x \in Steps : Relation(x) = relation /\ Source(x) = i}}

\* "List every ..." and "Count the ...": all entities the last step reaches; the thing asked
\* for is named after the first of them
AskSet(job) ==
    /\ Current(job) /\ job.kind \in {"set", "count", "make_up"}
    /\ \E start \in Starts : \E steps \in Walks(start, job.hops) :
        LET lead == SubSeq(steps, 1, job.hops - 1)
            last == Relation(steps[job.hops])
            members == Reach({EndOf(start, lead)}, last)
            kind == IF job.kind = "count" THEN "count" ELSE "set"
            paths == {Append(FactsOf(lead), f) : f \in FactsFor(EndOf(start, lead), last)}
        IN  /\ LeadsOnlyThere(start, lead)
            /\ Cardinality(members) \in MinSet..MaxSet
            /\ New(kind, LAMBDA q : q.start = start /\ q.paths = paths)
            /\ \E first \in members :
                Keep(job, [Blank EXCEPT !.kind = kind, !.hops = job.hops, !.start = start,
                             !.relations = RelationsOf(steps), !.label = type[first],
                             !.answers = members,
                             !.number = IF kind = "count" THEN Cardinality(members) ELSE 0,
                             !.paths = paths])

Holders(relation) == {i \in Real : FactsFor(i, relation) # {}}

Relations == {Relation(st) : st \in Steps}

Singles(S) == {<<f>> : f \in S}

\* "Which of A and B has more ...": two of one type whose counts differ
AskCompare(job) ==
    /\ Current(job) /\ job.kind = "compare"
    /\ \E r \in Relations : \E winner, loser \in Holders(r) :
        LET more == FactsFor(winner, r)
            less == FactsFor(loser, r)
        IN  /\ UniquelyNamed(winner) /\ UniquelyNamed(loser)
            /\ type[winner] = type[loser]
            /\ Cardinality(more) > Cardinality(less)
            /\ New("compare", LAMBDA q : q.relations = <<r>> /\ q.paths = Singles(more \cup less))
            /\ Keep(job, [Blank EXCEPT !.kind = "compare", !.start = winner, !.relations = <<r>>,
                            !.answers = {winner}, !.paths = Singles(more \cup less)])

StrictTop(r, top) ==
    \A i \in Holders(r) \ {top} : Cardinality(FactsFor(i, r)) < Cardinality(FactsFor(top, r))

\* "Which ... has the most": one entity alone at the top, with two facts or more
AskSuperlative(job) ==
    /\ Current(job) /\ job.kind = "superlative"
    /\ \E r \in Relations : \E top \in Holders(r) :
        /\ StrictTop(r, top)
        /\ Cardinality(FactsFor(top, r)) >= 2
        /\ UniquelyNamed(top)
        /\ New("superlative", LAMBDA q : q.relations = <<r>>)
        /\ Keep(job, [Blank EXCEPT !.kind = "superlative", !.start = top, !.relations = <<r>>,
                        !.answers = {top}, !.paths = Singles(FactsFor(top, r))])

\* a fact of this relation, live or past, typed or not
EverHeld(i, relation) ==
    \E f \in facts :
        /\ f.predicate = relation.predicate
        /\ i = IF relation.forward THEN f.subject ELSE f.object

\* "Name the ..." of a relation the world holds no fact for, though others of its type do
AskUnanswerable(job) ==
    /\ Current(job) /\ job.kind = "unanswerable"
    /\ \E start \in Starts : \E r \in Relations :
        /\ type[start] \in {type[i] : i \in Holders(r)}
        /\ ~EverHeld(start, r)
        /\ New("unanswerable", LAMBDA q : q.start = start /\ q.relations = <<r>>)
        /\ Keep(job, [Blank EXCEPT !.kind = "unanswerable", !.start = start, !.relations = <<r>>])

\* the statement of a step with this other end
Claim(st, other) ==
    IF st.forward THEN Triple(st.fact.subject, st.fact.predicate, other)
    ELSE Triple(other, st.fact.predicate, st.fact.object)

\* a claim about the start that its only true answer contradicts, and a question after it
AskFalsePremise(job) ==
    /\ Current(job) /\ job.kind = "false_premise"
    /\ \E st \in {x \in Steps : Source(x) \in Starts} : \E fake \in Starts :
        LET start == Source(st)
        IN  /\ Reach({start}, Relation(st)) = {Target(st)}
            /\ fake \notin {start, Target(st)}
            /\ type[fake] = type[Target(st)]
            /\ Claim(st, fake) \notin {TripleOf(f) : f \in facts}
            /\ \E next \in Steps : Source(next) = fake /\ Target(next) # start
            /\ New("false_premise", LAMBDA q : q.start = start /\ q.paths = {<<st.fact>>}
                                                 /\ q.claim = Claim(st, fake))
            /\ Keep(job, [Blank EXCEPT !.kind = "false_premise", !.hops = 2, !.start = start,
                            !.relations = <<Relation(st)>>, !.paths = {<<st.fact>>},
                            !.claim = Claim(st, fake)])

(***************************************************************************)
(* Questions about change.                                                 *)
(***************************************************************************)

\* the facts over time of a subject, a relation and a kind of object
Versions(topic) ==
    {f \in facts : /\ f.predicate # Vague /\ f.subject \in Real /\ f.object \in Real
                   /\ UniquelyNamed(f.subject)
                   /\ topic = <<f.subject, f.predicate, type[f.object]>>}

Topics ==
    {t \in Real \X Predicates \X Types : Versions(t) # {}}

Changed == {t \in Topics : \E a, b \in Versions(t) : a # b /\ a.to = b.from}

Withdrawn == {t \in Topics : \A f \in Versions(t) : f.to # Never}

Temporal(kind, topic) ==
    [Blank EXCEPT !.kind = kind, !.start = topic[1],
        !.relations = <<[predicate |-> topic[2], forward |-> TRUE]>>, !.label = topic[3]]

\* "As of <year>, name ...": a year in which exactly one version held
AskAsOf(job) ==
    /\ Current(job) /\ job.kind = "as_of"
    /\ \E topic \in Changed : \E pick \in Versions(topic) :
       \E year \in pick.from .. ((IF pick.to = Never THEN EndYear + 1 ELSE pick.to) - 1) :
        LET held == {f.object : f \in {x \in Versions(topic) : HoldsIn(x, year)}}
        IN  /\ held = {pick.object}
            /\ New("as_of", LAMBDA q : q.start = topic[1] /\ q.label = topic[3] /\ q.year = year
                              /\ q.relations[1].predicate = topic[2])
            /\ Keep(job, [Temporal("as_of", topic) EXCEPT !.answers = {pick.object},
                            !.year = year, !.paths = {<<pick>>},
                            !.stale = {f.object : f \in Versions(topic)} \ {pick.object}])

\* "Currently, name ...": the one version of several that never ended
AskLatest(job) ==
    /\ Current(job) /\ job.kind = "latest"
    /\ \E topic \in Changed : \E now \in Versions(topic) :
        /\ {f \in Versions(topic) : f.to = Never} = {now}
        /\ Cardinality(Versions(topic)) >= 2
        /\ New("latest", LAMBDA q : q.start = topic[1] /\ q.label = topic[3]
                           /\ q.relations[1].predicate = topic[2])
        /\ Keep(job, [Temporal("latest", topic) EXCEPT !.answers = {now.object},
                        !.paths = {<<now>>},
                        !.stale = {f.object : f \in Versions(topic) \ {now}}])

\* "Currently, name ..." where every version ended
AskRetracted(job) ==
    /\ Current(job) /\ job.kind = "retracted"
    /\ \E topic \in Withdrawn : \E gone \in Versions(topic) :
        /\ New("retracted", LAMBDA q : q.start = topic[1] /\ q.label = topic[3]
                              /\ q.relations[1].predicate = topic[2])
        /\ Keep(job, [Temporal("retracted", topic) EXCEPT !.paths = {<<gone>>},
                        !.stale = {f.object : f \in Versions(topic)}])

(***************************************************************************)
(* Paths and summaries.                                                    *)
(***************************************************************************)
OtherEnd(f, i) == IF f.subject = i THEN f.object ELSE f.subject

Around(i) == {f \in Live : Touches(f, i)}

Beside(S) == UNION {{OtherEnd(f, i) : f \in Around(i)} : i \in S}

\* the entities by their distance from the start
Layers(start, hops) ==
    LET reached[n \in 0..hops] ==
          IF n = 0 THEN {start} ELSE reached[n - 1] \cup Beside(reached[n - 1])
    IN  [n \in 0..hops |-> IF n = 0 THEN {start} ELSE reached[n] \ reached[n - 1]]

\* the chains one fact longer that end in this layer
Longer(chains, layer) ==
    {[at |-> OtherEnd(x[2], x[1].at), chain |-> Append(x[1].chain, x[2])] : x \in
       {y \in chains \X Live :
          Touches(y[2], y[1].at) /\ OtherEnd(y[2], y[1].at) \in layer}}

\* the chains of facts that go one layer further with each fact, with where they end
Chains(start, hops) ==
    LET layer == Layers(start, hops)
        to[n \in 0..hops] ==
          IF n = 0 THEN {[at |-> start, chain |-> <<>>]} ELSE Longer(to[n - 1], layer[n])
    IN  to[hops]

\* "How is A connected to B?": the shortest chains, when there are few
AskPath(job) ==
    /\ Current(job) /\ job.kind = "path"
    /\ \E start \in Starts : \E steps \in Walks(start, job.hops) :
        LET end == EndOf(start, steps)
            chains == {c.chain : c \in {x \in Chains(start, job.hops) : x.at = end}}
        IN  /\ UniquelyNamed(end) /\ end # start
            /\ Cardinality(chains) \in 1..MaxPaths
            /\ New("path", LAMBDA q : q.start = start /\ q.answers = {end})
            /\ Keep(job, [Blank EXCEPT !.kind = "path", !.hops = job.hops, !.start = start,
                            !.answers = {end}, !.paths = chains])

Fewest(a, b) == IF a < b THEN a ELSE b

Ends(f) == {f.subject, f.object}

\* what is no longer true of the subject and no live fact about the same pair says
EndedClaims(start) ==
    {f \in facts : /\ f.predicate # Vague /\ Touches(f, start) /\ f.to # Never
                   /\ f.subject \in Real /\ f.object \in Real
                   /\ Ends(f) \notin {Ends(x) : x \in Live}}

\* the facts among the first entries of a list that names a fact once at each near end of it
FirstListed(length, near, context) ==
    LET entries(some) == MapThenSumSet(LAMBDA f : Cardinality(Ends(f) \cap near), some)
        kept == Fewest(length, entries(context))
    IN  {some \in SUBSET context : Cardinality(some) <= kept /\ kept <= entries(some)}

\* "Summarize what is known about X": facts to cover and claims to avoid
AskOpenEnded(job) ==
    /\ Current(job) /\ job.kind = "open_ended"
    /\ \E start \in {i \in Starts : Cardinality(Around(i)) >= Enough} :
        LET hops == Fewest(job.hops, 2)
            own == Around(start)
        IN  /\ New("open_ended", LAMBDA q : q.start = start /\ q.hops = hops)
            /\ \E required \in kSubset(Fewest(MaxRequired, Cardinality(own)), own) :
               LET near == UNION {Ends(f) : f \in required} \ {start}
                   context == IF hops < 2 THEN {}
                              ELSE UNION {Around(i) : i \in near} \ own
               IN  \E extra \in FirstListed(MaxContext, near, context) :
                    Keep(job, [Blank EXCEPT !.kind = "open_ended", !.hops = hops,
                                 !.start = start, !.required = required \cup extra,
                                 !.paths = Singles(required \cup extra),
                                 !.forbidden = EndedClaims(start)])

Ask(job) ==
    \/ AskEntity(job) \/ AskSet(job) \/ AskCompare(job) \/ AskSuperlative(job)
    \/ AskUnanswerable(job) \/ AskFalsePremise(job)
    \/ AskAsOf(job) \/ AskLatest(job) \/ AskRetracted(job)
    \/ AskPath(job) \/ AskOpenEnded(job)

QuestionsInit ==
    /\ Init
    /\ wanted = <<>> /\ todo = <<>> /\ short = 0 /\ asked = {}

QuestionsNext ==
    \/ Generate /\ UNCHANGED questionVars
    \/ Plan \/ NothingToAsk \/ PlanEntities
    \/ \E job \in DOMAIN todo : Ask(job) \/ GiveUp(job)

QuestionsSpec == QuestionsInit /\ [][QuestionsNext]_vars

(***************************************************************************)
(* kgbench's check of what names alone allow: a chain question is          *)
(* answered again by a reader for whom whatever shares a name, or an alias,*)
(* is one thing.                                                           *)
(***************************************************************************)

Labels(i) == {name[i]} \cup aliases[i]

\* the entities in classes: whatever carries one label is one thing, followed transitively
Classes ==
    FoldSet(LAMBDA label, classes :
              LET holders == {c \in classes : \E i \in c : label \in Labels(i)}
              IN  (classes \ holders) \cup {UNION holders},
            {{i} : i \in DOMAIN name}, UNION {Labels(i) : i \in DOMAIN name})

Thing(i, classes) == CHOOSE c \in classes : i \in c

Towards(f, start) == IF f.subject = start THEN f.object ELSE f.subject

\* a gold path from its start: relations, and the type of what each leads to
Along(start, path) ==
    FoldLeft(LAMBDA walk, f :
               [here |-> Towards(f, walk.here),
                steps |-> Append(walk.steps,
                    [predicate |-> f.predicate, forward |-> f.subject = walk.here,
                     kind |-> type[Towards(f, walk.here)]])],
             [here |-> start, steps |-> <<>>], path).steps

\* what one step leads to from things, over these facts
Reached(read, frontier, step, classes) ==
    LET live == {f \in read : f.predicate = step.predicate}
        far == IF step.forward THEN {f.object : f \in {x \in live : x.subject \in frontier}}
               ELSE {f.subject : f \in {x \in live : x.object \in frontier}}
    IN  {j \in UNION {Thing(i, classes) : i \in far} : type[j] = step.kind}

\* Wrong on purpose: what has ended is read too.
ReadOverTime(start, steps, classes) ==
    {Thing(i, classes) : i \in
        FoldLeft(LAMBDA frontier, step : Reached(facts, frontier, step, classes),
                 Thing(start, classes), steps)}

\* the answers, as things, that a reader of names comes to
ReadByNames(start, steps, classes) ==
    {Thing(i, classes) : i \in
        FoldLeft(LAMBDA frontier, step : Reached(CurrentEdges, frontier, step, classes),
                 Thing(start, classes), steps)}

\* answers beyond the gold's
Extra(q, path, classes) ==
    ReadByNames(q.start, Along(q.start, path), classes)
        \ {Thing(i, classes) : i \in q.answers}
=============================================================================
