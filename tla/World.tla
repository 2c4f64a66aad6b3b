------------------------------- MODULE World -------------------------------
(***************************************************************************)
(* kggen's world generator: the ground truth every document, question and  *)
(* score of the benchmark is derived from.  `generate` draws typed edges   *)
(* until the spec's number is placed or its budget of draws is spent, then *)
(* dates them (some are replaced, some retracted), names the entities and  *)
(* adds look-alikes.  Every random draw is a nondeterministic choice.      *)
(***************************************************************************)
EXTENDS Integers, Sequences, FiniteSets, FiniteSetsExt

CONSTANTS
    Real,           \* the ids of the spec's entities; an id stands for its first name too
    LookAlikes,     \* the ids distractors may get
    Types, Predicates,
    Vague,          \* RELATED_TO, the predicate of noise edges
    Signatures,     \* Predicates -> the pairs of types it may connect
    Forms,          \* Real -> the alternative forms of the name of that id
    StartYear, EndYear,
    Never,          \* the end of a fact that is still true
    Specs,          \* the world specs of the instance
    StatSpecs       \* those whose structure is measured (bounds the instance)

\* weights for some of the members of K
IsMix(mix, K) == DOMAIN mix \subseteq K /\ mix \in [DOMAIN mix -> Nat]

\* The knobs that are shares in the code are the numbers that come out of rounding them here.
\* Every name has a form that no entity has for its first name: one in capitals, with a hyphen,
\* or with an initial; alias_forms lists a few (alias_forms).
ASSUME WorldAssumption ==
    /\ IsFiniteSet(Real) /\ IsFiniteSet(LookAlikes) /\ Real \cap LookAlikes = {}
    /\ IsFiniteSet(Types)
    /\ Signatures \in [Predicates -> SUBSET (Types \X Types)]
    /\ Vague \notin Predicates
    /\ \A i \in Real : IsFiniteSet(Forms[i]) /\ Forms[i] \ Real # {}
    /\ StartYear \in Nat /\ EndYear \in Nat
    /\ Never \notin Nat
    /\ \A sp \in Specs :
        /\ {sp.edges, sp.communities} \subseteq Nat \ {0}
        /\ {sp.noise, sp.closing, sp.spare, sp.replaced, sp.retracted, sp.homonyms, sp.aliased,
            sp.distractors} \subseteq Nat
        /\ sp.noise <= sp.edges /\ sp.aliased <= Cardinality(Real)
        /\ IsMix(sp.typeMix, Types)
        /\ DOMAIN sp.predicateMix = Predicates /\ IsMix(sp.predicateMix, Predicates)

VARIABLES
    spec,           \* the knobs of this world
    stage,          \* how far `generate` is
    type,           \* Real and look-alikes -> type
    community,      \* Real -> community
    edges,          \* the triples placed
    budget,         \* draws left
    unvisited,      \* edges the churn has not looked at
    facts,          \* dated facts
    name,           \* ids -> name
    aliases         \* ids -> alternative names

worldVars == <<spec, stage, type, community, edges, budget, unvisited, facts, name, aliases>>

Triple(s, p, o) == [subject |-> s, predicate |-> p, object |-> o]

TripleOf(f) == Triple(f.subject, f.predicate, f.object)

Fact(t, from, to) ==
    [subject |-> t.subject, predicate |-> t.predicate, object |-> t.object,
     from |-> from, to |-> to]

(***************************************************************************)
(* WorldSpec.                                                              *)
(***************************************************************************)

\* the relations of positive weight and the pairs of present types they may connect
FeasiblePairs(sp, present) ==
    [p \in {q \in Predicates : sp.predicateMix[q] > 0} |->
        {pair \in Signatures[p] : pair[1] \in present /\ pair[2] \in present}]

Weighted(mix) == {k \in DOMAIN mix : mix[k] > 0}

\* what the model validator of WorldSpec accepts
IsValid(sp) ==
    /\ EndYear > StartYear
    /\ sp.replaced + sp.retracted <= sp.edges
    /\ Weighted(sp.typeMix) # {}
    /\ Weighted(sp.predicateMix) # {}
    /\ sp.communities <= Cardinality(Real)
    /\ LET pairs == FeasiblePairs(sp, Weighted(sp.typeMix))
           used == UNION {{pair[1], pair[2]} : pair \in UNION {pairs[p] : p \in DOMAIN pairs}}
       IN  /\ used # {}
           /\ Weighted(sp.typeMix) \subseteq used

\* `total` split in proportion to the weights: the largest remainders get what is left over
Apportion(total, mix) ==
    LET keys == Weighted(mix)
        scale == SumFunctionOnSet(mix, keys)
        whole == [k \in keys |-> (total * mix[k]) \div scale]
        rest == [k \in keys |-> (total * mix[k]) % scale]
        leftover == total - SumFunction(whole)
        lucky == CHOOSE top \in SUBSET keys :
                    /\ Cardinality(top) = leftover
                    /\ \A a \in top, b \in keys \ top : rest[a] >= rest[b]
    IN  [k \in keys |-> whole[k] + (IF k \in lucky THEN 1 ELSE 0)]

Share(mix, k) == IF k \in DOMAIN mix THEN mix[k] ELSE 0

(***************************************************************************)
(* Placing edges.                                                          *)
(***************************************************************************)
Noise == IF spec.noise < spec.edges THEN spec.noise ELSE spec.edges - 1
Core == spec.edges - Noise
Closing == IF spec.closing < Core THEN spec.closing ELSE Core
Placed == Cardinality(edges)

\* shuffles: which entity gets which type and community
Shuffled(f, share) ==
    \A v \in DOMAIN share : Cardinality({i \in Real : f[i] = v}) = share[v]

Init ==
    /\ spec \in {sp \in Specs : IsValid(sp)}
    /\ stage = "placing"
    /\ type \in {f \in [Real -> Types] :
            Shuffled(f, [t \in Types |->
                Share(Apportion(Cardinality(Real), spec.typeMix), t)])}
    /\ community \in {f \in [Real -> 0 .. spec.communities - 1] :
            Shuffled(f, Apportion(Cardinality(Real), [c \in 0 .. spec.communities - 1 |-> 1]))}
    /\ edges = {} /\ unvisited = {} /\ facts = {}
    /\ budget = spec.edges + spec.spare
    /\ name = [i \in Real |-> i]
    /\ aliases = [i \in Real |-> {}]

\* the relations that can connect the types the entities really got
Feasible == FeasiblePairs(spec, {type[i] : i \in Real})

\* the four drawing loops run in this order, each until its condition fails
Loop ==
    CASE budget = 0                           -> "over"
      [] budget > 0 /\ Placed < Core - Closing -> "base"
      [] budget > 0 /\ Placed >= Core - Closing /\ Placed < Core /\ Closing > 0 -> "closing"
      [] budget > 0 /\ Placed >= Core - Closing /\ Placed < Core /\ Closing = 0 -> "fallback"
      [] budget > 0 /\ Placed >= Core /\ Placed < spec.edges -> "noise"
      [] OTHER                                -> "over"

Fail ==
    /\ stage' = "failed"
    /\ UNCHANGED <<spec, type, community, edges, budget, unvisited, facts, name, aliases>>

\* one draw: an edge to itself, or one that is there, is refused, and the draw is spent
Add(s, p, o) ==
    /\ edges' = IF s = o THEN edges ELSE edges \cup {Triple(s, p, o)}
    /\ budget' = budget - 1
    /\ UNCHANGED <<spec, stage, type, community, unvisited, facts, name, aliases>>

\* entities of this type in the community, or everywhere when it has none
Pool(t, home) ==
    LET near == {i \in Real : type[i] = t /\ community[i] = home}
    IN  IF near # {} THEN near ELSE {i \in Real : type[i] = t}

\* the object is drawn at home, or anywhere when the edge may mix communities
DrawBase ==
    /\ stage = "placing" /\ Loop \in {"base", "fallback"}
    /\ \E p \in DOMAIN Feasible : \E pair \in Feasible[p] : \E s, o \in Real :
        /\ type[s] = pair[1] /\ type[o] = pair[2]
        /\ \/ o \in Pool(pair[2], community[s])
           \/ spec.mixing /\ spec.communities > 1
        /\ Add(s, p, o)

\* the types that came out of the rounding cannot be connected
NoRelation ==
    /\ stage = "placing" /\ edges = {}
    /\ \A p \in DOMAIN Feasible : Feasible[p] = {}
    /\ Fail

\* an edge from the end of two consecutive ones back to their start
DrawClosing ==
    /\ stage = "placing" /\ Loop = "closing"
    /\ \E e, f \in edges :
        /\ f.subject = e.object /\ f.object # e.subject
        /\ \E p \in DOMAIN Feasible :
            /\ <<type[f.object], type[e.subject]>> \in Feasible[p]
            /\ Add(f.object, p, e.subject)

\* a draw that finds no second edge, or no relation that closes the triangle
MissClosing ==
    /\ stage = "placing" /\ Loop = "closing"
    /\ \E e \in edges :
        \/ \A f \in edges : f.subject # e.object
        \/ \E f \in edges :
            /\ f.subject = e.object
            /\ \/ f.object = e.subject
               \/ \A p \in DOMAIN Feasible :
                    <<type[f.object], type[e.subject]>> \notin Feasible[p]
    /\ budget' = budget - 1
    /\ UNCHANGED <<spec, stage, type, community, edges, unvisited, facts, name, aliases>>

\* drawing from an empty list raises: every core edge was to close a triangle
CloseNothing == stage = "placing" /\ Loop = "closing" /\ edges = {} /\ Fail

DrawNoise ==
    /\ stage = "placing" /\ Loop = "noise"
    /\ \E s, o \in Real : Add(s, Vague, o)

\* every edge starts in the first year; too few edges is an error
EndPlacing ==
    /\ stage = "placing" /\ Loop = "over"
    /\ \E p \in DOMAIN Feasible : Feasible[p] # {}
    /\ IF Placed < spec.edges
         THEN Fail
         ELSE /\ stage' = "churn"
              /\ facts' = {Fact(t, StartYear, Never) : t \in edges}
              /\ unvisited' = edges
              /\ UNCHANGED <<spec, type, community, edges, budget, name, aliases>>

(***************************************************************************)
(* Dating edges.                                                           *)
(***************************************************************************)
Replaced == Cardinality({f \in facts : f.from # StartYear})
Ended == Cardinality({f \in facts : f.to # Never})
Retracted == Ended - Replaced

ChurnDone == Replaced >= spec.replaced /\ Retracted >= spec.retracted

\* what could take the object's place
Replacements(t) ==
    {c \in Real :
        /\ type[c] = type[t.object] /\ c \notin {t.subject, t.object}
        /\ Triple(t.subject, t.predicate, c) \notin {TripleOf(f) : f \in facts}}

EndFact(t, year, successors) ==
    facts' = (facts \ {Fact(t, StartYear, Never)}) \cup {Fact(t, StartYear, year)} \cup successors

\* Wrong on purpose: the new object takes over a year late.
LateTakeOver(t, year) ==
    \E c \in Replacements(t) :
        EndFact(t, year, {Fact(Triple(t.subject, t.predicate, c), year + 1, Never)})

\* the edge ends in this year and another object takes over
Replace(t, year) ==
    \E c \in Replacements(t) :
        EndFact(t, year, {Fact(Triple(t.subject, t.predicate, c), year, Never)})

\* edges in any order: replace while replacements are wanted and possible, else retract
Churn ==
    /\ stage = "churn" /\ ~ChurnDone
    /\ \E t \in unvisited : \E year \in StartYear + 1 .. EndYear :
        /\ unvisited' = unvisited \ {t}
        /\ IF Replaced < spec.replaced /\ Replacements(t) # {} THEN Replace(t, year)
           ELSE IF Retracted < spec.retracted THEN EndFact(t, year, {})
           ELSE facts' = facts
    /\ UNCHANGED <<spec, stage, type, community, edges, budget, name, aliases>>

EndChurn ==
    /\ stage = "churn"
    /\ ChurnDone \/ unvisited = {}
    /\ IF ~ChurnDone
         THEN Fail
         ELSE /\ stage' = "naming"
              /\ unvisited' = {}
              /\ UNCHANGED <<spec, type, community, edges, budget, facts, name, aliases>>

(***************************************************************************)
(* Names, aliases and look-alikes.                                         *)
(***************************************************************************)

\* an alias is a form of the name that no entity has for its name
FreeForms(i, names) == Forms[names[i]] \ {names[j] : j \in Real}

\* some entities take another's exact name, and some get alternative names
NameEntities ==
    /\ stage = "naming"
    /\ \E homonyms \in kSubset(spec.homonyms, Real) :
       \E twin \in [homonyms -> Real \ homonyms] :
        LET names == [i \in Real |-> IF i \in homonyms THEN twin[i] ELSE i]
            nameable == {i \in Real : FreeForms(i, names) # {}}
            wanted == IF spec.aliased < Cardinality(nameable) THEN spec.aliased
                      ELSE Cardinality(nameable)
        IN  \E aliased \in kSubset(wanted, nameable) :
            /\ name' = names
            /\ aliases' \in
                 {f \in [Real -> SUBSET UNION {FreeForms(i, names) : i \in Real}] :
                    \A i \in Real :
                       IF i \in aliased THEN f[i] # {} /\ f[i] \subseteq FreeForms(i, names)
                       ELSE f[i] = {}}
    /\ stage' = "look-alikes"
    /\ UNCHANGED <<spec, type, community, edges, budget, unvisited, facts>>

\* the facts a look-alike may have: one relation to another look-alike
Partnerships(d, kind) ==
    LET pairs == FeasiblePairs(spec, Weighted(spec.typeMix))
    IN  {Fact(Triple(d, c[1], c[2]), StartYear, Never) :
            c \in {q \in (DOMAIN pairs) \X (DOMAIN kind) :
                    q[2] # d /\ <<kind[d], kind[q[2]]>> \in pairs[q[1]]}}

\* look-alikes copy a real entity's type, have names of their own, and one fact each, to
\* another look-alike, when a relation allows it
AddLookAlikes ==
    /\ stage = "look-alikes"
    /\ \E added \in kSubset(spec.distractors, LookAlikes) :
       \E model \in [added -> Real] :
        LET kind == [d \in added |-> type[model[d]]]
            social == {d \in added : Partnerships(d, kind) # {}}
        IN  /\ \E link \in [social -> UNION {Partnerships(d, kind) : d \in social}] :
                /\ \A d \in social : link[d] \in Partnerships(d, kind)
                /\ facts' = facts \cup {link[d] : d \in social}
            /\ type' = [i \in Real \cup added |-> IF i \in Real THEN type[i] ELSE kind[i]]
            /\ name' = [i \in Real \cup added |-> IF i \in Real THEN name[i] ELSE i]
            /\ aliases' = [i \in Real \cup added |-> IF i \in Real THEN aliases[i] ELSE {}]
    /\ stage' = "world"
    /\ UNCHANGED <<spec, community, edges, budget, unvisited>>

Generate ==
    \/ NoRelation
    \/ DrawBase \/ DrawClosing \/ MissClosing \/ CloseNothing \/ DrawNoise \/ EndPlacing
    \/ Churn \/ EndChurn
    \/ NameEntities \/ AddLookAlikes

(***************************************************************************)
(* A finished world.                                                       *)
(***************************************************************************)

HoldsIn(f, year) == f.from <= year /\ (f.to = Never \/ year < f.to)

EdgesAsOf(year) == {f \in facts : HoldsIn(f, year)}

CurrentEdges == {f \in facts : f.to = Never}

(***************************************************************************)
(* The statistics of a finished world, and the check of each knob against  *)
(* its spec.  Shares are compared as the counts they stand for.            *)
(***************************************************************************)

\* facts true in the first year among real entities
BaseEdges == {f \in facts : f.from = StartYear /\ f.subject \in Real /\ f.object \in Real}

Adjacent(i) ==
    {f.object : f \in {x \in BaseEdges : x.subject = i}}
      \cup {f.subject : f \in {x \in BaseEdges : x.object = i}}

Neighbours(S) == UNION {Adjacent(i) : i \in S}

FoundBy(dist, n) == UNION {dist[m] : m \in 0 .. n}

\* breadth first: the entities found after n rounds, none twice
Search(source) ==
    LET dist[n \in 0 .. Cardinality(Real)] ==
          IF n = 0 THEN {source} ELSE Neighbours(dist[n - 1]) \ FoundBy(dist, n - 1)
    IN  dist

\* components: what a search from some entity finds
Components == {FoundBy(Search(i), Cardinality(Real)) : i \in Real}

Successors == {f \in facts : f.from > StartYear}
EndedFacts == {f \in facts : f.to # Never}

SharedNames == Cardinality(Real) - Cardinality({name[i] : i \in Real})

Aliased == {i \in Real : aliases[i] # {}}

Distractors == DOMAIN name \ Real

\* realized against target, within a tolerance
Near(realized, target, tolerance) ==
    realized - target <= tolerance /\ target - realized <= tolerance

\* the checks of `check_against_spec`; the mean degree may be 5% and one edge off, the others by
\* one entity or edge
CheckAgainstSpec ==
    LET total == SumFunctionOnSet(spec.typeMix, Weighted(spec.typeMix))
        n == Cardinality(Real)
        typed(t) == Cardinality({i \in Real : type[i] = t})
    IN  [avg_degree |-> Near(20 * Cardinality(BaseEdges), 20 * spec.edges, spec.edges + 20),
         type_mix |-> \A t \in DOMAIN spec.typeMix :
                        Near(typed(t) * total, n * spec.typeMix[t], total),
         alias_rate |-> Near(Cardinality(Aliased), spec.aliased, 1),
         homonym_rate |-> Near(SharedNames, spec.homonyms, 1),
         distractor_rate |-> Near(Cardinality(Distractors), spec.distractors, 1),
         noise_rate |-> Near(Cardinality({f \in BaseEdges : f.predicate = Vague}), spec.noise, 1),
         churn_rate |-> Near(Cardinality(Successors), spec.replaced, 1),
         retraction_rate |->
            Near(Cardinality(EndedFacts) - Cardinality(Successors), spec.retracted, 1)]
=============================================================================
