---------------------------- MODULE MCQuestions ----------------------------
\* Worlds of four entities, one knob of the spec at a time.
EXTENDS QuestionsProperties, TLC

CONSTANTS e1, e2, e3, e4, d1, d2, initials,
    ORG, PERSON, PRODUCT, OWNS, WORKS_FOR

MCReal == {e1, e2, e3, e4}

MCSignatures ==
    [p \in Predicates |->
        IF p = OWNS THEN {<<ORG, ORG>>, <<ORG, PRODUCT>>} ELSE {<<PERSON, ORG>>}]

\* initials that every name shares, and forms that are someone else's name
MCForms == [i \in Real |-> {initials} \cup (Real \ {i})]

Plain ==
    [edges |-> 4, noise |-> 0, closing |-> 0, spare |-> 0, communities |-> 1, mixing |-> FALSE,
     replaced |-> 0, retracted |-> 0, homonyms |-> 0, aliased |-> 0, distractors |-> 0,
     typeMix |-> (ORG :> 2 @@ PERSON :> 1 @@ PRODUCT :> 1),
     predicateMix |-> (OWNS :> 1 @@ WORKS_FOR :> 1)]

OrgsOnly == (ORG :> 1 @@ PERSON :> 0 @@ PRODUCT :> 0)

MCSpecs ==
    {Plain,
     [Plain EXCEPT !.edges = 3, !.replaced = 1, !.retracted = 1],
     [Plain EXCEPT !.edges = 2, !.homonyms = 1, !.aliased = 1],
     [Plain EXCEPT !.edges = 2, !.distractors = 2],
     [Plain EXCEPT !.edges = 3, !.noise = 1, !.spare = 1],
     [Plain EXCEPT !.edges = 3, !.closing = 1, !.spare = 1, !.typeMix = OrgsOnly,
                   !.communities = 2, !.mixing = TRUE],
     [Plain EXCEPT !.edges = 2, !.typeMix = OrgsOnly, !.communities = 2],
     [Plain EXCEPT !.edges = 1, !.closing = 1],
     \* rounding leaves no organization
     [Plain EXCEPT !.typeMix = (ORG :> 1 @@ PERSON :> 20 @@ PRODUCT :> 0),
                   !.predicateMix = (OWNS :> 0 @@ WORKS_FOR :> 1)],
     \* no relation reaches a product
     [Plain EXCEPT !.predicateMix = (OWNS :> 0 @@ WORKS_FOR :> 1)]}

Only(kind, hops) == [n |-> 1, typeMix |-> (kind :> 1), hopMix |-> (hops :> 1)]

MCQuestionSpecs ==
    {Only(k, h) : k \in {"entity", "set", "count", "path", "open_ended"}, h \in {1, 2}}
      \cup {Only("entity", 3)}
      \cup {Only(Unhopped[i], 1) : i \in DOMAIN Unhopped}
      \cup {[n |-> 2, typeMix |-> ("superlative" :> 1 @@ "entity" :> 1),
             hopMix |-> (1 :> 1 @@ 2 :> 1)]}

\* churn, noise and look-alikes, one scenario each
MCScripted ==
    {[Plain EXCEPT !.edges = 3, !.replaced = 1, !.retracted = 1],
     [Plain EXCEPT !.edges = 2, !.distractors = 2]}

Symmetry == Permutations(MCReal) \cup Permutations({d1, d2})
=============================================================================
