---------------------------- MODULE MCExtraction ----------------------------
(***************************************************************************)
(* A text with a person, a place, a date and a company in two sentences,   *)
(* read differently by two models, and an empty one.                       *)
(***************************************************************************)
EXTENDS Extraction, TLC

Id(t, n) == [type |-> t, n |-> n]

MCIds == {Id("PERSON", 1), Id("LOCATION", 1), Id("ORG", 1), Id("ORG", 2), Id("DATE", 1)}

MCCurated == [l \in {"PERSON", "GPE", "LOC", "ORG", "DATE"} |->
                IF l \in {"GPE", "LOC"} THEN "LOCATION" ELSE l]

Ent(s, l, at) == [surface |-> s, label |-> l, start |-> at]

MCReads ==
    [trf |-> [story |-> <<Ent("Ann", "PERSON", 0), Ent("Berlin", "GPE", 1),
                          Ent("2023", "DATE", 2), Ent("Acme", "ORG", 3)>>,
              empty |-> <<>>],
     sm |-> [story |-> <<Ent("Ann", "PERSON", 0), Ent("Berlin", "ORG", 1),
                         Ent("one", "CARDINAL", 2), Ent("Ann", "ORG", 3)>>,
             empty |-> <<>>]]

MCSegments == [story |-> <<[start |-> 0, end |-> 2], [start |-> 2, end |-> 4]>>, empty |-> <<>>]

Group(c, ms) == [canonical |-> c, members |-> ms]

\* a pronoun with its name, two names, a date with a name, nothing in the text, overlaps
MCCorefAnswers ==
    {<<>>,
     <<Group("Ann", {"Ann", "she"})>>,
     <<Group("she", {"Ann", "Acme"})>>,
     <<Group("2023", {"Acme"})>>,
     <<Group("she", {})>>,
     <<Group("Ann", {"Ann"}), Group("she", {"Ann", "Berlin"})>>,
     <<Group("it", {"Acme", "2023"}), Group("nobody", {"she"})>>}

\* one entity a type, or two companies
MCResolvers ==
    {[t \in Types |-> [s \in Surfaces |-> Id(t, 1)]],
     [t \in Types |-> [s \in Surfaces |-> Id(t, IF t = "ORG" /\ s = "Berlin" THEN 2 ELSE 1)]]}

Said(s, p, o, at) == [subject |-> s, phrase |-> p, object |-> o, sentence |-> at, date |-> "2023"]

MCTripleAnswers ==
    {<<>>,
     <<Said(Id("PERSON", 1), "works at", Id("ORG", 1), 2)>>,
     <<Said(Id("PERSON", 1), "likes", Id("ORG", 2), 1), Said(Id("ORG", 1), "works at", Id("DATE", 1), 1)>>,
     <<Said(Id("LOCATION", 1), "linked to", Id("ORG", 1), 3),
       Said(Id("ORG", 1), "LIKES", Id("ORG", 1), 2)>>}

MCFallbacks == <<"trf", "sm">>

MCNormalized == [p \in {"works at", "likes", "LIKES", "linked to"} |-> IF p = "LIKES" THEN "likes" ELSE p]

MCLookup == ("works at" :> "WORKS_FOR") @@ ("linked to" :> "RELATED_TO")
=============================================================================
