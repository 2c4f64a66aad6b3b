--------------------------- MODULE MCGeneratorUI ---------------------------
\* Three worlds: one drawn whole, one with too many facts, one with too many entities.
EXTENDS GeneratorUI, TLC

CONSTANTS small, dense, wide, plenty, few, haiku

Arrow(s, o) == [subject |-> s, object |-> o, ended |-> FALSE]
Past(s, o) == [subject |-> s, object |-> o, ended |-> TRUE]

MCEntities == small :> 3 @@ dense :> 4 @@ wide :> 4

MCFacts ==
    small :> <<Past(1, 2), Arrow(1, 3), Arrow(2, 1)>> @@
    dense :> <<Arrow(1, 4), Arrow(2, 3), Arrow(2, 4), Arrow(3, 4)>> @@
    wide :> <<Arrow(4, 3)>>

About(start, ids) == [start |-> start, facts |-> ids]

\* a question about the past, a path that leaves the sample, and a form a world cannot supply
MCDerivation ==
    small :> (few :> <<About(1, {1})>> @@ plenty :> <<About(1, {1}), About(3, {2})>>) @@
    dense :> (few :> <<About(1, {1, 4})>> @@ plenty :> <<>>) @@
    wide :> (few :> <<About(4, {1})>> @@ plenty :> <<>>)

Single == [perDoc |-> 1, words |-> 0, context |-> 1]
Long == [perDoc |-> 2, words |-> 2, context |-> 1]

MCRenderForms == {Single, Long}
=============================================================================
