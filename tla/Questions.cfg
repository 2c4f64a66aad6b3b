SPECIFICATION GeneratorSpec
CONSTANTS
    e1 = e1
    e2 = e2
    e3 = e3
    e4 = e4
    d1 = d1
    d2 = d2
    initials = initials
    ORG = ORG
    PERSON = PERSON
    PRODUCT = PRODUCT
    OWNS = OWNS
    WORKS_FOR = WORKS_FOR
    Vague = RELATED_TO
    Never = Never
    Real <- MCReal
    LookAlikes = {d1, d2}
    Types = {ORG, PERSON, PRODUCT}
    Predicates = {OWNS, WORKS_FOR}
    Signatures <- MCSignatures
    Forms <- MCForms
    StartYear = 0
    EndYear = 2
    Specs <- MCSpecs
    QuestionSpecs <- MCQuestionSpecs
    MinSet = 2
    MaxSet = 2
    MaxFrontier = 2
    MaxPaths = 2
    MaxRequired = 2
    MaxContext = 2
    Enough = 2
    Updates = 1
    Deletes = 1
    Scripted <- MCScripted
    StatSpecs <- MCSpecs
SYMMETRY Symmetry
INVARIANTS
    WorldIsAsSpecified
    GoldIsRight
    NamesReachTheGold
    ScenariosReplay
\* a failed run, a derived set of questions and a replayed scenario are ends
CHECK_DEADLOCK FALSE
