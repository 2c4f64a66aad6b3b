SPECIFICATION Spec
CONSTANTS
    d1 = d1
    d2 = d2
    adaText = adaText
    graceText = graceText
    ada = ada
    grace = grace
    acme = acme
    y2023 = y2023
    PERSON = PERSON
    ORG = ORG
    DATE = DATE
    WORKS_FOR = WORKS_FOR
    MEMBER_OF = MEMBER_OF
    NoText = NoText
    NoRecord = NoRecord
    Docs = {d1, d2}
    Texts = {adaText, graceText}
    Entities = {ada, grace, acme, y2023}
    EntityTypes = {PERSON, ORG, DATE}
    Predicates = {WORKS_FOR, MEMBER_OF}
    TypeOf <- MCTypeOf
    Mentions <- MCMentions
    Facts <- MCFacts
    Uploaders = {u1}
    Erasers = {r1}
    MaxAccepts = 2
    MaxForgets = 1
    MaxFaults = 1
SYMMETRY Symmetry
INVARIANTS
    TypeOK
    CrashRedelivers
    EdgesOfOneText
\* accepts, forgets and faults are bounded: when they are used up the system is idle
CHECK_DEADLOCK FALSE
