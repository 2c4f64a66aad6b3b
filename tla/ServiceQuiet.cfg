SPECIFICATION FairQuietSpec
CONSTANTS
    d1 = d1
    d2 = d2
    adaText = adaText
    graceText = graceText
    ada = ada
    grace = grace
    acme = acme
    y2023 = y2023
    PERSON = PERSON
    ORG = ORG
    DATE = DATE
    WORKS_FOR = WORKS_FOR
    MEMBER_OF = MEMBER_OF
    NoText = NoText
    NoRecord = NoRecord
    Docs = {d1, d2}
    Texts = {adaText, graceText}
    Entities = {ada, grace, acme, y2023}
    EntityTypes = {PERSON, ORG, DATE}
    Predicates = {WORKS_FOR, MEMBER_OF}
    TypeOf <- MCTypeOf
    Mentions <- MCMentionsNoDate
    Facts <- MCFacts
    Uploaders = {u1, u2}
    Erasers = {r1}
    MaxAccepts = 2
    MaxForgets = 2
    MaxFaults = 1
INVARIANTS
    SharedEntitySurvives
    GraphGrounded
    RecordGoesLast
    NoUpdateLost
PROPERTIES
    ForgetSweeps
    EventuallyCurrent
\* accepts, forgets and faults are bounded: when they are used up the system is idle
CHECK_DEADLOCK FALSE
