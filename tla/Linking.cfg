SPECIFICATION LinkingSpec
CONSTANTS
    PER = PER
    ada = ada
    bob = bob
    empty = empty
    Types = {PER}
    Names = {ada, bob, empty}
    NoName = empty
    v = v
    w = w
    x = x
    Vectors = {v, w, x}
    Cosine <- MCCosine
    Threshold = 82
    TopK = 2
    TieBreaker = TRUE
    Margin = 10
    NoSalt = NoSalt
    NoEntity = NoEntity
INVARIANT NamesDisjoint
INVARIANT LinksAgree
INVARIANT IdsAreDerived
PROPERTY SeedKept
PROPERTY AliasesEarned
PROPERTY OwnsNames
