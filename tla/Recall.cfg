SPECIFICATION FairSpec
CONSTANTS
    Ids = {1, 2, 3, 4}
    Cosines <- MCCosines
    NotSeed = NotSeed
    TopK = 2
    Hops = 2
    WSeed = 7
    WProx = 3
    Unit = 12
    Links <- MCLinks
    MaxChanges = 2
INVARIANT HopsAreShortest
INVARIANT HopsMatchGraph
INVARIANT SeedsDecide
PROPERTY RecallEnds
