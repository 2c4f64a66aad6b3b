CONSTANTS
    Tenants = {"default", "acme"}
    Namespaces = {"team"}
    Root = "none"
    Scope <- MCScope
    DefaultTenant = "default"
    Reserved = "_scopes"
    RootPart = "root"
    NamespacePart = "ns"
    Parts = {"default", "acme", "team", "k", "_scopes", "root", "ns"}
    Locations = {"d1", "d2"}
    Mentionable = {"ann", "bob"}
    Keys <- MCKeys
    Contents = {"new"}
    Records <- MCRecords
    Profiles <- MCProfiles
    Normalized <- MCNormalized
    NoVector = 0
    TopK = 2
    Hops = 2
    OldObjects <- MCOldObjects
    OldDocuments <- MCOldDocuments
    OldEntities <- MCOldEntities
    OldNodes <- MCOldNodes
    OldEdges <- MCOldEdges
    Nothing = Nothing
    NoField = NoField
SPECIFICATION MCSpec
INVARIANTS
    QueriesStayInScope
PROPERTIES
    OthersAreUntouched
    ImplementsScopedMemory
