SPECIFICATION Spec
CONSTANTS
    Docs = {d1, d2}
    Texts = {"story", "empty"}
    Surfaces = {"Ann", "Berlin", "2023", "Acme", "she", "it", "one", "nobody"}
    Types = {"PERSON", "LOCATION", "ORG", "DATE"}
    Ids <- MCIds
    Date = "DATE"
    Curated <- MCCurated
    Models = {"trf", "sm"}
    Configured = "sm"
    Fallbacks <- MCFallbacks
    Reads <- MCReads
    Segments <- MCSegments
    CorefAnswers <- MCCorefAnswers
    Resolvers <- MCResolvers
    TripleAnswers <- MCTripleAnswers
    Normalized <- MCNormalized
    Lookup <- MCLookup
    RelatedTo = "RELATED_TO"
    MaxRuns = 3
    NoModel = NoModel
    NoNode = NoNode
    NoPhrase = NoPhrase
    Raw = Raw
    None = None
INVARIANTS
    ReadingIsFaithful
\* the documents are bounded (MaxRuns), so the system stops
CHECK_DEADLOCK FALSE
