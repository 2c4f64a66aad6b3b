SPECIFICATION Spec
CONSTANTS
    small = small
    dense = dense
    wide = wide
    plenty = plenty
    few = few
    haiku = haiku
    None = None
    Worlds = {small, dense, wide}
    Entities <- MCEntities
    WorldFacts <- MCFacts
    QuestionForms = {few, plenty}
    Derivation <- MCDerivation
    DefaultQuestions = few
    RenderForms <- MCRenderForms
    DefaultRender <- Single
    MaxWords = 6
    Models = {haiku}
    MaxCalls = 3
    MaxGraphNodes = 3
    MaxGraphEdges = 2
INVARIANTS
    PageIsOfOneWorld
    NothingIsPaidTwice
