CONSTANTS
    zobiLabs = zobiLabs
    zobi = zobi
    mara = mara
    Zobi = Zobi
    Labs = Labs
    Mara = Mara
    Voss = Voss
    M = M
    The = The
    zobi_ = zobi_
    labs_ = labs_
    mara_ = mara_
    voss_ = voss_
    m_ = m_
    the_ = the_
    foundedBy = foundedBy
    employs = employs
    owns = owns
    has = has
    offices = offices
    it = it
    rained = rained
    passage = passage
    question = question
    rater = rater
    Name <- MCName
    Aliases <- MCAliases
    Decoys = {}
    FactsOf <- MCFactsOf
    FirstYear = 2010
    Never = 9999
    Stop = Stop
    Space = Space
    Newline = Newline
    Frames <- MCFrames
    Plain <- MCPlain
    MaxFacts = 2
    Neighbours = 1
    TargetWords = 15
    ParagraphAfter = 2
    Styles <- MCStyles
    Workers = 2
    Replies <- MCReplies
    NoReply = NoReply
    MaxRuns = 2
    NoId = NoId
    EntityOrder <- MCEntityOrder
    Unit = 2520
    Capitalized <- MCCapitalized
    Leading = {The}
    Folded <- MCFolded
    Digits <- MCDigits
    RelatedTo = employs
    QuestionSet <- MCQuestions
    Phrases <- MCPhrases
    Structures <- MCStructures
    Unsaid = Unsaid
    MaxSentences = 2
    Files <- MCFiles
    Sizes <- MCSizes
    KeyOf <- MCKeyOf
    Predictions <- MCPredictions
    Lower <- MCLower
    Punctuation = {Stop}
    Articles = {the_}
    MaxCalls = 2
    Symmetric = {}
    Pools <- MCPools
    Batches <- MCBatches
    Endpoint <- MCEndpoint
    None = None
SPECIFICATION MCSpec
INVARIANTS
    CorpusIsExact
    ScoresAreFair
    HarnessIsWarm
    VerdictsHold
PROPERTIES
    GradesAreFair
\* a behaviour ends when its part is done
CHECK_DEADLOCK FALSE
