SPECIFICATION Spec
CONSTANTS
    MaxLength = 4
    Histories <- SmallHistories
    Replies <- Answers
    Asides <- OneAside
    Found <- SmallFound
    MaxCalls = 2
    MaxSteps = 2
    NoPage = NoPage
    UnknownFile = "(unknown)"
INVARIANTS TypeOK ReasoningHidden AnswerKept CitesTheSearches
PROPERTIES ImplementsEndpoint
CHECK_DEADLOCK FALSE
