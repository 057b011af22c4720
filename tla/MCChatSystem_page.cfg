SPECIFICATION Spec
CONSTANTS
    c1 = c1
    c2 = c2
    c3 = c3
    Chat = {c1, c2}
    NoChat = NoChat
    MaxTurns = 2
    TextSize = {1}
    ReplySize = {0, 1, 2}
    MaxItem = 1
    MaxHistory = 4
    Shutdowns = TRUE
    Reloads = TRUE
SYMMETRY Symmetry
INVARIANTS TypeOK AnswersMatch OneConnection StreamHasSource SavedIsCurrent
PROPERTIES FailedStaysFailed
CHECK_DEADLOCK FALSE
