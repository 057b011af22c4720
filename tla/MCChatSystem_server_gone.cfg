SPECIFICATION FairSpec
CONSTANTS
    c1 = c1
    c2 = c2
    c3 = c3
    Chat = {c1}
    NoChat = NoChat
    MaxTurns = 1
    TextSize = {1}
    ReplySize = {1}
    MaxItem = 1
    MaxHistory = 4
    Shutdowns = TRUE
    Reloads = FALSE
PROPERTIES TurnEnds
CHECK_DEADLOCK FALSE
