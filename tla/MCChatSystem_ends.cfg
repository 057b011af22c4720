SPECIFICATION FairSpec
CONSTANTS
    c1 = c1
    c2 = c2
    c3 = c3
    Chat = {c1, c2}
    NoChat = NoChat
    MaxTurns = 2
    TextSize = {1}
    ReplySize = {0}
    MaxItem = 1
    MaxHistory = 4
    Shutdowns = FALSE
    Reloads = FALSE
INVARIANTS WaitEnds
PROPERTIES TurnEnds
CHECK_DEADLOCK FALSE
