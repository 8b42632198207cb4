SPECIFICATION FairSpec
CONSTANTS
    Connections <- MCConnections
    Addresses = {p1, p2}
    Orders = {o1}
    None = None
    Parts = 2
    MaxFailures = 1
INVARIANTS ServiceTypeOK OwnMessage AnswerTrue
PROPERTIES Answered
CHECK_DEADLOCK FALSE
