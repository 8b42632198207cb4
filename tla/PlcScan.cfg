SPECIFICATION FairSpec
CONSTANTS
    Rows <- MCRows
    Shorts <- MCShorts
    AutoRows = {"A1"}
    Area = {}
    Tray = {"A1"}
    MaxScan = 3
    NeedTimes = 2
    AutoReadMax = 2
    Buttons = TRUE
    MaxFailures = 1
INVARIANTS PlcTypeOK LongConnectRuns
PROPERTIES SentWasWritten AnswerFresh StatusFollows RequestsEnd
CHECK_DEADLOCK FALSE
