SPECIFICATION FairSpec
CONSTANTS
    ExecNum = 2
    OldFeedback = {"OTHER", "SUCCESS", "FAILED"}
    MaxId = 3
    MaxOutages = 1
    MaxRequests = 2
    MaxFailures = 1
INVARIANTS SearchTypeOK PathWanted
PROPERTIES DispatchedHasPath OneRequest WaitingEnds
CHECK_DEADLOCK FALSE
