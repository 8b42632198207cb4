SPECIFICATION FairSpec
CONSTANTS
    Agv = {1, 2}
    Areas <- MCAreas
    Limit <- MCLimit
    Places <- MCPlaces
    Buttons = TRUE
    MaxRows = 0
    MaxRestarts = 1
INVARIANTS AreaTypeOK LimitKept NoneForgotten
PROPERTIES FirstComeFirstServed WaitEnds
