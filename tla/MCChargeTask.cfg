CONSTANTS
  a1 = a1
  a2 = a2
  p1 = p1
  Agvs <- MCAgvs
  NoAgv = NoAgv
  Piles <- MCPiles
  NoPile = NoPile
  MaxTasks = 2
  Capacity = 1
  ArmSends = 1
  ArmOutWait = 1
  ArmInWait = 1
  MaxAdjust = 1
  Prompt = FALSE
  LinkFails = TRUE
  DbFails = FALSE
SYMMETRY Symmetry
SPECIFICATION Spec
CHECK_DEADLOCK FALSE
INVARIANTS TypeOK ContactorAttended OverIsSafe
