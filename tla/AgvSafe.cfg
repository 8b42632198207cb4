CONSTANTS
  a1 = a1
  a2 = a2
  p1 = p1
  p2 = p2
  Agvs <- MCAgvs
  NoAgv = NoAgv
  Piles <- OnePile
  NoPile = NoPile
  Away = Away
  Levels <- AllLevels
  Operator <- Cancels
  MaxTasks = 2
  Capacity = 5
  ArmSends = 1
  ArmOutWait = 2
  ArmInWait = 6
  MaxAdjust = 2
  Prompt = TRUE
  LinkFails = FALSE
  DbFails = FALSE
SYMMETRY MCSymmetry
SPECIFICATION AgvSpec
CHECK_DEADLOCK FALSE
INVARIANTS AgvTypeOK TasksApart
PROPERTIES DepartDisconnected DepartArmIn CurrentAtArm
