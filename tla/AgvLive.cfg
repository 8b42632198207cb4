CONSTANTS
  a1 = a1
  a2 = a2
  p1 = p1
  p2 = p2
  Agvs <- OneAgv
  NoAgv = NoAgv
  Piles <- OnePile
  NoPile = NoPile
  Away = Away
  Levels <- AllLevels
  Operator <- Unlocks
  MaxTasks = 3
  Capacity = 1
  ArmSends = 1
  ArmOutWait = 1
  ArmInWait = 1
  MaxAdjust = 0
  Prompt = FALSE
  LinkFails = TRUE
  DbFails = FALSE
SPECIFICATION FairSpec
CHECK_DEADLOCK FALSE
PROPERTY OrderServed
