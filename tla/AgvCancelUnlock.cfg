CONSTANTS
  a1 = a1
  a2 = a2
  p1 = p1
  p2 = p2
  Agvs <- OneAgv
  NoAgv = NoAgv
  Piles <- OnePile
  NoPile = NoPile
  Away = Away
  Levels <- AboveLow
  Operator <- CancelsAndUnlocks
  MaxTasks = 2
  Capacity = 1
  ArmSends = 0
  ArmOutWait = 0
  ArmInWait = 0
  MaxAdjust = 0
  Prompt = FALSE
  LinkFails = FALSE
  DbFails = FALSE
SPECIFICATION AgvSpec
CHECK_DEADLOCK FALSE
INVARIANT TasksApart
