CONSTANTS
  a1 = a1
  a2 = a2
  o1 = o1
  o2 = o2
  s1 = s1
  s2 = s2
  s3 = s3
  P1 = P1
  P2 = P2
  P3 = P3
  Agvs <- MCAgvs
  Orders <- OneOrder
  NoOrder = NoOrder
  Storages <- MCStorages
  Start <- OneStart
  Target <- MCTarget
  Parks <- MCParks
  Charging <- MCReleased
  Released <- MCReleased
  Away = Away
  Nothing = Nothing
  MaxId = 4
  MaxRestarts = 0
  Operator <- Cancels
  LowPower = TRUE
  Rejects = TRUE
  Refuses = TRUE
SYMMETRY MCSymmetry
SPECIFICATION Spec
INVARIANTS StationsApart
