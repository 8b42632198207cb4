CONSTANTS
  a1 = a1
  a2 = a2
  o1 = o1
  o2 = o2
  s1 = s1
  s2 = s2
  s3 = s3
  P1 = P1
  P2 = P2
  P3 = P3
  Agvs <- MCAgvs
  Orders <- MCOrders
  NoOrder = NoOrder
  Storages <- MCStorages
  Start <- OneStart
  Target <- MCTarget
  Parks <- NoParks
  Charging <- NoParks
  Released <- NoParks
  Away = Away
  Nothing = Nothing
  MaxId = 4
  MaxRestarts = 1
  Operator <- AllButtons
  LowPower = FALSE
  Rejects = TRUE
  Refuses = FALSE
SYMMETRY OrderSymmetry
SPECIFICATION Spec
INVARIANTS TypeOK OneDuty ReportTrue DoneWasCarried FreeAtRest NoneReservedInVain
PROPERTIES ImplementsOrders
