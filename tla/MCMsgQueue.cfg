CONSTANTS
  t1 = t1
  t2 = t2
  t3 = t3
  START_CHARGE_MSG_MACRO = START_CHARGE_MSG_MACRO
  ARM_IN_MSG_MACRO = ARM_IN_MSG_MACRO
  Threads <- MCThreads
  Types <- MCTypes
  Empty = Empty
  Nobody = Nobody
  Size = 2
  MaxMsgs = 4
SYMMETRY Symmetry
SPECIFICATION Spec
INVARIANTS TypeOK
PROPERTY ImplementsFifo
