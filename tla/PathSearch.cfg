SPECIFICATION Spec
CONSTANTS
  a1 = a1
  a2 = a2
  b1 = b1
  b2 = b2
  l = l
  V <- MCV
  dpOf <- MCdpOf
  Near <- MCNear
  Instability <- MCInstability
  BreakProb <- MCBreakProb
  Busy <- MCBusy
  RI <- MCRI
  TechCost <- MCTechCost
  HopCost = 1
  maxTTL = 4
INVARIANTS
  TypeOK
  NoContradiction
  LengthIsCost
PROPERTIES
  IsBestPath
  SearchEnds
CHECK_DEADLOCK FALSE
